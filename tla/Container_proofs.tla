-------------------------- MODULE Container_proofs --------------------------
(***************************************************************************)
(* The container: its scheduler and its application run as they would      *)
(* alone, so that the theorems about each hold of the whole, and the run   *)
(* lock of the one is what the other relies on.                            *)
(***************************************************************************)
EXTENDS Container, TLAPS

\* The theorems about the parts.
Locks == INSTANCE CronScheduler_proofs WITH Events <- ServiceEvents

Runs == INSTANCE NoSilentLoss_proofs WITH
  Proc <- Service, Limits <- {Limit}, Events <- RunEvents

------------------------------------------------------------------------------
\* The steps of the parts.

\* The steps of the run of s.
RunSteps(s) ==
  \/ App!RunStep(s)
  \/ \E c \in Channel : App!ChannelUnavailable(s, c)
  \/ App!RunFails(s) \/ App!NoticeFails(s) \/ App!TearCutoff(s) \/ App!Interrupt(s)

\* They are steps of an active run, need no time and touch no other run.
LEMMA RunMoves ==
  ASSUME NEW s \in Service, RunSteps(s)
  PROVE  /\ run[s].pc # "idle"
         /\ now' = now
         /\ \E r : run' = [run EXCEPT ![s] = r]
<1>1. CASE \/ App!ReadPending(s) \/ App!RetryStops(s) \/ App!RetryEnds(s)
           \/ App!DiscoverStops(s) \/ App!DiscoveryEnds(s) \/ App!SkipShort(s)
           \/ App!CaptionsUnavailable(s) \/ App!Summarize(s) \/ App!SettleRead(s)
           \/ App!RecordRead(s) \/ App!Finish(s)
  BY <1>1 DEF App!ReadPending, App!RetryStops, App!RetryEnds,
              App!DiscoverStops, App!DiscoveryEnds, App!SkipShort,
              App!CaptionsUnavailable, App!Summarize, App!SettleRead,
              App!RecordRead, App!Finish, App!Become, App!world
<1>2. CASE \/ App!SettleWrite(s) \/ App!RecordWrite(s) \/ App!Fallback(s)
           \/ App!TruncateCutoff(s) \/ App!WriteCutoff(s) \/ App!Deliver(s)
  BY <1>2 DEF App!SettleWrite, App!RecordWrite, App!Fallback, App!TruncateCutoff,
              App!WriteCutoff, App!Deliver, App!Become, App!world
<1>3. CASE App!RetryNext(s) \/ App!DiscoverNext(s) \/ App!SkipAttempted(s)
  BY <1>3 DEF App!RetryNext, App!DiscoverNext, App!SkipAttempted, App!Become, App!world
<1>4. CASE \/ App!RunFails(s) \/ App!NoticeFails(s) \/ App!TearCutoff(s)
           \/ App!Interrupt(s) \/ App!RetryUnavailable(s)
  BY <1>4 DEF App!RunFails, App!NoticeFails, App!TearCutoff, App!Interrupt,
              App!RetryUnavailable, App!Abort, App!Become, App!world
<1>5. CASE \E c \in Channel : App!ChannelUnavailable(s, c)
  BY <1>5 DEF App!ChannelUnavailable, App!Become, App!world
<1> QED
  BY <1>1, <1>2, <1>3, <1>4, <1>5 DEF RunSteps, App!RunStep

LEMMA RunStarts ==
  ASSUME NEW s \in Service, RunBegins(s)
  PROVE  /\ run[s].pc = "idle" /\ child[s] = "running"
         /\ now' = now
         /\ \E r : run' = [run EXCEPT ![s] = r]
  BY DEF RunBegins, App!StartSubscriptions, App!Become, App!world

\* The steps of the services that leave the application alone.
ServiceSteps(s) ==
  \/ Start(s) \/ Schedule(s) \/ ServiceFails(s) \/ Spawn(s) \/ ChildExits(s)
  \/ StartupFails(s) \/ Signal(s)

LEMMA ServiceMoves ==
  ASSUME NEW s \in Service, ServiceSteps(s)
  PROVE  /\ UNCHANGED <<now, application>>
         /\ \/ Sched!Start(s) \/ Sched!ServiceStep(s) \/ Sched!SaveFails(s)
            \/ Sched!SpawnFails(s) \/ Sched!ChildExits(s) \/ Sched!Signal(s)
<1>1. now' = now
  BY DEF ServiceSteps, Start, Schedule, ServiceFails, Spawn, ChildExits, StartupFails,
         Signal, Sched!Start, Sched!Loop, Sched!Stop, Sched!Poll, Sched!PollFails,
         Sched!SaveCursor, Sched!Wake, Sched!Due, Sched!Acquire, Sched!Skip,
         Sched!Check, Sched!Assign, Sched!Reap, Sched!Release, Sched!SaveFails,
         Sched!SpawnFails, Sched!Spawn, Sched!ChildExits, Sched!Signal
<1> QED
  BY <1>1 DEF ServiceSteps, Start, Schedule, ServiceFails, Spawn, ChildExits,
              StartupFails, Signal, Sched!ServiceStep

\* The steps of the environment.
LEMMA EnvironmentMoves ==
  ASSUME Maintain \/ Message
  PROVE  /\ UNCHANGED <<now, application>>
         /\ \/ Sched!OperatorLocks \/ Sched!OperatorUnlocks
            \/ \E restart \in BOOLEAN : Sched!Message(restart)
  BY DEF Maintain, Message, Sched!OperatorLocks, Sched!OperatorUnlocks, Sched!Message

\* What a service does in a step in which only its run moves on.
Follows(s) ==
  RunProceeds(s) \/ ChannelUnavailable(s) \/ RunFails(s) \/ RunInterrupted(s)

LEMMA NextCases ==
  ASSUME [Next]_vars
  PROVE  \/ Tick \/ Maintain \/ Message \/ UNCHANGED vars
         \/ \E s \in Service : ServiceSteps(s) \/ RunBegins(s) \/ Follows(s) \/ Crash(s)
  BY DEF Next, ServiceSteps, Follows

LEMMA FollowsRun ==
  ASSUME NEW s \in Service, Follows(s)
  PROVE  RunSteps(s) /\ UNCHANGED scheduler
  BY DEF Follows, RunSteps, RunProceeds, ChannelUnavailable, RunFails, RunInterrupted

LEMMA CrashMoves ==
  ASSUME NEW s \in Service, Crash(s)
  PROVE  /\ Sched!Crash(s) /\ now' = now /\ course' = course
         /\ \/ UNCHANGED application /\ run[s].pc = "idle"
            \/ App!Interrupt(s) \/ App!TearCutoff(s)
  BY DEF Crash, Sched!Crash

LEMMA SchedulerSteps ==
  ASSUME [Next]_vars
  PROVE  [Sched!Next]_(Sched!vars)
<1>1. CASE Tick \/ Maintain \/ Message
  BY <1>1, EnvironmentMoves DEF Tick, Sched!Next
<1>2. CASE UNCHANGED vars
  BY <1>2 DEF vars, scheduler, Sched!vars, Sched!files, Sched!history
<1>3. ASSUME NEW s \in Service, ServiceSteps(s)
      PROVE  Sched!Next
  BY <1>3, ServiceMoves DEF Sched!Next
<1>4. ASSUME NEW s \in Service, RunBegins(s) \/ Follows(s)
      PROVE  UNCHANGED Sched!vars
  <2>1. now' = now /\ UNCHANGED scheduler
    BY <1>4, RunStarts, RunMoves, FollowsRun DEF RunBegins
  <2> QED
    BY <2>1 DEF scheduler, Sched!vars, Sched!files, Sched!history
<1>5. ASSUME NEW s \in Service, Crash(s)
      PROVE  Sched!Next
  BY <1>5, CrashMoves DEF Sched!Next
<1> QED
  BY <1>1, <1>2, <1>3, <1>4, <1>5, NextCases

LEMMA ApplicationSteps ==
  ASSUME [Next]_vars
  PROVE  [App!Next]_(App!vars)
<1>1. ASSUME UNCHANGED <<now, application>>
      PROVE  UNCHANGED App!vars
  BY <1>1 DEF application, App!vars, App!world, App!disk, App!outcomes, App!windows
<1>2. CASE Tick
  BY <1>2 DEF Tick, App!Next
<1>3. CASE Maintain \/ Message
  BY <1>1, <1>3, EnvironmentMoves
<1>4. CASE UNCHANGED vars
  BY <1>1, <1>4 DEF vars
<1>5. ASSUME NEW s \in Service, ServiceSteps(s)
      PROVE  UNCHANGED App!vars
  BY <1>1, <1>5, ServiceMoves
<1>6. ASSUME NEW s \in Service, RunBegins(s) \/ RunSteps(s)
      PROVE  App!Next
  BY <1>6 DEF RunBegins, RunSteps, App!Next, App!RunEndsEarly
<1>7. ASSUME NEW s \in Service, Crash(s)
      PROVE  [App!Next]_(App!vars)
  BY <1>1, <1>6, <1>7, CrashMoves DEF RunSteps
<1> QED
  BY <1>2, <1>3, <1>4, <1>5, <1>6, <1>7, NextCases, FollowsRun

\* The container adds nothing to its parts: its scheduler is one of
\* CronScheduler and its application one of ApplicationPipeline, with the
\* services as the processes of the runs (run_application, main).
THEOREM PartsKept == Spec => Sched!Spec /\ App!Spec
<1>1. Init => Sched!Init /\ App!Init
  BY DEF Init
<1>2. [Next]_vars => [Sched!Next]_(Sched!vars) /\ [App!Next]_(App!vars)
  BY SchedulerSteps, ApplicationSteps
<1> QED
  BY <1>1, <1>2, PTL DEF Spec, Sched!Spec, App!Spec

------------------------------------------------------------------------------
\* The theorems about the parts are about instances of their own, whose
\* definitions are the same.

LEMMA SameScheduler == Sched!Spec => Locks!Spec
<1>1. Sched!Init => Locks!Init
  BY DEF Sched!Init, Locks!Init, Sched!OffService, Locks!OffService, Sched!Never,
         Locks!Never, Sched!Ids, Locks!Ids
<1>2. Sched!Next => Locks!Next
  BY DEF Sched!Next, Locks!Next, Sched!OffService, Locks!OffService, Sched!Ids,
         Locks!Ids, Sched!Tick, Locks!Tick, Sched!OperatorLocks,
         Locks!OperatorLocks, Sched!OperatorUnlocks, Locks!OperatorUnlocks,
         Sched!Message, Locks!Message, Sched!Start, Locks!Start,
         Sched!ServiceStep, Locks!ServiceStep, Sched!SaveFails, Locks!SaveFails,
         Sched!SpawnFails, Locks!SpawnFails, Sched!ChildExits, Locks!ChildExits,
         Sched!Signal, Locks!Signal, Sched!Crash, Locks!Crash, Sched!files,
         Locks!files, Sched!history, Locks!history, Sched!Never, Locks!Never,
         Sched!Patient, Locks!Patient, Sched!Up, Locks!Up, Sched!Become,
         Locks!Become, Sched!Loop, Locks!Loop, Sched!Stop, Locks!Stop, Sched!Poll,
         Locks!Poll, Sched!PollFails, Locks!PollFails, Sched!SaveCursor,
         Locks!SaveCursor, Sched!Wake, Locks!Wake, Sched!Due, Locks!Due,
         Sched!Acquire, Locks!Acquire, Sched!Skip, Locks!Skip, Sched!Check,
         Locks!Check, Sched!Spawn, Locks!Spawn, Sched!Assign, Locks!Assign,
         Sched!Reap, Locks!Reap, Sched!Release, Locks!Release, Sched!Exit,
         Locks!Exit, Sched!NextRun, Locks!NextRun, Sched!Pending, Locks!Pending,
         Sched!Fresh, Locks!Fresh, Sched!Stale, Locks!Stale, Sched!Count,
         Locks!Count, Sched!Return, Locks!Return, Sched!Later, Locks!Later,
         Sched!Requests, Locks!Requests
<1>3. UNCHANGED Sched!vars => UNCHANGED Locks!vars
  BY DEF Sched!vars, Locks!vars, Sched!files, Locks!files, Sched!history, Locks!history
<1>4. [Sched!Next]_(Sched!vars) => [Locks!Next]_(Locks!vars)
  BY <1>2, <1>3
<1> QED
  BY <1>1, <1>4, PTL DEF Sched!Spec, Locks!Spec

LEMMA SameApplication == App!Spec => Runs!Spec
<1>1. App!Init => Runs!Init
  BY DEF App!Init, Runs!Init, App!IdleRun, Runs!IdleRun, App!NoCutoff, Runs!NoCutoff,
         App!NoFailures, Runs!NoFailures
<1>2. App!Next => Runs!Next
  BY DEF App!Next, Runs!Next, App!NoCutoff, Runs!NoCutoff, App!NoFailures,
         Runs!NoFailures, App!IdleRun, Runs!IdleRun, App!Tick, Runs!Tick,
         App!Withdraw, Runs!Withdraw, App!StartSubscriptions,
         Runs!StartSubscriptions, App!StartSingle, Runs!StartSingle,
         App!ChannelUnavailable, Runs!ChannelUnavailable, App!RunStep,
         Runs!RunStep, App!RunEndsEarly, Runs!RunEndsEarly, App!world, Runs!world,
         App!disk, Runs!disk, App!outcomes, Runs!outcomes, App!windows,
         Runs!windows, App!WindowStart, Runs!WindowStart, App!Become, Runs!Become,
         App!Explain, Runs!Explain, App!Unseen, Runs!Unseen, App!ReadPending,
         Runs!ReadPending, App!RetryNext, Runs!RetryNext, App!RetryStops,
         Runs!RetryStops, App!RetryEnds, Runs!RetryEnds, App!RetryUnavailable,
         Runs!RetryUnavailable, App!DiscoverNext, Runs!DiscoverNext,
         App!SkipAttempted, Runs!SkipAttempted, App!DiscoverStops,
         Runs!DiscoverStops, App!DiscoveryEnds, Runs!DiscoveryEnds, App!SkipShort,
         Runs!SkipShort, App!CaptionsUnavailable, Runs!CaptionsUnavailable,
         App!Summarize, Runs!Summarize, App!Deliver, Runs!Deliver, App!SettleRead,
         Runs!SettleRead, App!SettleWrite, Runs!SettleWrite, App!RecordRead,
         Runs!RecordRead, App!RecordWrite, Runs!RecordWrite, App!Fallback,
         Runs!Fallback, App!Finish, Runs!Finish, App!TruncateCutoff,
         Runs!TruncateCutoff, App!WriteCutoff, Runs!WriteCutoff, App!NoticeFails,
         Runs!NoticeFails, App!RunFails, Runs!RunFails, App!Interrupt,
         Runs!Interrupt, App!TearCutoff, Runs!TearCutoff, App!InWindow,
         Runs!InWindow, App!PendingVideos, Runs!PendingVideos, App!Full,
         Runs!Full, App!Abort, Runs!Abort, App!Attempt, Runs!Attempt,
         App!SendResults, Runs!SendResults, App!Send, Runs!Send,
         App!CompleteRetry, Runs!CompleteRetry, App!Settle, Runs!Settle,
         App!Resume, Runs!Resume, App!RecordFailure, Runs!RecordFailure,
         App!AttemptNumber, Runs!AttemptNumber, App!NoticeDue, Runs!NoticeDue,
         App!Arrived, Runs!Arrived
<1>3. UNCHANGED App!vars => UNCHANGED Runs!vars
  BY DEF App!vars, Runs!vars, App!world, Runs!world, App!disk, Runs!disk, App!outcomes,
         Runs!outcomes, App!windows, Runs!windows
<1>4. [App!Next]_(App!vars) => [Runs!Next]_(Runs!vars)
  BY <1>2, <1>3
<1> QED
  BY <1>1, <1>4, PTL DEF App!Spec, Runs!Spec

\* So the invariants of the parts hold in the container.
LEMMA PartInvariants == Spec => []Locks!LockInv /\ []Runs!TypeOK
<1>1. Locks!Spec => []Locks!LockInv
  BY Locks!LockInvariant, ServiceAssumption DEF Sched!AllEvents, Locks!AllEvents
<1>2. Runs!Spec => []Runs!TypeOK
  BY Runs!TypeCorrect, ServiceAssumption, RunAssumption DEF App!AllEvents, Runs!AllEvents
<1> QED
  BY <1>1, <1>2, PartsKept, SameScheduler, SameApplication, PTL

------------------------------------------------------------------------------
\* The runs stay inside the lock.

\* A run needs a live process, and a process begins one run.
ChildInv ==
  /\ course \in [Service -> Courses]
  /\ \A s \in Service :
       /\ run[s].pc # "idle" => Sched!Alive(s)
       /\ course[s] = "new" => run[s].pc = "idle"

\* What the invariants of the parts say of a service and its child.
LEMMA PartFacts ==
  ASSUME Locks!LockInv, Runs!TypeOK
  PROVE  /\ DOMAIN child = Service /\ DOMAIN run = Service
         /\ \A s \in Service : Sched!Alive(s) => svc[s].pc \in {"assign", "wait"}
         /\ \A s \in Service : Sched!Alive(s) => lock = s
  BY DEF Locks!LockInv, Locks!Holder, Locks!Holding, Locks!Alive, Sched!Alive, Runs!TypeOK

\* A step of s changes nothing for the other services.
LEMMA OthersKept ==
  ASSUME Locks!LockInv, Runs!TypeOK, ChildInv, NEW s \in Service,
         run' = run \/ \E r : run' = [run EXCEPT ![s] = r],
         child' = child \/ \E c : child' = [child EXCEPT ![s] = c],
         course' = course \/ \E c \in Courses : course' = [course EXCEPT ![s] = c],
         run'[s].pc # "idle" => Sched!Alive(s)',
         course'[s] = "new" => run'[s].pc = "idle"
  PROVE  ChildInv'
<1>1. course' \in [Service -> Courses]
  BY DEF ChildInv
<1>2. ASSUME NEW q \in Service, q # s
      PROVE  run'[q] = run[q] /\ child'[q] = child[q] /\ course'[q] = course[q]
  BY <1>2, PartFacts DEF ChildInv
<1>3. ASSUME NEW q \in Service
      PROVE  /\ run'[q].pc # "idle" => Sched!Alive(q)'
             /\ course'[q] = "new" => run'[q].pc = "idle"
  BY <1>2 DEF ChildInv, Sched!Alive
<1> QED
  BY <1>1, <1>3 DEF ChildInv

LEMMA ServiceKeepsChildren ==
  ASSUME Locks!LockInv, Runs!TypeOK, ChildInv, NEW s \in Service, ServiceSteps(s)
  PROVE  ChildInv'
<1>1. run' = run
  BY ServiceMoves DEF application
<1>2. /\ run[s].pc # "idle" => Sched!Alive(s) /\ svc[s].pc \in {"assign", "wait"}
      /\ course[s] = "new" => run[s].pc = "idle"
      /\ DOMAIN child = Service /\ DOMAIN course = Service
  BY PartFacts DEF ChildInv
<1>3. CASE Spawn(s)
  <2>1. /\ course' = [course EXCEPT ![s] = "new"] /\ svc[s].pc = "spawn"
        /\ child' = [child EXCEPT ![s] = "running"]
    BY <1>3 DEF Spawn, Follow, Sched!Spawn
  <2>2. run[s].pc = "idle"
    BY <1>2, <2>1
  <2> QED
    BY <1>1, <2>1, <2>2, OthersKept DEF Courses
<1>4. CASE ChildExits(s) \/ StartupFails(s)
  <2>1. /\ course' = course \/ course' = [course EXCEPT ![s] = "failed"]
        /\ child' = [child EXCEPT ![s] = "exited"]
        /\ run[s].pc = "idle"
    BY <1>2, <1>4 DEF ChildExits, StartupFails, Follow, Sched!ChildExits
  <2> QED
    BY <1>1, <2>1, OthersKept DEF Courses
<1>5. CASE Start(s) \/ Schedule(s) \/ ServiceFails(s) \/ Signal(s)
  <2>1. course' = course
    BY <1>5 DEF Start, Schedule, ServiceFails, Signal
  <2>2. CASE child' = child
    BY <1>1, <1>2, <2>1, <2>2, OthersKept DEF Sched!Alive
  <2>3. CASE child' = [child EXCEPT ![s] = "told"]
    BY <1>1, <1>2, <2>1, <2>3, OthersKept DEF Sched!Alive
  <2>4. CASE child' = [child EXCEPT ![s] = "none"] /\ ~ Sched!Alive(s)
    BY <1>1, <1>2, <2>1, <2>4, OthersKept
  <2>5. CASE Start(s) \/ Signal(s)
    BY <2>2, <2>3, <2>5 DEF Start, Signal, Sched!Start, Sched!Signal
  <2>6. CASE \/ Sched!Stop(s) \/ Sched!SaveFails(s) \/ Sched!SpawnFails(s)
             \/ Sched!Reap(s)
    <3>1. /\ child' = [child EXCEPT ![s] = "none"]
          /\ svc[s].pc \notin {"assign", "wait"} \/ child[s] = "exited"
      BY <2>6 DEF Sched!Stop, Sched!SaveFails, Sched!SpawnFails, Sched!Reap, Sched!Exit
    <3> QED
      BY <2>4, <3>1, PartFacts DEF Sched!Alive
  <2>7. CASE Schedule(s) /\ ~ Sched!Stop(s) /\ ~ Sched!Reap(s)
    <3>1. child' = child
      BY <2>7 DEF Schedule, Sched!Loop, Sched!Poll, Sched!PollFails, Sched!SaveCursor,
                  Sched!Wake, Sched!Due, Sched!Acquire, Sched!Skip, Sched!Check,
                  Sched!Assign, Sched!Release
    <3> QED
      BY <2>2, <3>1
  <2> QED
    BY <1>5, <2>5, <2>6, <2>7 DEF ServiceFails
<1> QED
  BY <1>3, <1>4, <1>5 DEF ServiceSteps

LEMMA ChildNext ==
  ASSUME Locks!LockInv, Runs!TypeOK, ChildInv, [Next]_vars
  PROVE  ChildInv'
<1>1. CASE Tick \/ Maintain \/ Message \/ UNCHANGED vars
  <2>1. UNCHANGED <<run, child, course>>
    BY <1>1 DEF Tick, Maintain, Message, vars, scheduler, application, App!Tick,
                Sched!Tick, Sched!OperatorLocks, Sched!OperatorUnlocks, Sched!Message
  <2> QED
    BY <2>1 DEF ChildInv, Sched!Alive
<1>2. ASSUME NEW s \in Service, ServiceSteps(s)
      PROVE  ChildInv'
  BY <1>2, ServiceKeepsChildren
<1>3. ASSUME NEW s \in Service, RunBegins(s)
      PROVE  ChildInv'
  <2>1. /\ child' = child /\ child[s] = "running"
        /\ course' = [course EXCEPT ![s] = "begun"]
        /\ \E r : run' = [run EXCEPT ![s] = r]
    BY <1>3, RunStarts DEF RunBegins, Follow, scheduler
  <2>2. Sched!Alive(s)' /\ course'[s] # "new"
    BY <2>1 DEF Sched!Alive, ChildInv
  <2> QED
    BY <2>1, <2>2, OthersKept DEF Courses
<1>4. ASSUME NEW s \in Service, Follows(s)
      PROVE  ChildInv'
  <2>1. /\ child' = child /\ run[s].pc # "idle"
        /\ \E r : run' = [run EXCEPT ![s] = r]
    BY <1>4, FollowsRun, RunMoves DEF scheduler
  <2>2. course' = course \/ course' = [course EXCEPT ![s] = "failed"]
    BY <1>4 DEF Follows, RunProceeds, ChannelUnavailable, RunFails, RunInterrupted, Follow
  <2>3. Sched!Alive(s)' /\ course'[s] # "new"
    BY <2>1, <2>2 DEF Sched!Alive, ChildInv
  <2> QED
    BY <2>1, <2>2, <2>3, OthersKept DEF Courses
<1>5. ASSUME NEW s \in Service, Crash(s)
      PROVE  ChildInv'
  <2>1. course' = course /\ child' = [child EXCEPT ![s] = "none"]
    BY <1>5 DEF Crash, Sched!Crash, Sched!Exit
  <2>2. CASE UNCHANGED application /\ run[s].pc = "idle"
    BY <2>1, <2>2, OthersKept DEF application
  <2>3. CASE App!Interrupt(s) \/ App!TearCutoff(s)
    <3>1. run' = [run EXCEPT ![s] = App!IdleRun]
      BY <2>3 DEF App!Interrupt, App!TearCutoff, App!Abort, App!Become
    <3>2. run'[s].pc = "idle"
      BY <3>1, PartFacts DEF App!IdleRun
    <3> QED
      BY <2>1, <3>1, <3>2, OthersKept
  <2> QED
    BY <1>5, <2>2, <2>3, CrashMoves
<1> QED
  BY <1>1, <1>2, <1>3, <1>4, <1>5, NextCases

LEMMA ChildInit == Init => ChildInv
  BY DEF Init, ChildInv, Courses, App!Init, App!IdleRun

LEMMA ChildInvariant == Spec => []ChildInv
<1>1. Locks!LockInv /\ Runs!TypeOK /\ ChildInv /\ [Next]_vars => ChildInv'
  BY ChildNext
<1> QED
  BY <1>1, ChildInit, PartInvariants, PTL DEF Spec

\* However services stop, crash and are replaced, a run works only inside the run
\* lock of its own service and while its process lives (run_application).
THEOREM RunsInsideLock == Spec => []RunInsideLock
<1>1. Locks!LockInv /\ Runs!TypeOK /\ ChildInv => RunInsideLock
  BY PartFacts DEF ChildInv, RunInsideLock
<1> QED
  BY <1>1, ChildInvariant, PartInvariants, PTL

------------------------------------------------------------------------------
\* What the application may rely on.

LEMMA NoTwoRuns == Spec => []Runs!SingleRun
<1>1. RunInsideLock => Runs!SingleRun
  BY DEF RunInsideLock, Runs!SingleRun
<1> QED
  BY <1>1, RunsInsideLock, PTL

\* The runs of all services together lose no video of a completed window, whatever
\* stops, crashes and fails, as long as they have no limit and write the cutoff
\* whole (run_application, run_subscriptions).
THEOREM ContainerLosesNothing ==
  ASSUME Limit = 0, "tear" \notin RunEvents
  PROVE  Spec => []App!NoSilentLoss
<1>1. Runs!Spec /\ []Runs!SingleRun => []Runs!LossInv
  BY Runs!LossInvariant, RunAssumption, ServiceAssumption DEF App!AllEvents, Runs!AllEvents
<1>2. Runs!LossInv => App!NoSilentLoss
  BY DEF Runs!LossInv, Runs!NoSilentLoss, App!NoSilentLoss,
         Runs!Accounted, App!Accounted, Runs!InFallback, App!InFallback,
         Runs!PendingVideos, App!PendingVideos
<1> QED
  BY <1>1, <1>2, PartsKept, SameApplication, NoTwoRuns, PTL

\* With any limit, a second message of the services about a video is explained by
\* a run that ended early, and a description is used after the last failure and
\* not before (run_application, _retry_pending_captions, record_caption_failure).
THEOREM ContainerExplainsDuplicates ==
  ASSUME "tear" \notin RunEvents
  PROVE  Spec => [](App!DuplicatesExplained /\ App!FallbackAfterMaxFailures)
<1>1. Runs!Spec /\ []Runs!SingleRun => []Runs!SoleInv
  BY Runs!SoleInvariant, RunAssumption, ServiceAssumption
     DEF App!AllEvents, Runs!AllEvents
<1>2. Runs!SoleInv => App!DuplicatesExplained /\ App!FallbackAfterMaxFailures
  BY DEF Runs!SoleInv, Runs!BookInv, Runs!Book, Runs!DuplicatesExplained,
         App!DuplicatesExplained, App!FallbackAfterMaxFailures
<1> QED
  BY <1>1, <1>2, PartsKept, SameApplication, NoTwoRuns, PTL

\* The container implements the abstract specifications of its parts together:
\* singleton runs and, under the assumptions above, the delivery ledger.
THEOREM ContainerImplements ==
  ASSUME Limit = 0, "tear" \notin RunEvents
  PROVE  Spec => Locks!RunsAreSingletons /\ Runs!LedgerKept
<1>1. Locks!Spec => Locks!RunsAreSingletons
  BY Locks!ImplementsSingletonRuns, ServiceAssumption DEF Sched!AllEvents, Locks!AllEvents
<1>2. Runs!Spec /\ []Runs!SingleRun => Runs!LedgerKept
  BY Runs!ImplementsLedger, RunAssumption, ServiceAssumption
     DEF App!AllEvents, Runs!AllEvents
<1> QED
  BY <1>1, <1>2, PartsKept, SameScheduler, SameApplication, NoTwoRuns, PTL

=============================================================================
