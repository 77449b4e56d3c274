------------------------ MODULE CronScheduler_proofs ------------------------
(***************************************************************************)
(* The schedulers on one data volume, for any number of services,          *)
(* occurrences and messages: scheduled runs never overlap, no occurrence   *)
(* and no request is lost or used twice, and CronScheduler implements      *)
(* SingletonRuns.                                                          *)
(***************************************************************************)
EXTENDS CronScheduler, TLAPS, WellFoundedInduction

------------------------------------------------------------------------------
\* The run lock.  A service that is anywhere between taking and releasing the
\* lock is its holder, and an application lives only while its service waits
\* for it.

\* Between Acquire and Release.
Holding == {"check", "spawn", "assign", "wait", "release"}

\* What a service and its child have to do with the lock.
Holder(s) ==
  /\ "pc" \in DOMAIN svc[s]
  /\ svc[s].pc \in Holding <=> lock = s
  /\ Alive(s) => svc[s].pc \in {"assign", "wait"}

LockInv ==
  /\ DOMAIN svc = Service
  /\ DOMAIN child = Service
  /\ \A s \in Service : Holder(s)

LEMMA LockInit == Init => LockInv
<1> SUFFICES ASSUME Init PROVE LockInv
  OBVIOUS
<1>1. ASSUME NEW s \in Service
      PROVE  Holder(s)
  <2>1. svc[s] = OffService /\ child[s] = "none" /\ lock = Nobody
    BY DEF Init
  <2>2. "pc" \in DOMAIN OffService /\ OffService.pc = "off"
    BY DEF OffService
  <2> QED
    BY <2>1, <2>2, HoldersAssumption DEF Holder, Holding, Alive
<1> QED
  BY <1>1 DEF Init, LockInv

\* A step that leaves the lock and the place of s relative to it alone.
LEMMA SamePlace ==
  ASSUME LockInv, NEW s \in Service, NEW r,
         Become(s, r), lock' = lock, "pc" \in DOMAIN r,
         r.pc \in Holding <=> svc[s].pc \in Holding,
         \/ child' = child /\ (svc[s].pc \in {"assign", "wait"}
                                 => r.pc \in {"assign", "wait"})
         \/ /\ r.pc \in {"assign", "wait"}
            /\ \E c : child' = [child EXCEPT ![s] = c]
         \/ child' = [child EXCEPT ![s] = "none"]
  PROVE  LockInv'
<1>1. DOMAIN svc' = Service /\ DOMAIN child' = Service
  BY DEF LockInv, Become
<1>2. ASSUME NEW q \in Service
      PROVE  Holder(q)'
  <2>1. CASE q = s
    <3>1. svc'[q] = r
      BY <2>1 DEF LockInv, Become
    <3>2. Alive(q)' => r.pc \in {"assign", "wait"}
      BY <2>1 DEF LockInv, Holder, Alive
    <3> QED
      BY <2>1, <3>1, <3>2 DEF LockInv, Holder
  <2>2. CASE q # s
    <3>1. svc'[q] = svc[q] /\ child'[q] = child[q]
      BY <2>2 DEF LockInv, Become
    <3> QED
      BY <3>1 DEF LockInv, Holder, Alive
  <2> QED
    BY <2>1, <2>2
<1> QED
  BY <1>1, <1>2 DEF LockInv

\* A step that takes or gives back the lock.
LEMMA MovesLock ==
  ASSUME LockInv, NEW s \in Service, NEW r,
         Become(s, r), "pc" \in DOMAIN r,
         \/ lock = Nobody /\ lock' = s /\ r.pc \in Holding
         \/ lock = s /\ lock' = Nobody /\ r.pc \notin Holding,
         ~ Alive(s)', \A q \in Service \ {s} : child'[q] = child[q],
         DOMAIN child' = Service
  PROVE  LockInv'
<1>1. DOMAIN svc' = Service /\ svc'[s] = r
  BY DEF LockInv, Become
<1>2. Holder(s)'
  BY <1>1, HoldersAssumption DEF Holder
<1>3. ASSUME NEW q \in Service, q # s
      PROVE  Holder(q)'
  <2>1. svc'[q] = svc[q] /\ child'[q] = child[q]
    BY <1>3 DEF LockInv, Become
  <2>2. lock # q /\ lock' # q
    BY <1>3, HoldersAssumption
  <2> QED
    BY <2>1, <2>2 DEF LockInv, Holder, Alive
<1> QED
  BY <1>1, <1>2, <1>3 DEF LockInv

\* A service that ends releases the lock, if it holds it, and has no child.
LEMMA ExitStep ==
  ASSUME LockInv, NEW s \in Service, Exit(s)
  PROVE  LockInv'
<1>1. "pc" \in DOMAIN OffService /\ OffService.pc \notin Holding
  BY DEF OffService, Holding
<1>2. Become(s, OffService) /\ child' = [child EXCEPT ![s] = "none"]
  BY DEF Exit
<1>3. CASE lock = s
  <2>1. lock' = Nobody
    BY <1>3 DEF Exit
  <2>2. DOMAIN child' = Service /\ child'[s] = "none"
    BY <1>2 DEF LockInv
  <2>3. \A q \in Service \ {s} : child'[q] = child[q]
    BY <1>2 DEF LockInv
  <2> QED
    BY <1>1, <1>2, <1>3, <2>1, <2>2, <2>3, MovesLock DEF Alive
<1>4. CASE lock # s
  <2>1. lock' = lock /\ svc[s].pc \notin Holding
    BY <1>4 DEF Exit, LockInv, Holder
  <2> QED
    BY <1>1, <1>2, <2>1, SamePlace
<1> QED
  BY <1>3, <1>4

\* Steps of a service that leave the lock and its child alone.
LEMMA QuietStep ==
  ASSUME LockInv, NEW s \in Service,
         \/ Start(s) \/ Loop(s) \/ Poll(s) \/ PollFails(s) \/ SaveCursor(s)
         \/ Wake(s) \/ Due(s) \/ Skip(s) \/ Assign(s)
  PROVE  LockInv'
<1>1. "pc" \in DOMAIN svc[s] /\ "pc" \in DOMAIN OffService
  BY DEF LockInv, Holder, OffService
<1>2. CASE Start(s)
  <2> DEFINE r == [OffService EXCEPT !.pc = "loop", !.offset = cursor,
                                  !.startedAt = now]
  <2>1. Become(s, r) /\ lock' = lock /\ child' = child /\ svc[s].pc = "off"
    BY <1>2 DEF Start, Up
  <2>2. "pc" \in DOMAIN r /\ r.pc = "loop"
    BY <1>1
  <2> HIDE DEF r
  <2> QED
    BY <2>1, <2>2, SamePlace DEF Holding
<1>3. CASE Loop(s)
  <2> DEFINE r == [svc[s] EXCEPT !.pc = IF NextRun(now) > now THEN "poll" ELSE "due",
                              !.nextRun = NextRun(now)]
  <2>1. Become(s, r) /\ lock' = lock /\ child' = child /\ svc[s].pc = "loop"
    BY <1>3 DEF Loop, files
  <2>2. "pc" \in DOMAIN r /\ r.pc \in {"poll", "due"}
    BY <1>1
  <2> HIDE DEF r
  <2> QED
    BY <2>1, <2>2, SamePlace DEF Holding
<1>4. CASE Poll(s)
  <2> DEFINE r == [svc[s] EXCEPT !.pc = IF Pending(s) = {} THEN "sleep" ELSE "save",
                              !.offset = Len(updates),
                              !.batch = Fresh(s)]
  <2>1. Become(s, r) /\ lock' = lock /\ child' = child /\ svc[s].pc = "poll"
    BY <1>4 DEF Poll, files
  <2>2. "pc" \in DOMAIN r /\ r.pc \in {"sleep", "save"}
    BY <1>1
  <2> HIDE DEF r
  <2> QED
    BY <2>1, <2>2, SamePlace DEF Holding
<1>5. CASE PollFails(s)
  <2> DEFINE r == [svc[s] EXCEPT !.pc = "sleep"]
  <2>1. Become(s, r) /\ lock' = lock /\ child' = child /\ svc[s].pc = "poll"
    BY <1>5 DEF PollFails, files
  <2>2. "pc" \in DOMAIN r /\ r.pc = "sleep"
    BY <1>1
  <2> HIDE DEF r
  <2> QED
    BY <2>1, <2>2, SamePlace DEF Holding
<1>6. CASE SaveCursor(s)
  <2> DEFINE r == [svc[s] EXCEPT !.pc = IF svc[s].batch = {} THEN "sleep" ELSE "acquire",
                              !.cron = FALSE]
  <2>1. Become(s, r) /\ lock' = lock /\ child' = child /\ svc[s].pc = "save"
    BY <1>6 DEF SaveCursor
  <2>2. "pc" \in DOMAIN r /\ r.pc \in {"sleep", "acquire"}
    BY <1>1
  <2> HIDE DEF r
  <2> QED
    BY <2>1, <2>2, SamePlace DEF Holding
<1>7. CASE Wake(s)
  <2> DEFINE r == [svc[s] EXCEPT !.pc = IF svc[s].nextRun > now THEN "poll" ELSE "due"]
  <2>1. Become(s, r) /\ lock' = lock /\ child' = child /\ svc[s].pc = "sleep"
    BY <1>7 DEF Wake, files
  <2>2. "pc" \in DOMAIN r /\ r.pc \in {"poll", "due"}
    BY <1>1
  <2> HIDE DEF r
  <2> QED
    BY <2>1, <2>2, SamePlace DEF Holding
<1>8. CASE Due(s)
  <2> DEFINE r == [svc[s] EXCEPT !.pc = "acquire", !.cron = TRUE]
  <2>1. Become(s, r) /\ lock' = lock /\ child' = child /\ svc[s].pc = "due"
    BY <1>8 DEF Due, files
  <2>2. "pc" \in DOMAIN r /\ r.pc = "acquire"
    BY <1>1
  <2> HIDE DEF r
  <2> QED
    BY <2>1, <2>2, SamePlace DEF Holding
<1>9. CASE Skip(s)
  <2> DEFINE r == Return(s)
  <2>1. Become(s, r) /\ lock' = lock /\ child' = child /\ svc[s].pc = "acquire"
    BY <1>9 DEF Skip, files
  <2>2. "pc" \in DOMAIN r /\ r.pc \in {"loop", "sleep"}
    BY <1>1 DEF Return
  <2> HIDE DEF r
  <2> QED
    BY <2>1, <2>2, SamePlace DEF Holding
<1>10. CASE Assign(s)
  <2> DEFINE r == [svc[s] EXCEPT !.pc = "wait"]
  <2>1. Become(s, r) /\ lock' = lock /\ child' = child /\ svc[s].pc = "assign"
    BY <1>10 DEF Assign, files
  <2>2. "pc" \in DOMAIN r /\ r.pc = "wait"
    BY <1>1
  <2> HIDE DEF r
  <2> QED
    BY <2>1, <2>2, SamePlace DEF Holding
<1> QED
  BY <1>2, <1>3, <1>4, <1>5, <1>6, <1>7, <1>8, <1>9, <1>10

\* The steps of run_application.
LEMMA RunStep ==
  ASSUME LockInv, NEW s \in Service,
         Acquire(s) \/ Check(s) \/ Spawn(s) \/ Reap(s) \/ Release(s)
  PROVE  LockInv'
<1>1. "pc" \in DOMAIN svc[s] /\ DOMAIN child = Service
  BY DEF LockInv, Holder
<1>2. /\ "pc" \in DOMAIN Return(s)
      /\ Return(s).pc \in {"loop", "sleep"}
  BY <1>1 DEF Return
<1>3. CASE Acquire(s)
  <2> DEFINE r == [svc[s] EXCEPT !.pc = "check"]
  <2>1. "pc" \in DOMAIN r /\ r.pc \in Holding
    BY <1>1 DEF Holding
  <2>2. ~ Alive(s)' /\ child' = child
    BY <1>3 DEF Acquire, LockInv, Holder, Alive
  <2>3. Become(s, r) /\ lock = Nobody /\ lock' = s
    BY <1>3 DEF Acquire
  <2> HIDE DEF r
  <2> QED
    BY <1>1, <2>1, <2>2, <2>3, MovesLock
<1>4. CASE Check(s)
  <2>1. child' = child /\ svc[s].pc = "check" /\ lock = s /\ ~ Alive(s)
    BY <1>4 DEF Check, LockInv, Holder, Holding
  <2>2. CASE svc[s].stop
    <3>1. Become(s, Return(s)) /\ lock' = Nobody
      BY <1>4, <2>2 DEF Check
    <3>2. ~ Alive(s)' /\ Return(s).pc \notin Holding
      BY <1>2, <2>1 DEF Alive, Holding
    <3> QED
      BY <1>1, <1>2, <2>1, <3>1, <3>2, MovesLock
  <2>3. CASE ~ svc[s].stop
    <3> DEFINE r == [svc[s] EXCEPT !.pc = "spawn"]
    <3>1. Become(s, r) /\ lock' = lock
      BY <1>4, <2>3 DEF Check
    <3>2. "pc" \in DOMAIN r /\ r.pc = "spawn"
      BY <1>1
    <3> HIDE DEF r
    <3> QED
      BY <2>1, <3>1, <3>2, SamePlace DEF Holding
  <2> QED
    BY <2>2, <2>3
<1>5. CASE Spawn(s)
  <2> DEFINE r == [svc[s] EXCEPT !.pc = "assign", !.batch = {}]
  <2>1. /\ Become(s, r) /\ lock' = lock /\ svc[s].pc = "spawn"
        /\ child' = [child EXCEPT ![s] = "running"]
    BY <1>5 DEF Spawn, files
  <2>2. "pc" \in DOMAIN r /\ r.pc = "assign"
    BY <1>1
  <2> HIDE DEF r
  <2> QED
    BY <2>1, <2>2, SamePlace DEF Holding
<1>6. CASE Reap(s)
  <2> DEFINE r == [svc[s] EXCEPT !.pc = "release"]
  <2>1. /\ Become(s, r) /\ lock' = lock /\ svc[s].pc = "wait"
        /\ child' = [child EXCEPT ![s] = "none"]
    BY <1>6 DEF Reap, files
  <2>2. "pc" \in DOMAIN r /\ r.pc = "release"
    BY <1>1
  <2> HIDE DEF r
  <2> QED
    BY <2>1, <2>2, SamePlace DEF Holding
<1>7. CASE Release(s)
  <2>1. child' = child /\ svc[s].pc = "release" /\ lock = s /\ ~ Alive(s)
    BY <1>7 DEF Release, LockInv, Holder, Holding
  <2>2. Become(s, Return(s)) /\ lock' = Nobody
    BY <1>7 DEF Release
  <2>3. ~ Alive(s)' /\ Return(s).pc \notin Holding
    BY <1>2, <2>1 DEF Alive, Holding
  <2> QED
    BY <1>1, <1>2, <2>1, <2>2, <2>3, MovesLock
<1> QED
  BY <1>3, <1>4, <1>5, <1>6, <1>7

\* Signals and the end of an application.
LEMMA AsyncStep ==
  ASSUME LockInv, NEW s \in Service, Signal(s) \/ ChildExits(s)
  PROVE  LockInv'
<1>1. "pc" \in DOMAIN svc[s] /\ DOMAIN child = Service /\ DOMAIN svc = Service
  BY DEF LockInv, Holder
<1>2. CASE Signal(s)
  <2> DEFINE r == [svc[s] EXCEPT !.stop = TRUE]
  <2>1. /\ Become(s, r) /\ lock' = lock
        /\ \/ child' = child
           \/ svc[s].pc = "wait" /\ child' = [child EXCEPT ![s] = "told"]
    BY <1>2 DEF Signal, files
  <2>2. "pc" \in DOMAIN r /\ r.pc = svc[s].pc
    BY <1>1
  <2> HIDE DEF r
  <2> QED
    BY <2>1, <2>2, SamePlace
<1>3. CASE ChildExits(s)
  <2>1. /\ svc' = svc /\ lock' = lock
        /\ child' = [child EXCEPT ![s] = "exited"]
    BY <1>3 DEF ChildExits, files
  <2>2. DOMAIN child' = Service /\ \A q \in Service : Alive(q)' => Alive(q)
    BY <1>1, <2>1 DEF Alive
  <2> QED
    BY <2>1, <2>2 DEF LockInv, Holder
<1> QED
  BY <1>2, <1>3

\* Steps that no service takes.
LEMMA EnvironmentStep ==
  ASSUME LockInv,
         \/ Tick \/ OperatorLocks \/ OperatorUnlocks
         \/ \E restart \in BOOLEAN : Message(restart)
         \/ UNCHANGED vars
  PROVE  LockInv'
<1>1. /\ svc' = svc /\ child' = child
      /\ lock' = lock \/ (lock \notin Service /\ lock' \notin Service)
  BY HoldersAssumption
     DEF Tick, OperatorLocks, OperatorUnlocks, Message, vars, files
<1>2. \A s \in Service : lock' = s <=> lock = s
  BY <1>1
<1> QED
  BY <1>1, <1>2 DEF LockInv, Holder, Alive

LEMMA LockNext == LockInv /\ [Next]_vars => LockInv'
<1> SUFFICES ASSUME LockInv, [Next]_vars PROVE LockInv'
  OBVIOUS
<1>1. ASSUME NEW s \in Service,
             Stop(s) \/ SaveFails(s) \/ SpawnFails(s) \/ Crash(s)
      PROVE  LockInv'
  BY <1>1, ExitStep DEF Stop, SaveFails, SpawnFails, Crash
<1>2. ASSUME NEW s \in Service, Start(s) \/ ServiceStep(s)
      PROVE  LockInv'
  BY <1>1, <1>2, QuietStep, RunStep DEF ServiceStep
<1>3. ASSUME NEW s \in Service, Signal(s) \/ ChildExits(s)
      PROVE  LockInv'
  BY <1>3, AsyncStep
<1> QED
  BY <1>1, <1>2, <1>3, EnvironmentStep DEF Next

LEMMA LockInvariant == Spec => []LockInv
  BY LockInit, LockNext, PTL DEF Spec

\* Scheduled runs never overlap with each other or with maintenance, for any
\* number of services and whatever starts, stops and crashes (run_application).
THEOREM NoOverlap == Spec => []RunsNeverOverlap
<1>1. LockInv => RunsNeverOverlap
  BY DEF LockInv, Holder, Holding, RunsNeverOverlap
<1> QED
  BY <1>1, LockInvariant, PTL

------------------------------------------------------------------------------
\* The accounts.  Only one service is up at a time, the holder of the listener
\* lock, so that what a service reads of the cursor and of cron stays true.
\* Behind the cursor every request is handled, beyond it none has started a
\* run; before next_run every occurrence is accounted for, from next_run on
\* none has been used.

\* The service has calculated next_run and not used it yet.
Planned(r) ==
  \/ r.pc \in {"poll", "save", "sleep", "due"}
  \/ r.pc \in {"acquire"} \cup Holding /\ ~ r.cron

\* A batch of requests waits for its run.
Batching == {"acquire", "check", "spawn"}

Accounted(o) == launches[o] > 0 \/ o \in busy

\* Occurrences in the state r of a service.
Cron(r) ==
  /\ r.nextRun \in Occurrences \cup {Never}
  /\ r.pc = "due" => r.nextRun <= now
  /\ Planned(r) => \A o \in Occurrences :
       /\ r.nextRun <= o => launches[o] = 0
       /\ r.startedAt < o /\ o # r.nextRun /\ (o < r.nextRun \/ o <= now) => Accounted(o)
  /\ r.pc # "off" /\ ~ Planned(r) => \A o \in Occurrences :
       r.startedAt < o /\ o <= now => Accounted(o)

\* Requests in the state r of a service.
Commands(s, r) ==
  /\ r.pc # "off" => listener = s /\ cursor <= r.offset /\ r.offset <= Len(updates)
  /\ r.batch # {} => r.pc \in {"save"} \cup Batching
  /\ r.batch \subseteq 1 .. r.offset
  /\ r.pc \in Batching => r.batch \subseteq 1 .. cursor
  /\ \A i \in r.batch : \A j \in Ids : i <= j => runs[j] = 0

Volume ==
  /\ cursor <= Len(updates)
  /\ \A o \in Occurrences : launches[o] > 0 => o <= now
  /\ \A i \in Ids : runs[i] > 0 => i <= cursor

AccountInv ==
  /\ TypeOK /\ Volume
  /\ \A s \in Service : Cron(svc[s]) /\ Commands(s, svc[s])

\* A request that started a run, is about to, or was dropped for a reason.
Handled(i) == runs[i] > 0 \/ i \in excused \/ \E s \in Service : i \in svc[s].batch

RequestInv ==
  /\ \A i \in 1 .. cursor : updates[i].restart => Handled(i)
  /\ \A s \in Service : svc[s].pc # "off" =>
       \A i \in 1 .. svc[s].offset : updates[i].restart => Handled(i)

------------------------------------------------------------------------------
\* cron's next occurrence.

LEMMA Minimum ==
  ASSUME NEW T \in SUBSET Nat, T # {}
  PROVE  \E m \in T : \A n \in T : m <= n
<1> DEFINE R == OpToRel(<, Nat)
<1>1. IsWellFoundedOn(R, Nat)
  BY NatLessThanWellFounded
<1>2. \A m, n \in Nat : m < n => <<m, n>> \in R
  BY DEF OpToRel
<1> HIDE DEF R
<1>3. \E x \in T : \A y \in T : ~ (<<y, x>> \in R)
  BY <1>1, WFMin
<1>4. PICK x \in T : \A y \in T : ~ (<<y, x>> \in R)
  BY <1>3
<1>5. ASSUME NEW n \in T PROVE x <= n
  <2>1. x \in Nat /\ n \in Nat
    OBVIOUS
  <2>2. ~ (n < x)
    BY <1>2, <1>4, <2>1
  <2> QED
    BY <2>1, <2>2
<1> QED
  BY <1>5

LEMMA OccurrenceTimes ==
  /\ \A o \in Occurrences : o \in Nat /\ 1 <= o /\ o <= MaxTime
  /\ MaxTime \in Nat /\ Never \in Nat /\ Never = MaxTime + 1
  BY ClockAssumption DEF Never

LEMMA NextOccurrence ==
  ASSUME NEW t \in 0 .. MaxTime
  PROVE  /\ NextRun(t) \in Occurrences \cup {Never}
         /\ t < NextRun(t)
         /\ \A o \in Occurrences : t < o => NextRun(t) <= o
<1>1. CASE Later(t) = {}
  BY <1>1, ClockAssumption DEF NextRun, Later, Never
<1>2. CASE Later(t) # {}
  <2>1. Later(t) \in SUBSET Nat
    <3>1. \A o \in Occurrences : o \in Nat
      BY ClockAssumption
    <3> QED
      BY <3>1 DEF Later
  <2>2. \E m \in Later(t) : \A n \in Later(t) : m <= n
    BY <1>2, <2>1, Minimum
  <2>3. NextRun(t) \in Later(t) /\ \A n \in Later(t) : NextRun(t) <= n
    BY <1>2, <2>2 DEF NextRun
  <2> QED
    BY <2>3 DEF Later
<1> QED
  BY <1>1, <1>2

------------------------------------------------------------------------------
\* The accounts of occurrences and requests are kept.

LEMMA AccountInit == Init => AccountInv
<1> SUFFICES ASSUME Init PROVE AccountInv
  OBVIOUS
<1>1. OffService \in Services
  BY ClockAssumption DEF OffService, Services, Steps, Never
<1>2. OffService.pc = "off" /\ OffService.nextRun = Never /\ OffService.batch = {}
  BY DEF OffService
<1>3. TypeOK
  BY <1>1, ClockAssumption DEF Init, TypeOK, Updates
<1>4. Volume
  BY DEF Init, Volume
<1>5. \A s \in Service : svc[s] = OffService
  BY DEF Init
<1>6. Cron(OffService)
  BY <1>2 DEF Cron, Planned, Holding
<1>7. \A s \in Service : Commands(s, OffService)
  BY <1>2 DEF Commands, Batching
<1> QED
  BY <1>3, <1>4, <1>5, <1>6, <1>7 DEF AccountInv

\* A step of the service that is up, or starts: every other service is off.
LEMMA Frame ==
  ASSUME AccountInv, NEW s \in Service, NEW r,
         listener \in {s, Nobody}, Become(s, r),
         TypeOK', Volume', Cron(r)', Commands(s, r)'
  PROVE  AccountInv'
<1>1. ASSUME NEW q \in Service
      PROVE  Cron(svc[q])' /\ Commands(q, svc[q])'
  <2>1. CASE q = s
    BY <2>1 DEF AccountInv, TypeOK, Become
  <2>2. CASE q # s
    <3>1. PICK x : x = svc[q]
      OBVIOUS
    <3>2. svc'[q] = x
      BY <2>2, <3>1 DEF AccountInv, TypeOK, Become
    <3>3. x.pc = "off" /\ x.batch = {} /\ x.nextRun \in Occurrences \cup {Never}
      BY <2>2, <3>1, HoldersAssumption DEF AccountInv, Commands, Cron, Batching
    <3>4. Cron(x)' /\ Commands(q, x)'
      BY <3>3 DEF Cron, Commands, Planned, Holding, Batching
    <3> QED
      BY <3>2, <3>4
  <2> QED
    BY <2>1, <2>2
<1> QED
  BY <1>1 DEF AccountInv

\* A step that uses no occurrence, no message and no request.
LEMMA Plain ==
  ASSUME AccountInv, NEW s \in Service, svc[s].pc # "off", TypeOK',
         UNCHANGED <<now, updates, cursor, listener, launches, busy, runs>>,
         NEW r, Become(s, r), r.pc # "off",
         r.nextRun = svc[s].nextRun, r.startedAt = svc[s].startedAt,
         r.offset = svc[s].offset,
         Planned(r) <=> Planned(svc[s]),
         r.pc = "due" => r.nextRun <= now,
         \/ r.batch = {}
         \/ r.batch = svc[s].batch /\ r.pc = svc[s].pc
         \/ r.batch = svc[s].batch /\ r.pc \in Batching /\ svc[s].pc \in Batching
  PROVE  AccountInv'
<1>1. Cron(svc[s]) /\ Commands(s, svc[s]) /\ Volume
  BY DEF AccountInv
<1>2. listener = s
  BY <1>1 DEF Commands
<1>3. Volume'
  BY <1>1 DEF Volume
<1>4. Cron(r)'
  BY <1>1 DEF Cron, Planned, Accounted
<1>5. Commands(s, r)'
  BY <1>1 DEF Commands, Batching
<1> QED
  BY <1>2, <1>3, <1>4, <1>5, Frame


\* The steps of the main thread that are plain.
LEMMA PlainStep ==
  ASSUME AccountInv, NEW s \in Service,
         \/ PollFails(s) \/ Wake(s) \/ Acquire(s) \/ Skip(s) \/ Check(s) \/ Assign(s)
         \/ Reap(s) \/ Release(s) \/ Signal(s)
  PROVE  AccountInv'
<1>1. /\ TypeOK /\ svc[s] \in Services /\ lock \in Service \cup {Nobody, Operator}
      /\ svc[s].batch \subseteq Ids
      /\ child \in [Service -> {"none", "running", "told", "exited"}]
  BY DEF AccountInv, TypeOK, Services
<1>2. /\ svc[s].pc = "poll" => svc[s].batch = {}
      /\ svc[s].pc = "sleep" => svc[s].batch = {}
      /\ svc[s].pc \in {"assign", "wait", "release"} => svc[s].batch = {}
  BY DEF AccountInv, Commands, Batching
<1>3. ASSUME NEW y \in Services, Become(s, y), svc[s].pc # "off", y.pc # "off",
             UNCHANGED <<now, updates, cursor, listener, launches, busy, runs>>,
             lock' \in Service \cup {Nobody, Operator},
             child' \in [Service -> {"none", "running", "told", "exited"}],
             excused' \subseteq Ids,
             y.nextRun = svc[s].nextRun, y.startedAt = svc[s].startedAt,
             y.offset = svc[s].offset, Planned(y) <=> Planned(svc[s]),
             y.pc = "due" => y.nextRun <= now,
             \/ y.batch = {}
             \/ y.batch = svc[s].batch /\ y.pc = svc[s].pc
             \/ y.batch = svc[s].batch /\ y.pc \in Batching /\ svc[s].pc \in Batching
      PROVE  AccountInv'
  <2>1. TypeOK'
    BY <1>1, <1>3 DEF TypeOK, Become
  <2>2. PICK r : r = y
    OBVIOUS
  <2> QED
    BY <1>3, <2>1, <2>2, Plain
<1>4. /\ Return(s) \in Services /\ Return(s).batch = {}
      /\ Return(s).pc = IF svc[s].cron THEN "loop" ELSE "sleep"
      /\ Return(s).nextRun = svc[s].nextRun /\ Return(s).startedAt = svc[s].startedAt
      /\ Return(s).offset = svc[s].offset /\ Return(s).cron = svc[s].cron
  BY <1>1 DEF Return, Services, Steps
<1>5. svc[s].pc \in {"acquire", "check", "release"} => (Planned(Return(s)) <=> Planned(svc[s]))
  BY <1>4 DEF Planned, Holding
<1>6. CASE PollFails(s)
  <2> DEFINE y == [svc[s] EXCEPT !.pc = "sleep"]
  <2>1. y \in Services /\ Planned(y) /\ Planned(svc[s])
    BY <1>1, <1>6 DEF PollFails, Services, Steps, Planned
  <2> QED
    BY <1>1, <1>2, <1>3, <1>6, <2>1 DEF PollFails, files, history, Services, TypeOK
<1>7. CASE Wake(s)
  <2> DEFINE y == [svc[s] EXCEPT !.pc = IF svc[s].nextRun > now THEN "poll" ELSE "due"]
  <2>1. y \in Services /\ Planned(y) /\ Planned(svc[s])
    BY <1>1, <1>7 DEF Wake, Services, Steps, Planned
  <2>2. y.pc = "due" => y.nextRun <= now
    BY <1>1, ClockAssumption DEF Services, TypeOK, Never
  <2> QED
    BY <1>1, <1>2, <1>3, <1>7, <2>1, <2>2 DEF Wake, files, history, Services, TypeOK
<1>8. CASE Acquire(s)
  <2> DEFINE y == [svc[s] EXCEPT !.pc = "check"]
  <2>1. y \in Services /\ (Planned(y) <=> Planned(svc[s]))
    BY <1>1, <1>8 DEF Acquire, Services, Steps, Planned, Holding
  <2> QED
    BY <1>1, <1>3, <1>8, <2>1 DEF Acquire, history, Services, Batching, TypeOK
<1>9. CASE Skip(s)
  BY <1>1, <1>3, <1>4, <1>5, <1>9 DEF Skip, files, TypeOK
<1>10. CASE Check(s)
  <2>1. CASE svc[s].stop
    BY <1>1, <1>3, <1>4, <1>5, <1>10, <2>1 DEF Check, TypeOK
  <2>2. CASE ~ svc[s].stop
    <3> DEFINE y == [svc[s] EXCEPT !.pc = "spawn"]
    <3>1. y \in Services /\ (Planned(y) <=> Planned(svc[s]))
      BY <1>1, <1>10 DEF Check, Services, Steps, Planned, Holding
    <3> QED
      BY <1>1, <1>3, <1>10, <2>2, <3>1 DEF Check, Services, Batching, TypeOK
  <2> QED
    BY <2>1, <2>2
<1>11. CASE Assign(s)
  <2> DEFINE y == [svc[s] EXCEPT !.pc = "wait"]
  <2>1. y \in Services /\ (Planned(y) <=> Planned(svc[s]))
    BY <1>1, <1>11 DEF Assign, Services, Steps, Planned, Holding
  <2> QED
    BY <1>1, <1>2, <1>3, <1>11, <2>1 DEF Assign, files, history, Services, TypeOK
<1>12. CASE Reap(s)
  <2> DEFINE y == [svc[s] EXCEPT !.pc = "release"]
  <2>1. y \in Services /\ (Planned(y) <=> Planned(svc[s]))
    BY <1>1, <1>12 DEF Reap, Services, Steps, Planned, Holding
  <2>2. child' \in [Service -> {"none", "running", "told", "exited"}]
    BY <1>1, <1>12 DEF Reap
  <2> QED
    BY <1>1, <1>2, <1>3, <1>12, <2>1, <2>2 DEF Reap, files, history, Services, TypeOK
<1>13. CASE Release(s)
  BY <1>1, <1>3, <1>4, <1>5, <1>13 DEF Release, history, TypeOK
<1>14. CASE Signal(s)
  <2> DEFINE y == [svc[s] EXCEPT !.stop = TRUE]
  <2>1. y \in Services /\ (Planned(y) <=> Planned(svc[s])) /\ svc[s].pc # "off"
    BY <1>1, <1>14 DEF Signal, Up, Services, Planned, Holding
  <2>2. child' \in [Service -> {"none", "running", "told", "exited"}]
    BY <1>1, <1>14 DEF Signal
  <2>3. y.pc = "due" => y.nextRun <= now
    BY <1>1 DEF AccountInv, Cron, Services
  <2> QED
    BY <1>1, <1>3, <1>14, <2>1, <2>2, <2>3 DEF Signal, files, history, Services, TypeOK
<1> QED
  BY <1>6, <1>7, <1>8, <1>9, <1>10, <1>11, <1>12, <1>13, <1>14


\* A service that starts has used nothing, and goes on from the cursor.
LEMMA StartStep == ASSUME AccountInv, NEW s \in Service, Start(s) PROVE AccountInv'
<1> DEFINE y == [OffService EXCEPT !.pc = "loop", !.offset = cursor, !.startedAt = now]
<1>1. TypeOK /\ Volume /\ now \in 0 .. MaxTime /\ cursor \in 0 .. MaxUpdates
  BY DEF AccountInv, TypeOK
<1>2. /\ y \in Services /\ y.pc = "loop" /\ y.offset = cursor /\ y.startedAt = now
      /\ y.nextRun = Never /\ y.batch = {}
  <2>1. OffService \in Services /\ OffService.nextRun = Never /\ OffService.batch = {}
    BY ClockAssumption DEF OffService, Services, Steps, Never
  <2> QED
    BY <1>1, <2>1 DEF Services, Steps
<1>3. /\ Become(s, y) /\ listener = Nobody /\ listener' = s
      /\ UNCHANGED <<now, updates, cursor, lock, child, launches, busy, runs, excused>>
  BY DEF Start, history
<1> HIDE DEF y
<1>4. PICK r : r = y
  OBVIOUS
<1>5. TypeOK' /\ Volume'
  BY <1>1, <1>2, <1>3 DEF TypeOK, Volume, Become
<1>6. Cron(r)'
  BY <1>1, <1>2, <1>3, <1>4, ClockAssumption DEF Cron, Planned, Holding, TypeOK
<1>7. Commands(s, r)'
  BY <1>1, <1>2, <1>3, <1>4 DEF Commands, Batching, TypeOK, Volume
<1> QED
  BY <1>3, <1>4, <1>5, <1>6, <1>7, Frame

\* The head of the loop: everything up to now is accounted for, and next_run is
\* the first occurrence after it.
LEMMA LoopStep == ASSUME AccountInv, NEW s \in Service, Loop(s) PROVE AccountInv'
<1> DEFINE y == [svc[s] EXCEPT !.pc = IF NextRun(now) > now THEN "poll" ELSE "due",
                               !.nextRun = NextRun(now)]
<1>1. /\ TypeOK /\ Volume /\ svc[s] \in Services /\ now \in 0 .. MaxTime
      /\ svc[s].pc = "loop" /\ Cron(svc[s]) /\ Commands(s, svc[s])
  BY DEF AccountInv, TypeOK, Loop
<1>2. /\ NextRun(now) \in Occurrences \cup {Never} /\ NextRun(now) > now
      /\ \A o \in Occurrences : now < o => NextRun(now) <= o
  BY <1>1, NextOccurrence
<1>3. NextRun(now) \in 1 .. Never
  BY <1>2, OccurrenceTimes
<1>4. /\ y \in Services /\ y.pc = "poll" /\ y.offset = svc[s].offset
      /\ y.startedAt = svc[s].startedAt /\ y.nextRun = NextRun(now)
      /\ y.batch = svc[s].batch
  BY <1>1, <1>2, <1>3 DEF Services, Steps
<1>5. Become(s, y) /\ UNCHANGED <<now, updates, files, child, history>>
  BY DEF Loop
<1> HIDE DEF y
<1>6. PICK r : r = y
  OBVIOUS
<1>7. TypeOK' /\ Volume'
  BY <1>1, <1>4, <1>5 DEF TypeOK, Volume, Become, files, history
<1>8. \A o \in Occurrences : svc[s].startedAt < o /\ o <= now => Accounted(o)
  BY <1>1 DEF Cron, Planned, Holding
<1>9. \A o \in Occurrences : NextRun(now) <= o => launches[o] = 0
  <2>1. ASSUME NEW o \in Occurrences, NextRun(now) <= o PROVE launches[o] = 0
    <3>1. o \in Nat /\ now \in Nat /\ NextRun(now) \in Nat
      BY <1>1, <1>3, ClockAssumption
    <3>2. launches[o] \in 0 .. 2 /\ (launches[o] > 0 => o <= now)
      BY <1>1 DEF TypeOK, Volume
    <3> QED
      BY <1>2, <2>1, <3>1, <3>2
  <2> QED
    BY <2>1
<1>10. Cron(r)'
  <2>1. \A o \in Occurrences : o < NextRun(now) => o <= now
    BY <1>1, <1>2, <1>3, OccurrenceTimes
  <2>2. /\ now' = now /\ launches' = launches /\ busy' = busy
        /\ r.nextRun = NextRun(now) /\ r.pc = "poll" /\ r.startedAt = svc[s].startedAt
    BY <1>4, <1>5, <1>6 DEF history
  <2>3. \A o \in Occurrences : Accounted(o)' <=> Accounted(o)
    BY <2>2 DEF Accounted
  <2> QED
    BY <1>2, <1>8, <1>9, <2>1, <2>2, <2>3 DEF Cron, Planned
<1>11. Commands(s, r)'
  BY <1>1, <1>4, <1>5, <1>6 DEF Commands, Batching, files, history
<1> QED
  BY <1>1, <1>5, <1>6, <1>7, <1>10, <1>11, Frame DEF Commands

\* A poll takes the messages beyond the cursor, which have started no run.
LEMMA PollStep == ASSUME AccountInv, NEW s \in Service, Poll(s) PROVE AccountInv'
<1> DEFINE y == [svc[s] EXCEPT !.pc = IF Pending(s) = {} THEN "sleep" ELSE "save",
                               !.offset = Len(updates), !.batch = Fresh(s)]
<1>1. /\ TypeOK /\ Volume /\ svc[s] \in Services
      /\ svc[s].pc = "poll" /\ Cron(svc[s]) /\ Commands(s, svc[s])
  BY DEF AccountInv, TypeOK, Poll
<1>2. /\ Len(updates) \in Nat /\ Len(updates) <= MaxUpdates
      /\ cursor \in Nat /\ svc[s].offset \in Nat /\ cursor <= svc[s].offset
      /\ svc[s].offset <= Len(updates)
  BY <1>1, ClockAssumption DEF TypeOK, Services, Commands
<1>3. /\ Fresh(s) \subseteq Pending(s) /\ Stale(s) \subseteq Pending(s)
      /\ Pending(s) = svc[s].offset + 1 .. Len(updates)
  BY DEF Fresh, Stale, Requests, Pending
<1>4. Fresh(s) \subseteq Ids /\ Stale(s) \subseteq Ids /\ Fresh(s) \subseteq 1 .. Len(updates)
  BY <1>2, <1>3, ClockAssumption DEF Ids
<1>5. /\ y \in Services /\ y.pc = IF Pending(s) = {} THEN "sleep" ELSE "save"
      /\ y.offset = Len(updates) /\ y.batch = Fresh(s)
      /\ y.startedAt = svc[s].startedAt /\ y.nextRun = svc[s].nextRun
  <2>1. Len(updates) \in 0 .. MaxUpdates
    BY <1>2, ClockAssumption
  <2> QED
    BY <1>1, <1>4, <2>1 DEF Services, Steps
<1>6. /\ Become(s, y) /\ excused' = excused \cup Stale(s)
      /\ UNCHANGED <<now, updates, cursor, listener, lock, child, launches, busy, runs>>
  BY DEF Poll, files
<1> HIDE DEF y
<1>7. PICK r : r = y
  OBVIOUS
<1>8. TypeOK' /\ Volume'
  BY <1>1, <1>4, <1>5, <1>6 DEF TypeOK, Volume, Become
<1>9. Cron(r)'
  BY <1>1, <1>5, <1>6, <1>7 DEF Cron, Planned, Accounted
<1>10. ASSUME NEW i \in Fresh(s), NEW j \in Ids, i <= j PROVE runs[j] = 0
  <2>1. i \in Nat /\ j \in Nat /\ svc[s].offset < i
    BY <1>2, <1>3, <1>4 DEF Ids
  <2>2. runs[j] \in 0 .. 2 /\ (runs[j] > 0 => j <= cursor)
    BY <1>1 DEF TypeOK, Volume
  <2> QED
    BY <1>2, <1>10, <2>1, <2>2
<1>11. Commands(s, r)'
  <2>1. r.batch # {} => r.pc = "save"
    BY <1>3, <1>5, <1>7
  <2>2. r.pc \notin {"off"} \cup Batching
    BY <1>5, <1>7 DEF Batching
  <2> QED
    BY <1>1, <1>2, <1>4, <1>5, <1>6, <1>7, <1>10, <2>1, <2>2 DEF Commands
<1> QED
  BY <1>1, <1>6, <1>7, <1>8, <1>9, <1>11, Frame DEF Commands

\* The cursor catches up with the service.
LEMMA SaveStep == ASSUME AccountInv, NEW s \in Service, SaveCursor(s) PROVE AccountInv'
<1> DEFINE y == [svc[s] EXCEPT !.pc = IF svc[s].batch = {} THEN "sleep" ELSE "acquire",
                               !.cron = FALSE]
<1>1. /\ TypeOK /\ Volume /\ svc[s] \in Services
      /\ svc[s].pc = "save" /\ Cron(svc[s]) /\ Commands(s, svc[s])
  BY DEF AccountInv, TypeOK, SaveCursor
<1>2. /\ Len(updates) \in Nat /\ svc[s].offset \in 0 .. MaxUpdates /\ cursor \in Nat
      /\ cursor <= svc[s].offset /\ svc[s].offset <= Len(updates)
  BY <1>1, ClockAssumption DEF TypeOK, Services, Commands
<1>3. /\ y \in Services /\ y.pc = IF svc[s].batch = {} THEN "sleep" ELSE "acquire"
      /\ y.offset = svc[s].offset /\ y.batch = svc[s].batch
      /\ y.startedAt = svc[s].startedAt /\ y.nextRun = svc[s].nextRun
  BY <1>1 DEF Services, Steps
<1>4. Planned(y)
  BY <1>1 DEF Planned, Services
<1>5. /\ Become(s, y) /\ cursor' = svc[s].offset
      /\ UNCHANGED <<now, updates, listener, lock, child, history>>
  BY DEF SaveCursor
<1> HIDE DEF y
<1>6. PICK r : r = y
  OBVIOUS
<1>7. TypeOK'
  BY <1>1, <1>2, <1>3, <1>5 DEF TypeOK, Become, history
<1>8. Volume'
  <2>1. ASSUME NEW i \in Ids, runs[i] > 0 PROVE i <= svc[s].offset
    BY <1>1, <1>2, <2>1, ClockAssumption DEF Volume, Ids
  <2> QED
    BY <1>1, <1>2, <1>5, <2>1 DEF Volume, history
<1>9. Cron(r)'
  BY <1>1, <1>3, <1>4, <1>5, <1>6 DEF Cron, Planned, Accounted, history
<1>10. Commands(s, r)'
  BY <1>1, <1>2, <1>3, <1>5, <1>6 DEF Commands, Batching, history
<1> QED
  BY <1>1, <1>5, <1>6, <1>7, <1>8, <1>9, <1>10, Frame DEF Commands

\* The service uses next_run, which nobody has used.
LEMMA DueStep == ASSUME AccountInv, NEW s \in Service, Due(s)
                 PROVE  /\ AccountInv' /\ svc[s].nextRun \in Occurrences
                        /\ launches' = [launches EXCEPT ![svc[s].nextRun] = 1]
                        /\ \A o \in Occurrences : svc[s].nextRun <= o => launches[o] = 0
<1> DEFINE y == [svc[s] EXCEPT !.pc = "acquire", !.cron = TRUE]
<1>1. /\ TypeOK /\ Volume /\ svc[s] \in Services
      /\ svc[s].pc = "due" /\ Cron(svc[s]) /\ Commands(s, svc[s])
  BY DEF AccountInv, TypeOK, Due
<1>2. /\ y \in Services /\ y.pc = "acquire" /\ y.cron = TRUE
      /\ y.offset = svc[s].offset /\ y.batch = svc[s].batch
      /\ y.startedAt = svc[s].startedAt /\ y.nextRun = svc[s].nextRun
  BY <1>1 DEF Services, Steps
<1>3. /\ Become(s, y) /\ UNCHANGED <<now, updates, files, child, busy, runs, excused>>
      /\ launches' = [launches EXCEPT ![svc[s].nextRun] = Count(launches[svc[s].nextRun])]
  BY DEF Due
<1>4. /\ svc[s].nextRun \in Occurrences /\ svc[s].nextRun <= now
      /\ \A o \in Occurrences : svc[s].nextRun <= o => launches[o] = 0
  BY <1>1, ClockAssumption DEF Cron, Planned, Never, TypeOK
<1>5. launches[svc[s].nextRun] = 0
  BY <1>4, OccurrenceTimes
<1>6. launches' = [launches EXCEPT ![svc[s].nextRun] = 1]
  BY <1>3, <1>5 DEF Count
<1> HIDE DEF y
<1>7. PICK r : r = y
  OBVIOUS
<1>8. TypeOK'
  <2>1. launches' \in [Occurrences -> 0 .. 2]
    BY <1>1, <1>4, <1>6 DEF TypeOK
  <2>2. svc' \in [Service -> Services]
    BY <1>1, <1>2, <1>3 DEF TypeOK, Become
  <2> QED
    BY <1>1, <1>3, <2>1, <2>2 DEF TypeOK, files
<1>9. Volume'
  BY <1>1, <1>3, <1>4, <1>6 DEF Volume, TypeOK, files
<1>10. \A o \in Occurrences : (Accounted(o) \/ o = svc[s].nextRun) => Accounted(o)'
  BY <1>1, <1>3, <1>6 DEF Accounted, TypeOK
<1>11. ~ Planned(r)
  BY <1>2, <1>7 DEF Planned
<1>12. Cron(r)'
  <2>1. ASSUME NEW o \in Occurrences, r.startedAt < o, o <= now PROVE Accounted(o)'
    BY <1>1, <1>2, <1>7, <1>10, <2>1 DEF Cron, Planned
  <2>2. r.nextRun \in Occurrences \cup {Never} /\ r.pc = "acquire" /\ now' = now
    BY <1>1, <1>2, <1>3, <1>7 DEF Cron
  <2> QED
    BY <1>11, <2>1, <2>2 DEF Cron
<1>13. Commands(s, r)'
  BY <1>1, <1>2, <1>3, <1>7 DEF Commands, Batching, files
<1>14. AccountInv'
  BY <1>1, <1>3, <1>7, <1>8, <1>9, <1>12, <1>13, Frame DEF Commands
<1> QED
  BY <1>4, <1>6, <1>14

\* A run begins for its batch, whose requests have started none.
LEMMA SpawnStep == ASSUME AccountInv, NEW s \in Service, Spawn(s)
                   PROVE  /\ AccountInv'
                          /\ svc[s].batch \in SUBSET Ids
                          /\ runs' = [i \in Ids |-> IF i \in svc[s].batch THEN 1 ELSE runs[i]]
                          /\ \A i \in svc[s].batch, j \in Ids : j >= i => runs[j] = 0
<1> DEFINE y == [svc[s] EXCEPT !.pc = "assign", !.batch = {}]
<1>1. /\ TypeOK /\ Volume /\ svc[s] \in Services
      /\ svc[s].pc = "spawn" /\ Cron(svc[s]) /\ Commands(s, svc[s])
  BY DEF AccountInv, TypeOK, Spawn
<1>2. /\ y \in Services /\ y.pc = "assign" /\ y.batch = {} /\ y.offset = svc[s].offset
      /\ y.startedAt = svc[s].startedAt /\ y.nextRun = svc[s].nextRun /\ y.cron = svc[s].cron
  BY <1>1 DEF Services, Steps
<1>3. /\ Become(s, y) /\ child' = [child EXCEPT ![s] = "running"]
      /\ UNCHANGED <<now, updates, files, launches, busy, excused>>
      /\ runs' = [i \in Ids |-> IF i \in svc[s].batch THEN Count(runs[i]) ELSE runs[i]]
  BY DEF Spawn
<1>4. svc[s].batch \in SUBSET Ids
  BY <1>1 DEF Services
<1>5. \A i \in svc[s].batch, j \in Ids : j >= i => runs[j] = 0
  BY <1>1, <1>4, ClockAssumption DEF Commands, Ids
<1>6. \A i \in svc[s].batch : runs[i] = 0
  BY <1>4, <1>5, ClockAssumption DEF Ids
<1>7. runs' = [i \in Ids |-> IF i \in svc[s].batch THEN 1 ELSE runs[i]]
  BY <1>3, <1>6 DEF Count
<1> HIDE DEF y
<1>8. PICK r : r = y
  OBVIOUS
<1>9. TypeOK'
  BY <1>1, <1>2, <1>3, <1>7 DEF TypeOK, Become, files
<1>10. Volume'
  <2>1. svc[s].batch \subseteq 1 .. cursor
    BY <1>1 DEF Commands, Batching
  <2> QED
    BY <1>1, <1>3, <1>7, <2>1 DEF Volume, files
<1>11. Cron(r)'
  BY <1>1, <1>2, <1>3, <1>8 DEF Cron, Planned, Holding, Accounted
<1>12. Commands(s, r)'
  BY <1>1, <1>2, <1>3, <1>8 DEF Commands, Batching, files
<1>13. AccountInv'
  BY <1>1, <1>3, <1>8, <1>9, <1>10, <1>11, <1>12, Frame DEF Commands, files
<1> QED
  BY <1>4, <1>5, <1>7, <1>13

\* A service ends, for whatever reason.
LEMMA EndStep ==
  ASSUME AccountInv, NEW s \in Service, svc[s].pc # "off", Exit(s),
         UNCHANGED <<now, updates, cursor, launches, busy, runs>>
  PROVE  AccountInv'
<1>1. TypeOK /\ Volume /\ svc[s] \in Services /\ Cron(svc[s]) /\ listener = s
  BY DEF AccountInv, TypeOK, Commands
<1>2. /\ OffService \in Services /\ OffService.pc = "off" /\ OffService.nextRun = Never
      /\ OffService.batch = {}
  BY ClockAssumption DEF OffService, Services, Steps, Never
<1>3. PICK r : r = OffService
  OBVIOUS
<1>4. /\ Become(s, r) /\ child' = [child EXCEPT ![s] = "none"]
      /\ listener' \in {listener, Nobody} /\ lock' \in {lock, Nobody}
      /\ excused' = excused \cup svc[s].batch
  BY <1>3 DEF Exit
<1>5. TypeOK'
  BY <1>1, <1>2, <1>3, <1>4 DEF TypeOK, Become, Services
<1>6. Volume'
  BY <1>1 DEF Volume
<1>7. Cron(r)'
  BY <1>2, <1>3 DEF Cron, Planned, Holding
<1>8. Commands(s, r)'
  BY <1>2, <1>3 DEF Commands, Batching
<1> QED
  BY <1>1, <1>4, <1>5, <1>6, <1>7, <1>8, Frame


\* Time passes a due occurrence only while a child runs.
LEMMA TimeStep == AccountInv /\ Tick => AccountInv'
<1> SUFFICES ASSUME AccountInv, Tick PROVE AccountInv'
  OBVIOUS
<1>1. TypeOK /\ Volume
  BY DEF AccountInv
<1>2. /\ now \in Nat /\ now < MaxTime /\ now' = now + 1
      /\ UNCHANGED <<updates, cursor, listener, lock, svc, child, launches, runs, excused>>
      /\ busy \subseteq busy' /\ busy' \subseteq busy \cup {now + 1}
      /\ (\E s \in Service : svc[s].pc = "wait") => now + 1 \in busy'
  BY <1>1, ClockAssumption DEF Tick, TypeOK, files
<1>3. TypeOK'
  <2>1. now' \in 0 .. MaxTime /\ busy' \subseteq 0 .. MaxTime
    BY <1>1, <1>2, ClockAssumption DEF TypeOK
  <2> QED
    BY <1>1, <1>2, <2>1 DEF TypeOK
<1>4. Volume'
  BY <1>1, <1>2, OccurrenceTimes DEF Volume
<1>5. \A o \in Occurrences : Accounted(o) => Accounted(o)'
  BY <1>2 DEF Accounted
<1>6. ASSUME NEW s \in Service PROVE Cron(svc[s])' /\ Commands(s, svc[s])'
  <2>1. PICK r : r = svc[s]
    OBVIOUS
  <2>2. svc'[s] = r /\ Cron(r) /\ Commands(s, r) /\ r.nextRun \in Nat
    BY <1>1, <1>2, <2>1, OccurrenceTimes DEF AccountInv, Cron
  <2>3. \/ r.pc \in {"off", "wait"}
        \/ r.pc \in {"poll", "save", "sleep"} /\ now < r.nextRun
    BY <2>1 DEF Tick, Patient
  <2>4. r.pc = "wait" => \A o \in Occurrences : o = now + 1 => Accounted(o)'
    BY <1>2, <2>1 DEF Accounted
  <2>5. \A o \in Occurrences : o <= now + 1 => o <= now \/ o = now + 1
    BY <1>2, OccurrenceTimes
  <2>6. ASSUME Planned(r), NEW o \in Occurrences, r.startedAt < o, o # r.nextRun,
               o < r.nextRun \/ o <= now + 1
        PROVE  Accounted(o)'
    <3>1. CASE o < r.nextRun \/ o <= now
      BY <1>5, <2>2, <2>6, <3>1 DEF Cron
    <3>2. CASE o = now + 1 /\ r.nextRun < o
      BY <1>2, <2>2, <2>3, <2>4, <2>6, <3>2 DEF Planned, Holding
    <3> QED
      BY <2>2, <2>5, <2>6, <3>1, <3>2, OccurrenceTimes
  <2>7. ASSUME r.pc # "off", ~ Planned(r), NEW o \in Occurrences,
               r.startedAt < o, o <= now + 1
        PROVE  Accounted(o)'
    BY <1>5, <2>2, <2>3, <2>4, <2>5, <2>7 DEF Cron, Planned
  <2>8. r.pc # "due"
    BY <2>3
  <2>9. Cron(r)'
    BY <1>2, <2>2, <2>6, <2>7, <2>8 DEF Cron
  <2> QED
    BY <1>2, <2>2, <2>9 DEF Commands
<1> QED
  BY <1>3, <1>4, <1>6 DEF AccountInv

\* A message, maintenance and the end of an application use nothing.
LEMMA OtherStep ==
  ASSUME AccountInv,
         \/ \E restart \in BOOLEAN : Message(restart)
         \/ OperatorLocks \/ OperatorUnlocks \/ UNCHANGED vars
         \/ \E s \in Service : ChildExits(s)
  PROVE  AccountInv'
<1>1. TypeOK /\ Volume /\ Len(updates) \in Nat
  BY DEF AccountInv, TypeOK
<1>2. /\ UNCHANGED <<now, cursor, listener, svc, launches, busy, runs, excused>>
      /\ lock' \in Service \cup {Nobody, Operator}
      /\ child' \in [Service -> {"none", "running", "told", "exited"}]
  BY <1>1 DEF Message, OperatorLocks, OperatorUnlocks, ChildExits, vars, files, history, TypeOK
<1>3. /\ updates' \in Seq(Updates) /\ Len(updates') <= MaxUpdates
      /\ Len(updates) <= Len(updates')
  <2>1. CASE updates' = updates
    BY <1>1, <2>1 DEF TypeOK
  <2>2. ASSUME NEW restart \in BOOLEAN, Message(restart)
        PROVE  /\ updates' \in Seq(Updates) /\ Len(updates') = Len(updates) + 1
               /\ Len(updates) < MaxUpdates
    <3>1. [restart |-> restart, date |-> now] \in Updates
      BY <1>1 DEF Updates, TypeOK
    <3> QED
      BY <1>1, <2>2, <3>1 DEF Message, TypeOK
  <2> QED
    BY <1>1, <2>1, <2>2, ClockAssumption
       DEF OperatorLocks, OperatorUnlocks, ChildExits, vars
<1>4. TypeOK'
  BY <1>1, <1>2, <1>3 DEF TypeOK
<1>5. Volume'
  BY <1>1, <1>2, <1>3, ClockAssumption DEF Volume, TypeOK
<1>6. ASSUME NEW s \in Service PROVE Cron(svc[s])' /\ Commands(s, svc[s])'
  <2>1. svc'[s] = svc[s] /\ svc[s] \in Services /\ Cron(svc[s]) /\ Commands(s, svc[s])
    BY <1>1, <1>2 DEF AccountInv, TypeOK
  <2>2. Cron(svc[s])'
    BY <1>2, <2>1 DEF Cron, Planned, Accounted
  <2>3. svc[s].offset <= Len(updates) => svc[s].offset <= Len(updates')
    BY <1>1, <1>3, <2>1, ClockAssumption DEF Services
  <2>4. Commands(s, svc[s])'
    BY <1>2, <2>1, <2>3 DEF Commands
  <2> QED
    BY <2>2, <2>4
<1> QED
  BY <1>4, <1>5, <1>6 DEF AccountInv

LEMMA AccountNext == AccountInv /\ [Next]_vars => AccountInv'
<1> SUFFICES ASSUME AccountInv, [Next]_vars PROVE AccountInv'
  OBVIOUS
<1>1. ASSUME NEW s \in Service,
             Stop(s) \/ SaveFails(s) \/ SpawnFails(s) \/ Crash(s)
      PROVE  AccountInv'
  <2>1. svc[s].pc # "off" /\ Exit(s) /\ UNCHANGED <<now, updates, cursor, launches, busy, runs>>
    BY <1>1 DEF Stop, SaveFails, SpawnFails, Crash, Up
  <2> QED
    BY <2>1, EndStep
<1>2. ASSUME NEW s \in Service, Start(s) \/ ServiceStep(s) \/ Signal(s)
      PROVE  AccountInv'
  BY <1>1, <1>2, PlainStep, StartStep, LoopStep, PollStep, SaveStep, DueStep, SpawnStep
     DEF ServiceStep
<1> QED
  BY <1>1, <1>2, TimeStep, OtherStep DEF Next

LEMMA AccountInvariant == Spec => []AccountInv
  BY AccountInit, AccountNext, PTL DEF Spec


------------------------------------------------------------------------------
\* Every request is handled.

\* A step of service s that leaves a request in its batch only for a reason, and
\* moves neither the cursor nor the service's offset beyond handled messages.
LEMMA KeepRequests ==
  ASSUME AccountInv, RequestInv, NEW s \in Service, NEW r, Become(s, r),
         updates' = updates, excused \subseteq excused',
         \A i \in Ids : runs[i] > 0 => runs'[i] > 0,
         \A i \in svc[s].batch : i \in r.batch \/ i \in excused' \/ runs'[i] > 0,
         cursor' = cursor \/ (cursor' = svc[s].offset /\ svc[s].pc # "off"),
         \/ r.pc = "off"
         \/ r.offset = svc[s].offset /\ svc[s].pc # "off"
         \/ \A i \in 1 .. r.offset : updates[i].restart =>
              \/ i \in 1 .. cursor
              \/ svc[s].pc # "off" /\ i \in 1 .. svc[s].offset
              \/ i \in r.batch \/ i \in excused'
  PROVE  RequestInv'
<1>1. svc' = [svc EXCEPT ![s] = r] /\ svc \in [Service -> Services]
  BY DEF Become, AccountInv, TypeOK
<1>2. svc'[s] = r
  BY <1>1
<1>3. ASSUME NEW i \in Ids, Handled(i) PROVE Handled(i)'
  <2>1. CASE runs[i] > 0 \/ i \in excused
    BY <2>1 DEF Handled
  <2>2. ASSUME NEW q \in Service, i \in svc[q].batch PROVE Handled(i)'
    <3>1. CASE q = s
      BY <1>2, <2>2, <3>1 DEF Handled
    <3>2. CASE q # s
      BY <1>1, <2>2, <3>2 DEF Handled
    <3> QED
      BY <3>1, <3>2
  <2> QED
    BY <1>3, <2>1, <2>2 DEF Handled
<1>4. /\ \A i \in 1 .. cursor : i \in Ids
      /\ \A q \in Service : \A i \in 1 .. svc[q].offset : i \in Ids
  <2>1. cursor \in 0 .. MaxUpdates /\ \A q \in Service : svc[q].offset \in 0 .. MaxUpdates
    BY DEF AccountInv, TypeOK, Services
  <2> QED
    BY <2>1, ClockAssumption DEF Ids
<1>5. \A i \in 1 .. cursor' : updates'[i].restart => Handled(i)'
  BY <1>3, <1>4 DEF RequestInv
<1>6. \A i : i \in r.batch \/ i \in excused' => Handled(i)'
  BY <1>2 DEF Handled
<1>7. r.pc # "off" => \A i \in 1 .. r.offset : updates'[i].restart => Handled(i)'
  BY <1>3, <1>4, <1>6 DEF RequestInv
<1>8. ASSUME NEW q \in Service, svc'[q].pc # "off"
      PROVE  \A i \in 1 .. svc'[q].offset : updates'[i].restart => Handled(i)'
  <2>1. CASE q = s
    BY <1>2, <1>7, <1>8, <2>1
  <2>2. CASE q # s
    BY <1>1, <1>3, <1>4, <1>8, <2>2 DEF RequestInv
  <2> QED
    BY <2>1, <2>2
<1> QED
  BY <1>5, <1>8 DEF RequestInv

\* The steps of a service but its polls.
LEMMA ServiceRequests ==
  ASSUME AccountInv, RequestInv, NEW s \in Service,
         \/ Start(s) \/ Loop(s) \/ PollFails(s) \/ SaveCursor(s) \/ Wake(s) \/ Due(s)
         \/ Acquire(s) \/ Skip(s) \/ Check(s) \/ Assign(s) \/ Reap(s) \/ Release(s)
         \/ Signal(s)
  PROVE  RequestInv'
<1>1. svc[s] \in Services /\ (svc[s].pc \in {"off", "release"} => svc[s].batch = {})
  BY DEF AccountInv, TypeOK, Commands, Batching
<1>2. Return(s).offset = svc[s].offset
  BY <1>1 DEF Return, Services
<1>3. CASE Start(s)
  <2> DEFINE r == [OffService EXCEPT !.pc = "loop", !.offset = cursor, !.startedAt = now]
  <2>1. r.offset = cursor /\ Become(s, r)
    BY <1>3 DEF OffService, Start
  <2>2. svc[s].pc = "off" /\ UNCHANGED <<updates, cursor, runs, excused>>
    BY <1>3 DEF Start, Up, history
  <2> HIDE DEF r
  <2> QED
    BY <1>1, <2>1, <2>2, KeepRequests
<1>4. CASE \/ Loop(s) \/ PollFails(s) \/ SaveCursor(s) \/ Wake(s) \/ Due(s) \/ Acquire(s)
           \/ Assign(s) \/ Reap(s) \/ Signal(s)
  <2>1. ASSUME NEW r, Become(s, r), r.batch = svc[s].batch, r.offset = svc[s].offset,
               svc[s].pc # "off", UNCHANGED <<updates, runs, excused>>,
               cursor' \in {cursor, svc[s].offset}
        PROVE  RequestInv'
    BY <2>1, KeepRequests
  <2>2. CASE Loop(s)
    BY <1>1, <2>1, <2>2 DEF Loop, files, history, Services
  <2>3. CASE PollFails(s)
    BY <1>1, <2>1, <2>3 DEF PollFails, files, history, Services
  <2>4. CASE SaveCursor(s)
    BY <1>1, <2>1, <2>4 DEF SaveCursor, history, Services
  <2>5. CASE Wake(s)
    BY <1>1, <2>1, <2>5 DEF Wake, files, history, Services
  <2>6. CASE Due(s)
    BY <1>1, <2>1, <2>6 DEF Due, files, Services
  <2>7. CASE Acquire(s)
    BY <1>1, <2>1, <2>7 DEF Acquire, history, Services
  <2>8. CASE Assign(s)
    BY <1>1, <2>1, <2>8 DEF Assign, files, history, Services
  <2>9. CASE Reap(s)
    BY <1>1, <2>1, <2>9 DEF Reap, files, history, Services
  <2>10. CASE Signal(s)
    BY <1>1, <2>1, <2>10 DEF Signal, Up, files, history, Services
  <2> QED
    BY <1>4, <2>2, <2>3, <2>4, <2>5, <2>6, <2>7, <2>8, <2>9, <2>10
<1>5. CASE Skip(s)
  BY <1>2, <1>5, KeepRequests DEF Skip, files
<1>6. CASE Check(s)
  <2>1. CASE svc[s].stop
    BY <1>2, <1>6, <2>1, KeepRequests DEF Check
  <2>2. CASE ~ svc[s].stop
    <3> DEFINE r == [svc[s] EXCEPT !.pc = "spawn"]
    <3>1. Become(s, r) /\ r.batch = svc[s].batch /\ r.offset = svc[s].offset
      BY <1>1, <1>6, <2>2 DEF Check, Services
    <3> HIDE DEF r
    <3> QED
      BY <1>6, <2>2, <3>1, KeepRequests DEF Check
  <2> QED
    BY <2>1, <2>2
<1>7. CASE Release(s)
  BY <1>1, <1>2, <1>7, KeepRequests DEF Release, history
<1> QED
  BY <1>3, <1>4, <1>5, <1>6, <1>7

\* A poll takes each new request or finds it stale; a run begins for a batch; a
\* service that ends excuses one.
LEMMA BatchRequests ==
  ASSUME AccountInv, RequestInv, NEW s \in Service,
         \/ Poll(s) \/ Spawn(s)
         \/ /\ svc[s].pc # "off" /\ Exit(s)
            /\ UNCHANGED <<now, updates, cursor, launches, busy, runs>>
  PROVE  RequestInv'
<1>1. TypeOK /\ svc[s] \in Services
  BY DEF AccountInv, TypeOK
<1>2. CASE Poll(s)
  <2> DEFINE r == [svc[s] EXCEPT !.pc = IF Pending(s) = {} THEN "sleep" ELSE "save",
                                 !.offset = Len(updates), !.batch = Fresh(s)]
  <2>1. /\ Become(s, r) /\ r.offset = Len(updates) /\ r.batch = Fresh(s)
        /\ excused' = excused \cup Stale(s) /\ UNCHANGED <<updates, cursor, runs>>
    BY <1>1, <1>2 DEF Poll, files, Services
  <2>2. svc[s].batch = {} /\ svc[s].pc = "poll"
    BY <1>2 DEF Poll, AccountInv, Commands, Batching
  <2>3. ASSUME NEW i \in 1 .. Len(updates), updates[i].restart, i \notin 1 .. svc[s].offset
        PROVE  i \in Fresh(s) \/ i \in Stale(s)
    <3>1. updates[i] \in Updates /\ Len(updates) \in Nat
      BY <1>1 DEF TypeOK
    <3>2. updates[i].date \in 0 .. MaxTime /\ svc[s].startedAt \in 0 .. MaxTime
      BY <1>1, <3>1 DEF Updates, Services
    <3>3. i \in svc[s].offset + 1 .. Len(updates)
      BY <1>1, <2>3, <3>1, ClockAssumption DEF Services
    <3>4. i \in Requests(s)
      BY <2>3, <3>3 DEF Requests, Pending
    <3>5. updates[i].date >= svc[s].startedAt \/ updates[i].date < svc[s].startedAt
      BY <3>2, ClockAssumption
    <3> QED
      BY <3>4, <3>5 DEF Fresh, Stale
  <2> HIDE DEF r
  <2> QED
    BY <2>1, <2>2, <2>3, KeepRequests
<1>3. CASE Spawn(s)
  <2> DEFINE r == [svc[s] EXCEPT !.pc = "assign", !.batch = {}]
  <2>1. /\ Become(s, r) /\ r.offset = svc[s].offset /\ svc[s].pc = "spawn"
        /\ UNCHANGED <<updates, cursor, excused>>
    BY <1>1, <1>3 DEF Spawn, files, Services
  <2>2. /\ svc[s].batch \in SUBSET Ids
        /\ runs' = [i \in Ids |-> IF i \in svc[s].batch THEN 1 ELSE runs[i]]
    BY <1>3, SpawnStep
  <2>3. \A i \in Ids : (i \in svc[s].batch \/ runs[i] > 0) => runs'[i] > 0
    BY <2>2
  <2> HIDE DEF r
  <2> QED
    BY <2>1, <2>2, <2>3, KeepRequests
<1>4. CASE /\ svc[s].pc # "off" /\ Exit(s)
           /\ UNCHANGED <<now, updates, cursor, launches, busy, runs>>
  <2>1. Become(s, OffService) /\ OffService.pc = "off" /\ excused' = excused \cup svc[s].batch
    BY <1>4 DEF Exit, OffService
  <2> QED
    BY <1>4, <2>1, KeepRequests
<1> QED
  BY <1>2, <1>3, <1>4


LEMMA RequestsNext == AccountInv /\ RequestInv /\ [Next]_vars => RequestInv'
<1> SUFFICES ASSUME AccountInv, RequestInv, [Next]_vars PROVE RequestInv'
  OBVIOUS
<1>1. TypeOK /\ Volume
  BY DEF AccountInv
<1>2. ASSUME NEW s \in Service,
             Stop(s) \/ SaveFails(s) \/ SpawnFails(s) \/ Crash(s)
      PROVE  RequestInv'
  <2>1. svc[s].pc # "off" /\ Exit(s) /\ UNCHANGED <<now, updates, cursor, launches, busy, runs>>
    BY <1>2 DEF Stop, SaveFails, SpawnFails, Crash, Up
  <2> QED
    BY <2>1, BatchRequests
<1>3. ASSUME NEW s \in Service, Start(s) \/ ServiceStep(s) \/ Signal(s)
      PROVE  RequestInv'
  BY <1>2, <1>3, ServiceRequests, BatchRequests DEF ServiceStep
<1>4. CASE \/ Tick \/ OperatorLocks \/ OperatorUnlocks \/ UNCHANGED vars
           \/ \E s \in Service : ChildExits(s)
  BY <1>4 DEF Tick, OperatorLocks, OperatorUnlocks, ChildExits, vars, files, history,
              RequestInv, Handled
<1>5. ASSUME NEW restart \in BOOLEAN, Message(restart) PROVE RequestInv'
  <2>1. /\ updates' = Append(updates, [restart |-> restart, date |-> now])
        /\ UNCHANGED <<cursor, svc, runs, excused>>
    BY <1>5 DEF Message, files, history
  <2>2. updates \in Seq(Updates) /\ Len(updates) \in Nat
    BY <1>1 DEF TypeOK
  <2>3. \A i \in 1 .. Len(updates) : updates'[i] = updates[i]
    BY <2>1, <2>2
  <2>4. \A i \in 1 .. cursor : i \in 1 .. Len(updates)
    BY <1>1, <2>2, ClockAssumption DEF Volume, TypeOK
  <2>5. ASSUME NEW s \in Service, svc[s].pc # "off", NEW i \in 1 .. svc[s].offset
        PROVE  i \in 1 .. Len(updates)
    <3>1. svc[s].offset <= Len(updates) /\ svc[s].offset \in 0 .. MaxUpdates
      BY <1>1, <2>5 DEF AccountInv, Commands, TypeOK, Services
    <3> QED
      BY <2>2, <2>5, <3>1, ClockAssumption
  <2>6. \A i : Handled(i) <=> Handled(i)'
    BY <2>1 DEF Handled
  <2> QED
    BY <2>1, <2>3, <2>4, <2>5, <2>6 DEF RequestInv
<1> QED
  BY <1>2, <1>3, <1>4, <1>5 DEF Next

LEMMA RequestsInvariant == Spec => []RequestInv
<1>1. Init => RequestInv
  BY DEF Init, RequestInv, OffService
<1> QED
  BY <1>1, AccountInvariant, RequestsNext, PTL DEF Spec

------------------------------------------------------------------------------
\* The refinement.

\* What Active is, without its choice.
WhoIsActive ==
  /\ \A s \in Service : Alive(s) => Active = s
  /\ (\A s \in Service : ~ Alive(s)) => Active = IF lock = Operator THEN Operator ELSE Nobody

LEMMA ActiveKnown == LockInv => WhoIsActive
<1> SUFFICES ASSUME LockInv PROVE WhoIsActive
  OBVIOUS
<1>1. ASSUME NEW s \in Service, Alive(s) PROVE Active = s
  <2>1. Active = CHOOSE q \in Service : Alive(q)
    BY <1>1 DEF Active
  <2>2. Active \in Service /\ Alive(Active)
    BY <1>1, <2>1
  <2>3. lock = s /\ lock = Active
    BY <1>1, <2>2 DEF LockInv, Holder, Holding
  <2> QED
    BY <2>3
<1> QED
  BY <1>1 DEF WhoIsActive, Active

\* A step that leaves alone who is alive, who maintains, and the counts.
LEMMA Stutter ==
  ASSUME WhoIsActive, WhoIsActive', UNCHANGED <<launches, runs>>,
         \A s \in Service : Alive(s)' <=> Alive(s),
         lock' = Operator <=> lock = Operator
  PROVE  UNCHANGED Singleton!vars
<1>1. Active' = Active
  <2>1. CASE \E s \in Service : Alive(s)
    BY <2>1 DEF WhoIsActive
  <2>2. CASE \A s \in Service : ~ Alive(s)
    BY <2>2 DEF WhoIsActive
  <2> QED
    BY <2>1, <2>2
<1> QED
  BY <1>1 DEF Singleton!vars


\* Before a step of run_application nobody but s can be active.
LEMMA Others ==
  ASSUME LockInv, NEW s \in Service, lock \in {s, Nobody}
  PROVE  \A q \in Service \ {s} : ~ Alive(q)
  BY HoldersAssumption DEF LockInv, Holder, Holding

\* The end of an application, with or without its service.
LEMMA EndsRun ==
  ASSUME LockInv, WhoIsActive, WhoIsActive', NEW s \in Service, Alive(s), ~ Alive(s)',
         \A q \in Service \ {s} : Alive(q)' => Alive(q),
         lock' \in {s, Nobody}, UNCHANGED <<launches, runs>>
  PROVE  Singleton!End
<1>1. lock = s
  BY DEF LockInv, Holder, Holding
<1>2. \A q \in Service : ~ Alive(q)'
  BY <1>1, Others
<1>3. Active = s /\ Active' = Nobody
  BY <1>2, HoldersAssumption DEF WhoIsActive
<1> QED
  BY <1>3, HoldersAssumption DEF Singleton!End

LEMMA ExitRefines ==
  ASSUME LockInv, AccountInv, WhoIsActive, WhoIsActive', NEW s \in Service, Exit(s),
         UNCHANGED <<launches, runs>>
  PROVE  Singleton!End \/ UNCHANGED Singleton!vars
<1>1. /\ child' = [child EXCEPT ![s] = "none"] /\ DOMAIN child = Service
      /\ lock' = IF lock = s THEN Nobody ELSE lock
  BY DEF Exit, LockInv
<1>2. ~ Alive(s)' /\ \A q \in Service \ {s} : Alive(q)' <=> Alive(q)
  BY <1>1 DEF Alive
<1>3. CASE Alive(s)
  <2>1. lock = s
    BY <1>3 DEF LockInv, Holder, Holding
  <2> QED
    BY <1>1, <1>2, <1>3, <2>1, EndsRun
<1>4. CASE ~ Alive(s)
  <2>1. lock' = Operator <=> lock = Operator
    BY <1>1, HoldersAssumption
  <2>2. \A q \in Service : Alive(q)' <=> Alive(q)
    BY <1>2, <1>4
  <2> QED
    BY <2>1, <2>2, Stutter
<1> QED
  BY <1>3, <1>4

\* Spawn begins a run for its batch.
LEMMA SpawnRefines ==
  ASSUME LockInv, LockInv', AccountInv, WhoIsActive, WhoIsActive', NEW s \in Service, Spawn(s)
  PROVE  Singleton!Next
<1>1. /\ svc[s].pc = "spawn" /\ child' = [child EXCEPT ![s] = "running"]
      /\ lock' = lock /\ launches' = launches /\ DOMAIN child = Service
  BY DEF Spawn, files, LockInv
<1>2. lock = s /\ ~ Alive(s)
  BY <1>1 DEF LockInv, Holder, Holding
<1>3. Active = Nobody
  BY <1>2, Others, HoldersAssumption DEF WhoIsActive
<1>4. Active' = s
  BY <1>1 DEF WhoIsActive, Alive
<1>5. PICK batch : batch = svc[s].batch
  OBVIOUS
<1>6. /\ batch \in SUBSET Ids
      /\ runs' = [i \in Ids |-> IF i \in batch THEN 1 ELSE runs[i]]
      /\ \A i \in batch, j \in Ids : j >= i => runs[j] = 0
  BY <1>5, SpawnStep
<1>7. Singleton!Begin(s, batch)
  BY <1>1, <1>3, <1>4, <1>6 DEF Singleton!Begin
<1> QED
  BY <1>6, <1>7 DEF Singleton!Next

\* Due uses an occurrence.
LEMMA DueRefines ==
  ASSUME LockInv, AccountInv, WhoIsActive, WhoIsActive', NEW s \in Service, Due(s)
  PROVE  Singleton!Next
<1>1. PICK o \in Occurrences : o = svc[s].nextRun
  BY DueStep
<1>2. /\ launches' = [launches EXCEPT ![o] = 1]
      /\ \A q \in Occurrences : q >= o => launches[q] = 0
  BY <1>1, DueStep, OccurrenceTimes
<1>3. UNCHANGED <<lock, child, runs>>
  BY DEF Due, files
<1>4. Active' = Active
  BY <1>3 DEF Active, Alive
<1>5. Singleton!Try(o)
  BY <1>2, <1>3, <1>4 DEF Singleton!Try
<1> QED
  BY <1>5 DEF Singleton!Next

\* Maintenance begins and ends like a run.
LEMMA OperatorRefines ==
  ASSUME LockInv, AccountInv, WhoIsActive, WhoIsActive', OperatorLocks \/ OperatorUnlocks
  PROVE  Singleton!Next
<1>1. /\ UNCHANGED <<child, launches, runs>> /\ runs \in [Ids -> 0 .. 2]
      /\ \A s \in Service : Alive(s)' <=> Alive(s)
  BY DEF OperatorLocks, OperatorUnlocks, history, AccountInv, TypeOK, Alive
<1>2. \A s \in Service : ~ Alive(s)
  BY HoldersAssumption DEF OperatorLocks, OperatorUnlocks, LockInv, Holder, Holding
<1>3. CASE OperatorLocks
  <2>1. Active = Nobody /\ Active' = Operator
    BY <1>1, <1>2, <1>3, HoldersAssumption DEF OperatorLocks, WhoIsActive
  <2>2. Singleton!Begin(Operator, {})
    BY <1>1, <2>1 DEF Singleton!Begin
  <2> QED
    BY <2>2 DEF Singleton!Next
<1>4. CASE OperatorUnlocks
  <2>1. Active = Operator /\ Active' = Nobody
    BY <1>1, <1>2, <1>4, HoldersAssumption DEF OperatorUnlocks, WhoIsActive
  <2>2. Singleton!End
    BY <1>1, <2>1, HoldersAssumption DEF Singleton!End
  <2> QED
    BY <2>2 DEF Singleton!Next
<1> QED
  BY <1>3, <1>4

\* The other steps of a service neither begin nor end a run.
LEMMA QuietRefines ==
  ASSUME LockInv, AccountInv, WhoIsActive, WhoIsActive', NEW s \in Service,
         \/ Start(s) \/ Loop(s) \/ Poll(s) \/ PollFails(s) \/ SaveCursor(s) \/ Wake(s)
         \/ Acquire(s) \/ Skip(s) \/ Check(s) \/ Assign(s) \/ Reap(s) \/ Release(s)
         \/ Signal(s)
  PROVE  UNCHANGED Singleton!vars
<1>1. UNCHANGED <<launches, runs>>
  BY DEF Start, Loop, Poll, PollFails, SaveCursor, Wake, Acquire, Skip, Check, Assign, Reap,
         Release, Signal, history
<1>2. lock' = Operator <=> lock = Operator
  <2>1. CASE Acquire(s)
    BY <2>1, HoldersAssumption DEF Acquire
  <2>2. CASE Check(s) \/ Release(s)
    <3>1. lock = s
      BY <2>2 DEF Check, Release, LockInv, Holder, Holding
    <3> QED
      BY <2>2, <3>1, HoldersAssumption DEF Check, Release
  <2> QED
    BY <2>1, <2>2
       DEF Start, Loop, Poll, PollFails, SaveCursor, Wake, Skip, Assign, Reap, Signal, files
<1>3. \A q \in Service : Alive(q)' <=> Alive(q)
  <2>1. DOMAIN child = Service
    BY DEF LockInv
  <2>2. CASE Reap(s)
    BY <2>1, <2>2 DEF Reap, Alive
  <2>3. CASE Signal(s)
    BY <2>1, <2>3 DEF Signal, Alive
  <2> QED
    BY <2>2, <2>3
       DEF Start, Loop, Poll, PollFails, SaveCursor, Wake, Acquire, Skip, Check, Assign,
           Release, files, Alive
<1> QED
  BY <1>1, <1>2, <1>3, Stutter

LEMMA StepRefines ==
  AccountInv /\ LockInv /\ LockInv' /\ WhoIsActive /\ WhoIsActive' /\ [Next]_vars
    => [Singleton!Next]_(Singleton!vars)
<1> SUFFICES ASSUME AccountInv, LockInv, LockInv', WhoIsActive, WhoIsActive', [Next]_vars
             PROVE  Singleton!Next \/ UNCHANGED Singleton!vars
  OBVIOUS
<1>1. ASSUME NEW s \in Service,
             Stop(s) \/ SaveFails(s) \/ SpawnFails(s) \/ Crash(s)
      PROVE  Singleton!Next \/ UNCHANGED Singleton!vars
  <2>1. Exit(s) /\ UNCHANGED <<launches, runs>>
    BY <1>1 DEF Stop, SaveFails, SpawnFails, Crash
  <2> QED
    BY <2>1, ExitRefines DEF Singleton!Next
<1>2. ASSUME NEW s \in Service, Start(s) \/ ServiceStep(s) \/ Signal(s)
      PROVE  Singleton!Next \/ UNCHANGED Singleton!vars
  BY <1>1, <1>2, QuietRefines, SpawnRefines, DueRefines DEF ServiceStep
<1>3. ASSUME NEW s \in Service, ChildExits(s)
      PROVE  Singleton!Next
  <2>1. /\ Alive(s) /\ child' = [child EXCEPT ![s] = "exited"] /\ lock' = lock
        /\ UNCHANGED <<launches, runs>> /\ DOMAIN child = Service
    BY <1>3 DEF ChildExits, Alive, files, history, LockInv
  <2>2. ~ Alive(s)' /\ \A q \in Service \ {s} : Alive(q)' => Alive(q)
    BY <2>1 DEF Alive
  <2>3. lock' = s
    BY <2>1 DEF LockInv, Holder, Holding
  <2> QED
    BY <2>1, <2>2, <2>3, EndsRun DEF Singleton!Next
<1>4. CASE Tick \/ (\E restart \in BOOLEAN : Message(restart)) \/ UNCHANGED vars
  <2>1. UNCHANGED <<lock, child, launches, runs>>
    BY <1>4 DEF Tick, Message, vars, files, history
  <2> QED
    BY <2>1, Stutter DEF Alive
<1> QED
  BY <1>1, <1>2, <1>3, <1>4, OperatorRefines DEF Next

LEMMA InitRefines == Init => Singleton!Init
<1> SUFFICES ASSUME Init PROVE Singleton!Init
  OBVIOUS
<1>1. (\A s \in Service : ~ Alive(s)) /\ lock = Nobody
  BY DEF Init, Alive
<1>2. Active = Nobody
  BY <1>1, HoldersAssumption DEF Active
<1> QED
  BY <1>2 DEF Init, Singleton!Init

------------------------------------------------------------------------------
\* The theorems.

\* Every variable of the schedulers on a volume has its type.
THEOREM SchedulerTypes == Spec => []TypeOK
<1>1. AccountInv => TypeOK
  BY DEF AccountInv
<1> QED
  BY <1>1, AccountInvariant, PTL

\* Every request behind the cursor started a run, is about to, or was dropped for a
\* documented reason (poll, run_application).
THEOREM NoRequestLost == Spec => []RequestsAccounted
<1>1. RequestInv => RequestsAccounted
  BY DEF RequestInv, Handled, RequestsAccounted
<1> QED
  BY <1>1, RequestsInvariant, PTL

\* Every occurrence since the start of a running service was used, is still due, or
\* passed while a run was in progress (run, next_run).
THEOREM NoOccurrenceLost == Spec => []OccurrencesAccounted
<1>1. AccountInv => OccurrencesAccounted
  <2> SUFFICES ASSUME AccountInv, NEW s \in Service, Up(s), NEW o \in Occurrences,
                      svc[s].startedAt < o, o < now
               PROVE  launches[o] > 0 \/ o = svc[s].nextRun \/ o \in busy
    BY DEF OccurrencesAccounted
  <2>1. now \in Nat /\ o \in Nat /\ o <= now
    BY OccurrenceTimes, ClockAssumption DEF AccountInv, TypeOK
  <2> QED
    BY <2>1 DEF AccountInv, Cron, Up, Accounted
<1> QED
  BY <1>1, AccountInvariant, PTL

\* CronScheduler implements SingletonRuns: one run at a time, and no occurrence and no
\* request used twice or after a later one.
THEOREM ImplementsSingletonRuns == Spec => RunsAreSingletons
<1>1. Spec => []LockInv
  BY LockInit, LockNext, PTL DEF Spec
<1>2. Spec => []WhoIsActive
  BY <1>1, ActiveKnown, PTL
<1>3. Spec => Singleton!Spec
  BY <1>1, <1>2, InitRefines, AccountInvariant, StepRefines, PTL DEF Spec, Singleton!Spec
<1> QED
  BY <1>3 DEF RunsAreSingletons

=============================================================================
