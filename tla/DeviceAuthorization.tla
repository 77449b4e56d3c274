-------------------------- MODULE DeviceAuthorization --------------------------
(***************************************************************************)
(* The Google authorization gate of a container and of its application     *)
(* runs: ensure_youtube_authorization and check_startup_authorization      *)
(* (src/texttube/entrypoints/app.py), the device flow of                   *)
(* src/texttube/adapters/google_auth.py and the token exchange of          *)
(* src/texttube/adapters/youtube.py.                                       *)
(*                                                                         *)
(* `serve' passes the gate before it schedules; every run passes it again. *)
(* Compose starts a container that has ended again.  Google and the owner  *)
(* are external: Google counts the lifetime of a code from its issue, the  *)
(* process from the moment its notice was sent.  Time is counted in ticks  *)
(* since the issue of the code; a request takes at most Latency of them,   *)
(* and a wait ends on time.                                                *)
(***************************************************************************)
EXTENDS Integers

CONSTANTS
  Ttl,       \* expires_in of a device code.
  Interval,  \* interval of a device code.
  SlowDown,  \* SLOW_DOWN_INCREMENT_SECONDS
  Latency,   \* Bound on the ticks a request takes.
  Events     \* What the environment may do, see AllEvents.

\* network: a request fails or its answer is lost; telegram: a notice fails;
\* disk: the token cannot be stored; revoke: Google revokes the token; deny: the
\* owner rejects the code; interrupt: SIGINT, SIGTERM or a crash.
AllEvents == {"network", "telegram", "disk", "revoke", "deny", "interrupt"}

ASSUME CodeAssumption ==
  Ttl \in Nat \ {0} /\ Interval \in Nat \ {0} /\ SlowDown \in Nat /\ Latency \in Nat
ASSUME GateEvents == Events \subseteq AllEvents

VARIABLES
  mode,      \* Whether the container starts or one of its runs does.
  pc,        \* The step of the gate.
  token,     \* google-oauth-refresh-token.txt, and whether Google accepts it.
  age,       \* Ticks since the issue of the code.
  interval,  \* interval
  deadline,  \* deadline
  wake,      \* When the current wait ends.
  asked,     \* When the current request was sent.
  answer     \* Google's answer to the last poll.

\* Google and the owner.
VARIABLES
  code,      \* The device code.
  approved,  \* When the owner approved it.
  heard,     \* When Google received the last poll.
  demanded   \* The interval Google demands.

clock == <<age, interval, deadline, wake, asked, answer>>
google == <<code, approved, heard, demanded>>
vars == <<mode, pc, token, clock, google>>

------------------------------------------------------------------------------
\* An answer is on its way in "answer"; a token is on its way to the file in
\* "store", in its temporary file in "replace".
GateSteps == {"validate", "request", "notice", "wait", "poll", "answer", "store",
              "replace", "confirm", "expired", "failed"}

Steps == {"down", "serving", "working"} \cup GateSteps

Requests == {"notice", "poll", "answer"}

Smaller(m, n) == IF m < n THEN m ELSE n

\* No code has been requested.
NoCode ==
  /\ age' = 0 /\ interval' = Interval /\ deadline' = 0 /\ wake' = 0 /\ asked' = 0
  /\ answer' = "none"
  /\ code' = "none" /\ approved' = 0 /\ heard' = 0 /\ demanded' = Interval

Init ==
  /\ mode = "startup" /\ pc = "down"
  /\ token \in {"none", "live", "revoked"}
  /\ age = 0 /\ interval = Interval /\ deadline = 0 /\ wake = 0 /\ asked = 0
  /\ answer = "none"
  /\ code = "none" /\ approved = 0 /\ heard = 0 /\ demanded = Interval

\* Google still accepts the code.
Alive == age < Ttl

------------------------------------------------------------------------------
\* Time, Google and the owner.

Tick ==
  /\ \/ pc \in Requests /\ age < asked + Latency
     \/ pc = "wait" /\ age < wake
  /\ age' = age + 1
  /\ UNCHANGED <<mode, pc, token, interval, deadline, wake, asked, answer, google>>

Approve ==
  /\ pc \in {"wait", "poll", "answer"}
  /\ code = "pending" /\ Alive
  /\ code' = "approved" /\ approved' = age
  /\ UNCHANGED <<mode, pc, token, clock, heard, demanded>>

Deny ==
  /\ "deny" \in Events
  /\ pc \in {"wait", "poll", "answer"}
  /\ code = "pending" /\ Alive
  /\ code' = "denied"
  /\ UNCHANGED <<mode, pc, token, clock, approved, heard, demanded>>

Revoke ==
  /\ "revoke" \in Events
  /\ token = "live"
  /\ token' = "revoked"
  /\ UNCHANGED <<mode, pc, clock, google>>

\* Google receives a poll.  One that comes too early is told to slow down; so
\* may be any other.
Hear ==
  /\ pc = "poll"
  /\ answer' \in IF ~ Alive \/ code = "denied" THEN {"error"}
                 ELSE IF code = "approved" THEN {"token"}
                 ELSE {"slow_down"} \cup
                        (IF age - heard >= demanded THEN {"pending"} ELSE {})
  /\ pc' = "answer"
  /\ heard' = age
  /\ demanded' = IF answer' = "slow_down" THEN demanded + SlowDown ELSE demanded
  /\ UNCHANGED <<mode, token, age, interval, deadline, wake, asked, code, approved>>

------------------------------------------------------------------------------
\* The container and its runs.

\* Compose starts the container: check_startup_authorization.
StartContainer ==
  /\ pc = "down"
  /\ mode' = "startup" /\ pc' = "validate"
  /\ UNCHANGED <<token, clock, google>>

\* The scheduler starts a run: main.
StartRun ==
  /\ pc = "serving"
  /\ mode' = "run" /\ pc' = "validate"
  /\ UNCHANGED <<token, clock, google>>

RunEnds ==
  /\ pc = "working"
  /\ pc' = "serving"
  /\ UNCHANGED <<mode, token, clock, google>>

\* The gate is passed: the scheduler starts, or the run does its work.
Pass ==
  /\ pc' = IF mode = "startup" THEN "serving" ELSE "working"
  /\ NoCode
  /\ UNCHANGED <<mode, token>>

\* The container exits; a run leaves the scheduler active.
Leave ==
  /\ pc' = IF mode = "startup" THEN "down" ELSE "serving"
  /\ NoCode
  /\ UNCHANGED <<mode, token>>

------------------------------------------------------------------------------
\* ensure_youtube_authorization.

\* _refresh_access_token; invalid_grant leads to the device flow.
Validate ==
  /\ pc = "validate"
  /\ IF token = "live"
       THEN Pass
       ELSE pc' = "request" /\ UNCHANGED <<mode, token, clock, google>>

\* request_device_authorization
RequestCode ==
  /\ pc = "request"
  /\ code' = "pending"
  /\ pc' = "notice"
  /\ UNCHANGED <<mode, token, clock, approved, heard, demanded>>

\* Mutants of WaitUntil: the wait ignores the deadline; it takes the longer of
\* the two.
WaitUntilInterval(pause, end) == age + pause

WaitUntilLater(pause, end) == IF age + pause < end THEN end ELSE age + pause

\* stop_requested.wait(min(interval, remaining_seconds))
WaitUntil(pause, end) == Smaller(age + pause, end)

\* present_instructions, and the start of poll_for_refresh_token.
SendNotice ==
  /\ pc = "notice"
  /\ pc' = "wait"
  /\ deadline' = age + Ttl
  /\ wake' = WaitUntil(Interval, age + Ttl)
  /\ UNCHANGED <<mode, token, age, interval, asked, answer, google>>

\* Mutants of Poll: there is a last poll at the deadline; there is none unless
\* another interval is left.
PollAtDeadline ==
  /\ pc = "wait"
  /\ age >= wake
  /\ IF age > deadline
       THEN pc' = "expired" /\ UNCHANGED asked
       ELSE pc' = "poll" /\ asked' = age
  /\ UNCHANGED <<mode, token, age, interval, deadline, wake, answer, google>>

PollWithIntervalLeft ==
  /\ pc = "wait"
  /\ age >= wake
  /\ IF age + interval > deadline
       THEN pc' = "expired" /\ UNCHANGED asked
       ELSE pc' = "poll" /\ asked' = age
  /\ UNCHANGED <<mode, token, age, interval, deadline, wake, answer, google>>

\* The end of a wait: no poll is sent at the deadline.
Poll ==
  /\ pc = "wait"
  /\ age >= wake
  /\ IF age >= deadline
       THEN pc' = "expired" /\ UNCHANGED asked
       ELSE pc' = "poll" /\ asked' = age
  /\ UNCHANGED <<mode, token, age, interval, deadline, wake, answer, google>>

\* authorization_pending or slow_down.
WaitAgain(pause) ==
  /\ interval' = pause
  /\ IF age >= deadline
       THEN pc' = "expired" /\ UNCHANGED wake
       ELSE pc' = "wait" /\ wake' = WaitUntil(pause, deadline)
  /\ UNCHANGED <<mode, token, age, deadline, asked, answer, google>>

\* Any other answer is an AuthorizationError.
TakeAnswer ==
  /\ pc = "answer"
  /\ \/ answer = "pending" /\ WaitAgain(interval)
     \/ answer = "slow_down" /\ WaitAgain(interval + SlowDown)
     \/ /\ answer \in {"token", "error"}
        /\ pc' = IF answer = "token" THEN "store" ELSE "failed"
        /\ UNCHANGED <<mode, token, clock, google>>

\* store_refresh_token writes a temporary file ...
Store ==
  /\ pc = "store"
  /\ pc' = "replace"
  /\ UNCHANGED <<mode, token, clock, google>>

\* ... and replaces the token.
Replace ==
  /\ pc = "replace"
  /\ token' = "live"
  /\ pc' = "confirm"
  /\ UNCHANGED <<mode, clock, google>>

\* The stored token is read back and validated; a second rejection is fatal.
Confirm ==
  /\ pc = "confirm"
  /\ IF token = "live"
       THEN Pass
       ELSE pc' = "failed" /\ UNCHANGED <<mode, token, clock, google>>

\* Mutant of Expire: the run asks for a new code.
ExpireAgain ==
  /\ pc = "expired"
  /\ pc' = "request"
  /\ NoCode
  /\ UNCHANGED <<mode, token>>

\* The expiration notice, or the generic one if it fails; neither is repeated.
Expire ==
  /\ pc = "expired"
  /\ Leave

\* _notify_run_failure ignores a failure of its notice.
NotifyFailure ==
  /\ pc = "failed"
  /\ Leave

RequestFails ==
  /\ \/ "network" \in Events /\ pc \in {"validate", "request", "poll", "answer", "confirm"}
     \/ "telegram" \in Events /\ pc = "notice"
     \/ "disk" \in Events /\ pc \in {"store", "replace"}
  /\ pc' = "failed"
  /\ answer' = "none"
  /\ UNCHANGED <<mode, token, age, interval, deadline, wake, asked, google>>

\* KeyboardInterrupt, or the end of the container.
Interrupt ==
  /\ "interrupt" \in Events
  /\ pc # "down"
  /\ \/ pc \notin {"serving", "working"} /\ Leave
     \/ pc' = "down" /\ mode' = "startup" /\ NoCode /\ UNCHANGED token

------------------------------------------------------------------------------
GateStep ==
  \/ Validate \/ RequestCode \/ SendNotice \/ Poll \/ TakeAnswer \/ Store
  \/ Replace \/ Confirm \/ Expire \/ NotifyFailure

Next ==
  \/ Tick \/ Approve \/ Deny \/ Revoke \/ Hear
  \/ StartContainer \/ StartRun \/ RunEnds
  \/ GateStep \/ RequestFails \/ Interrupt

Spec == Init /\ [][Next]_vars

\* Time passes while the gate waits, Google answers and the process proceeds.
\* Nothing is assumed of the owner, of failures and of signals.
Fairness == WF_vars(Tick) /\ WF_vars(Hear) /\ WF_vars(GateStep)

FairSpec == Spec /\ Fairness

------------------------------------------------------------------------------
\* Properties.

\* Every variable has its type; a wait never outlasts the deadline.
TypeOK ==
  /\ mode \in {"startup", "run"} /\ pc \in Steps
  /\ token \in {"none", "live", "revoked"}
  /\ age \in 0 .. Ttl + 2 * Latency
  /\ interval \in Nat /\ demanded \in Nat
  /\ deadline \in 0 .. Ttl + Latency /\ wake \in 0 .. deadline
  /\ asked \in 0 .. deadline
  /\ answer \in {"none", "pending", "slow_down", "token", "error"}
  /\ code \in {"none", "pending", "approved", "denied"}
  /\ approved \in 0 .. Ttl /\ heard \in 0 .. deadline + Latency

\* Google never receives two polls closer than the interval it demands, neither
\* after slow_down nor before the deadline, where a wait is shorter
\* (poll_for_refresh_token).
PollsSpaced ==
  [][(pc = "poll" /\ pc' = "answer") => age - heard >= demanded]_vars

\* The process gives a code up as expired only when Google has: its notice never
\* tells the owner to start again while the code could still be approved.
ExpiredMeansExpired == pc = "expired" => ~ Alive

\* An approval is lost to expiration only if it was given so late that the wait
\* in progress and two requests could outlast the code (poll_for_refresh_token).
OnlyLateApprovalsLost ==
  (code = "approved" /\ (pc = "expired" \/ (pc = "failed" /\ answer = "error")))
    => approved + interval + 2 * Latency >= Ttl

\* The gate always opens or gives up: a run never waits for the owner, Google
\* and slow_down for ever.
GateEnds == pc \in GateSteps ~> pc \notin GateSteps

=============================================================================
