--------------------- MODULE DeviceAuthorization_proofs ---------------------
(***************************************************************************)
(* The authorization gate keeps time, for every lifetime and interval of a *)
(* code, every increment and every latency: its polls are spaced, it gives *)
(* a code up only when Google has, and it loses late approvals only.       *)
(*                                                                         *)
(* The invariant relates the three clocks that the step of the gate brings *)
(* into play: the wait in progress, the last poll Google heard, and the    *)
(* approval.                                                               *)
(***************************************************************************)
EXTENDS DeviceAuthorization, TLAPS

\* The steps before a code is requested, and outside the gate.
Codeless == {"down", "serving", "working", "validate", "request"}

Clean ==
  /\ age = 0 /\ interval = Interval /\ deadline = 0 /\ wake = 0 /\ asked = 0
  /\ answer = "none"
  /\ code = "none" /\ approved = 0 /\ heard = 0 /\ demanded = Interval

\* The ranges of the clocks.
Ranges ==
  /\ age \in Nat /\ age <= Ttl + 2 * Latency
  /\ deadline \in Nat /\ deadline <= Ttl + Latency
  /\ wake \in Nat /\ wake <= deadline
  /\ asked \in Nat /\ asked <= deadline
  /\ approved \in Nat /\ approved <= Ttl
  /\ heard \in Nat /\ heard <= deadline + Latency
  /\ interval \in Nat /\ demanded \in Nat

Names ==
  /\ mode \in {"startup", "run"} /\ pc \in Steps
  /\ token \in {"none", "live", "revoked"}
  /\ answer \in {"none", "pending", "slow_down", "token", "error"}
  /\ code \in {"none", "pending", "approved", "denied"}

\* A notice is sent at once after its code was issued.
Noticing ==
  /\ age <= Latency /\ asked = 0 /\ heard = 0 /\ deadline = 0 /\ wake = 0
  /\ interval = Interval /\ demanded = Interval
  /\ answer = "none" /\ code = "pending"

\* A wait ends in time for its deadline and, unless the deadline ends it, not
\* before Google accepts the next poll.
Waiting ==
  /\ age <= wake /\ wake <= age + interval
  /\ Ttl <= deadline
  /\ wake = deadline \/ heard + demanded <= wake
  /\ interval = demanded /\ heard <= age
  /\ answer \notin {"token", "error"}

\* A poll on its way is one Google accepts.
Polling ==
  /\ asked <= age /\ age <= asked + Latency
  /\ asked < deadline /\ Ttl <= deadline
  /\ heard + demanded <= asked
  /\ interval = demanded
  /\ answer \notin {"token", "error"}

\* An answer on its way.
Answered ==
  /\ asked <= heard /\ heard <= age /\ age <= asked + Latency
  /\ asked < deadline /\ Ttl <= deadline
  /\ demanded = IF answer = "slow_down" THEN interval + SlowDown ELSE interval
  /\ answer = "error" => ~ Alive \/ code = "denied"

\* The approval came so late that it may be lost.
Late == approved + interval + 2 * Latency >= Ttl

\* How far the gate may be from an approval it has not heard of.
Unheard ==
  /\ pc = "wait" => wake <= approved + interval + Latency
  /\ pc = "poll" => asked <= approved + interval + Latency
  /\ pc = "answer" /\ answer \in {"pending", "slow_down"} => asked <= approved
  /\ pc = "expired" \/ (pc \in {"answer", "failed"} /\ answer = "error") => Late

GateInv ==
  /\ Names /\ Ranges
  /\ pc \in Codeless => Clean
  /\ pc = "notice" => Noticing
  /\ pc = "wait" => Waiting
  /\ pc = "poll" => Polling
  /\ pc = "answer" => Answered
  /\ pc \in {"store", "replace", "confirm"} => answer = "token"
  /\ pc = "expired" => ~ Alive
  /\ code = "approved" => Unheard

\* The names of the steps are distinct, and the invariant tells them apart.
LEMMA GateInit == Init => GateInv
  BY CodeAssumption
     DEF Init, GateInv, Names, Steps, Ranges, Codeless, Clean

\* Time passes during a request and a wait.
LEMMA TickStep == GateInv /\ Tick => GateInv'
<1> SUFFICES ASSUME GateInv, Tick PROVE GateInv'
  OBVIOUS
<1>1. CASE pc = "wait"
  BY <1>1, CodeAssumption
     DEF Tick, google, GateInv, Names, Ranges, Codeless, Waiting, Unheard, Late, Requests
<1>2. CASE pc = "notice"
  BY <1>2, CodeAssumption
     DEF Tick, google, GateInv, Names, Ranges, Codeless, Noticing, Unheard, Late
<1>3. CASE pc = "poll"
  BY <1>3, CodeAssumption
     DEF Tick, google, GateInv, Names, Ranges, Codeless, Polling, Unheard, Late
<1>4. CASE pc = "answer"
  BY <1>4, CodeAssumption
     DEF Tick, google, GateInv, Names, Ranges, Codeless, Answered, Unheard, Late, Alive
<1> QED
  BY <1>1, <1>2, <1>3, <1>4 DEF Tick, Requests

\* The owner approves or rejects the code.
LEMMA OwnerStep == GateInv /\ (Approve \/ Deny) => GateInv'
<1> SUFFICES ASSUME GateInv, Approve \/ Deny PROVE GateInv'
  OBVIOUS
<1>1. CASE Approve
  <2> USE <1>1, CodeAssumption DEF Approve, clock, GateInv, Names, Ranges, Codeless, Alive
  <2>1. CASE pc = "wait"
    BY <2>1 DEF Waiting, Unheard
  <2>2. CASE pc = "poll"
    BY <2>2 DEF Polling, Unheard
  <2>3. CASE pc = "answer"
    BY <2>3 DEF Answered, Unheard
  <2> QED
    BY <2>1, <2>2, <2>3
<1>2. CASE Deny
  BY <1>2 DEF Deny, clock, GateInv, Names, Ranges, Codeless, Waiting, Polling, Answered, Alive
<1> QED
  BY <1>1, <1>2

\* Google answers: unless the code is alive and not approved, it says so.
LEMMA HearStep == GateInv /\ Hear => GateInv'
<1> SUFFICES ASSUME GateInv, Hear PROVE GateInv'
  OBVIOUS
<1>1. Polling /\ Names /\ Ranges /\ (code = "approved" => Unheard) /\ pc = "poll"
  BY DEF GateInv, Hear
<1>2. /\ UNCHANGED <<mode, token, age, interval, deadline, wake, asked, code, approved>>
      /\ pc' = "answer" /\ heard' = age
      /\ demanded' = IF answer' = "slow_down" THEN demanded + SlowDown ELSE demanded
  BY DEF Hear
<1>3. /\ answer' \in {"pending", "slow_down", "token", "error"}
      /\ answer' = "error" => ~ Alive \/ code = "denied"
      /\ code = "approved" => answer' = "token" \/ (answer' = "error" /\ ~ Alive)
  BY DEF Hear
<1>4. Names' /\ Ranges'
  BY <1>1, <1>2, <1>3, CodeAssumption DEF Names, Ranges, Polling, Steps, GateSteps
<1>5. Answered'
  BY <1>1, <1>2, <1>3, CodeAssumption DEF Polling, Answered, Alive, Ranges
<1>6. ASSUME code' = "approved" PROVE Unheard'
  BY <1>1, <1>2, <1>3, <1>6, CodeAssumption DEF Polling, Unheard, Late, Alive, Ranges
<1> QED
  BY <1>2, <1>4, <1>5, <1>6 DEF GateInv, Codeless

\* The gate is left, one way or the other.
LEMMA LeaveStep ==
  ASSUME GateInv, NoCode, pc' \in Codeless,
         mode' \in {"startup", "run"}, token' \in {"none", "live", "revoked"}
  PROVE  GateInv'
  BY CodeAssumption
     DEF NoCode, GateInv, Names, Steps, GateSteps, Ranges, Codeless, Clean

\* A step that leaves clocks and code alone, to a step of the gate where neither
\* matters or where no code has been requested.
LEMMA StillStep ==
  ASSUME GateInv, UNCHANGED <<clock, google>>,
         mode' \in {"startup", "run"}, token' \in {"none", "live", "revoked"},
         \/ pc \in Codeless /\ pc' \in Codeless
         \/ pc' = pc
         \/ pc' \in {"store", "replace", "confirm"} /\ answer = "token"
  PROVE  GateInv'
  BY DEF clock, google, GateInv, Names, Steps, GateSteps, Ranges, Codeless, Clean,
         Noticing, Waiting, Polling, Answered, Unheard, Late, Alive

\* A failure, with whatever answer was on its way.
LEMMA FailStep ==
  ASSUME GateInv, pc' = "failed",
         UNCHANGED <<mode, token, age, interval, deadline, wake, asked, google>>,
         \/ answer' = "none"
         \/ answer' = answer /\ pc = "answer"
         \/ answer' = answer /\ answer # "error"
  PROVE  GateInv'
  BY DEF google, GateInv, Names, Steps, GateSteps, Ranges, Codeless, Unheard, Late

LEMMA NoticeStep == GateInv /\ (RequestCode \/ SendNotice) => GateInv'
<1> SUFFICES ASSUME GateInv, RequestCode \/ SendNotice PROVE GateInv'
  OBVIOUS
<1>1. CASE RequestCode
  BY <1>1, CodeAssumption
     DEF RequestCode, clock, GateInv, Names, Steps, GateSteps, Ranges, Codeless, Clean, Noticing
<1>2. CASE SendNotice
  <2>1. Noticing /\ Names /\ Ranges /\ pc = "notice"
    BY <1>2 DEF SendNotice, GateInv
  <2>2. /\ wake' \in Nat /\ wake' <= age + Ttl /\ wake' <= age + Interval
        /\ wake' = age + Ttl \/ wake' = age + Interval
        /\ age <= wake'
    BY <1>2, <2>1, CodeAssumption DEF SendNotice, WaitUntil, Smaller, Ranges
  <2>3. Names' /\ Ranges' /\ Waiting'
    BY <1>2, <2>1, <2>2, CodeAssumption
       DEF SendNotice, google, Names, Steps, GateSteps, Ranges, Noticing, Waiting
  <2> QED
    BY <1>2, <2>1, <2>3 DEF SendNotice, google, GateInv, Codeless, Noticing
<1> QED
  BY <1>1, <1>2

LEMMA PollStep == GateInv /\ Poll => GateInv'
<1> SUFFICES ASSUME GateInv, Poll PROVE GateInv'
  OBVIOUS
<1>1. Waiting /\ Names /\ Ranges /\ (code = "approved" => Unheard) /\ pc = "wait" /\ age = wake
  BY DEF GateInv, Poll, Waiting, Ranges
<1>2. CASE age >= deadline
  <2>1. pc' = "expired" /\ UNCHANGED <<mode, token, clock, google>>
    BY <1>2 DEF Poll, clock
  <2> QED
    BY <1>1, <1>2, <2>1, CodeAssumption
       DEF clock, google, GateInv, Names, Steps, GateSteps, Ranges, Codeless, Waiting, Alive,
           Unheard, Late
<1>3. CASE age < deadline
  <2>1. /\ pc' = "poll" /\ asked' = age
        /\ UNCHANGED <<mode, token, age, interval, deadline, wake, answer, google>>
    BY <1>1, <1>3 DEF Poll, Ranges
  <2>2. Names' /\ Ranges' /\ Polling'
    BY <1>1, <1>3, <2>1, CodeAssumption
       DEF google, Names, Steps, GateSteps, Ranges, Waiting, Polling
  <2>3. code' = "approved" => Unheard'
    BY <1>1, <2>1 DEF google, Unheard
  <2> QED
    BY <2>1, <2>2, <2>3 DEF GateInv, Codeless
<1> QED
  BY <1>1, <1>2, <1>3 DEF Ranges

\* The answer was authorization_pending or slow_down.
LEMMA WaitAgainStep ==
  ASSUME GateInv, pc = "answer", NEW pause, WaitAgain(pause),
         \/ answer = "pending" /\ pause = interval
         \/ answer = "slow_down" /\ pause = interval + SlowDown
  PROVE  GateInv'
<1>1. Answered /\ Names /\ Ranges /\ (code = "approved" => Unheard)
  BY DEF GateInv
<1>2. pause \in Nat /\ pause = demanded /\ pause >= interval
  BY <1>1, CodeAssumption DEF Answered, Ranges
<1>3. /\ interval' = pause
      /\ UNCHANGED <<mode, token, age, deadline, asked, answer, google>>
  BY DEF WaitAgain
<1>4. CASE age >= deadline
  <2>1. pc' = "expired" /\ wake' = wake
    BY <1>4 DEF WaitAgain
  <2>2. Names' /\ Ranges' /\ ~ Alive'
    BY <1>1, <1>2, <1>3, <1>4, <2>1, CodeAssumption
       DEF google, Names, Steps, GateSteps, Ranges, Answered, Alive
  <2>3. ASSUME code' = "approved" PROVE Late'
    <3>1. asked <= approved
      BY <1>1, <1>3, <2>3 DEF google, Unheard
    <3> QED
      BY <1>1, <1>2, <1>3, <1>4, <3>1, CodeAssumption DEF google, Answered, Ranges, Late
  <2> QED
    BY <2>1, <2>2, <2>3 DEF GateInv, Codeless, Unheard
<1>5. CASE age < deadline
  <2>1. pc' = "wait" /\ wake' = WaitUntil(pause, deadline)
    BY <1>1, <1>5 DEF WaitAgain, Ranges
  <2>2. /\ wake' \in Nat /\ age <= wake' /\ wake' <= deadline /\ wake' <= age + pause
        /\ wake' = deadline \/ wake' = age + pause
    BY <1>1, <1>2, <1>5, <2>1 DEF WaitUntil, Smaller, Ranges
  <2>3. Names' /\ Ranges' /\ Waiting'
    BY <1>1, <1>2, <1>3, <2>1, <2>2, CodeAssumption
       DEF google, Names, Steps, GateSteps, Ranges, Answered, Waiting
  <2>4. ASSUME code' = "approved" PROVE Unheard'
    <3>1. asked <= approved
      BY <1>1, <1>3, <2>4 DEF google, Unheard
    <3> QED
      BY <1>1, <1>2, <1>3, <2>1, <2>2, <3>1, CodeAssumption
         DEF google, Answered, Ranges, Unheard
  <2> QED
    BY <2>1, <2>3, <2>4 DEF GateInv, Codeless
<1> QED
  BY <1>1, <1>4, <1>5 DEF Ranges

LEMMA AnswerStep == GateInv /\ TakeAnswer => GateInv'
<1> SUFFICES ASSUME GateInv, TakeAnswer PROVE GateInv'
  OBVIOUS
<1>1. CASE \/ answer = "pending" /\ WaitAgain(interval)
           \/ answer = "slow_down" /\ WaitAgain(interval + SlowDown)
  BY <1>1, WaitAgainStep DEF TakeAnswer
<1>2. CASE answer = "token" /\ pc' = "store" /\ UNCHANGED <<mode, token, clock, google>>
  BY <1>2, StillStep DEF GateInv, Names
<1>3. CASE answer = "error" /\ pc' = "failed" /\ UNCHANGED <<mode, token, clock, google>>
  BY <1>3, FailStep DEF TakeAnswer, clock
<1> QED
  BY <1>1, <1>2, <1>3 DEF TakeAnswer

\* The steps of the gate that do not wait for the owner.
LEMMA TokenStep ==
  GateInv /\ (Validate \/ Store \/ Replace \/ Confirm \/ Expire \/ NotifyFailure) => GateInv'
<1> SUFFICES ASSUME GateInv,
                    Validate \/ Store \/ Replace \/ Confirm \/ Expire \/ NotifyFailure
             PROVE  GateInv'
  OBVIOUS
<1> USE DEF Codeless
<1>1. mode \in {"startup", "run"} /\ token \in {"none", "live", "revoked"}
  BY DEF GateInv, Names
<1>2. ASSUME Pass \/ Leave PROVE GateInv'
  <2>1. NoCode /\ pc' \in Codeless /\ mode' = mode /\ token' = token
    BY <1>2 DEF Pass, Leave
  <2> QED
    BY <1>1, <2>1, LeaveStep
<1>3. CASE Validate
  BY <1>1, <1>2, <1>3, StillStep DEF Validate
<1>4. CASE Store \/ Replace
  BY <1>1, <1>4, StillStep DEF Store, Replace, GateInv
<1>5. CASE Confirm
  <2>1. CASE token = "live"
    BY <1>2, <1>5, <2>1 DEF Confirm
  <2>2. CASE token # "live"
    BY <1>5, <2>2, FailStep DEF Confirm, clock, GateInv
  <2> QED
    BY <2>1, <2>2
<1>6. CASE Expire \/ NotifyFailure
  BY <1>2, <1>6 DEF Expire, NotifyFailure
<1> QED
  BY <1>3, <1>4, <1>5, <1>6

\* The container and its environment.
LEMMA OutsideStep ==
  GateInv /\ (Revoke \/ StartContainer \/ StartRun \/ RunEnds \/ RequestFails \/ Interrupt)
    => GateInv'
<1> SUFFICES ASSUME GateInv,
                    \/ Revoke \/ StartContainer \/ StartRun \/ RunEnds
                    \/ RequestFails \/ Interrupt
             PROVE  GateInv'
  OBVIOUS
<1>1. mode \in {"startup", "run"} /\ token \in {"none", "live", "revoked"}
  BY DEF GateInv, Names
<1>2. CASE Revoke \/ StartContainer \/ StartRun \/ RunEnds
  BY <1>1, <1>2, StillStep DEF Revoke, StartContainer, StartRun, RunEnds, Codeless
<1>3. CASE RequestFails
  BY <1>3, FailStep DEF RequestFails
<1>4. CASE Interrupt
  <2>1. NoCode /\ pc' \in Codeless /\ mode' \in {"startup", "run"} /\ token' = token
    BY <1>1, <1>4 DEF Interrupt, Leave, Codeless
  <2> QED
    BY <1>1, <2>1, LeaveStep
<1> QED
  BY <1>2, <1>3, <1>4

LEMMA GateNext == GateInv /\ [Next]_vars => GateInv'
<1> SUFFICES ASSUME GateInv, [Next]_vars PROVE GateInv'
  OBVIOUS
<1>1. CASE UNCHANGED vars
  BY <1>1, StillStep DEF vars, GateInv, Names
<1>2. CASE GateStep
  BY <1>2, NoticeStep, PollStep, AnswerStep, TokenStep DEF GateStep
<1> QED
  BY <1>1, <1>2, TickStep, OwnerStep, HearStep, OutsideStep DEF Next

LEMMA GateInvariant == Spec => []GateInv
  BY GateInit, GateNext, PTL DEF Spec

------------------------------------------------------------------------------
\* Every variable of the gate has its type, and no clock outlasts the deadline by
\* more than a request (poll_for_refresh_token).
THEOREM TypeCorrect == Spec => []TypeOK
<1>1. GateInv => TypeOK
  BY CodeAssumption DEF GateInv, Names, Ranges, TypeOK
<1> QED
  BY <1>1, GateInvariant, PTL

\* The gate calls a code expired only when Google no longer accepts it, however
\* long its requests take (poll_for_refresh_token).
THEOREM Expired == Spec => []ExpiredMeansExpired
<1>1. GateInv => ExpiredMeansExpired
  BY DEF GateInv, ExpiredMeansExpired
<1> QED
  BY <1>1, GateInvariant, PTL

\* Only an approval in the last interval and two requests of the lifetime of its
\* code can be lost (poll_for_refresh_token).
THEOREM LateApprovals == Spec => []OnlyLateApprovalsLost
<1>1. GateInv => OnlyLateApprovalsLost
  BY DEF GateInv, Unheard, Late, OnlyLateApprovalsLost
<1> QED
  BY <1>1, GateInvariant, PTL

\* Google hears no poll before the interval it demands is over
\* (poll_for_refresh_token).
THEOREM Spacing == Spec => PollsSpaced
<1>1. GateInv /\ [Next]_vars => [(pc = "poll" /\ pc' = "answer") => age - heard >= demanded]_vars
  BY DEF GateInv, Polling, Ranges
<1> QED
  BY <1>1, GateInvariant, PTL DEF Spec, PollsSpaced

=============================================================================
