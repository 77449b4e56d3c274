--------------------------- MODULE TranscriptProxy ---------------------------
(***************************************************************************)
(* Native captions over the direct route and, once YouTube blocks it, over *)
(* the exits of a VPN gateway: NativeTranscriptFetcher and                 *)
(* TranscriptProxyRotator (src/texttube/adapters/transcripts.py).          *)
(*                                                                         *)
(* An application run fetches the captions of one video after another with *)
(* one fetcher and one rotator.  The gateway is a service of its own: it   *)
(* changes its state some time after it was told to, connects through an   *)
(* exit of its choice, learns its public address later and may forget it.  *)
(* Here the exit stands for the address.  Seconds are abstracted: at any   *)
(* moment of a rotation its deadline may have passed.                      *)
(***************************************************************************)
EXTENDS Integers

CONSTANTS
  Exit,          \* The public addresses of the gateway.
  Unknown,       \* No known address.
  MaxRotations,  \* MAX_TRANSCRIPT_IP_ROTATIONS
  Events         \* What the environment may do, see AllEvents.

\* control: a request to the gateway's control API fails; forget: the gateway
\* loses its public address; interrupt: the run is interrupted.
AllEvents == {"control", "forget", "interrupt"}

ASSUME UnknownAssumption == Unknown \notin Exit
ASSUME RotationsAssumption == MaxRotations \in Nat
ASSUME ProxyEvents == Events \subseteq AllEvents

VARIABLES
  gateway,   \* The VPN gateway.
  pc,        \* The step of the fetcher or of its rotator.
  blocked,   \* direct_ip_blocked
  rotation,  \* The rotation of the current fetch.
  rejected,  \* rejected_ips
  expired    \* The deadline of the rotation has passed.

fetcher == <<pc, blocked, rotation, rejected, expired>>
vars == <<gateway, fetcher>>

------------------------------------------------------------------------------
Rotating == {"identify", "stop", "await_stop", "start", "await_run", "compare"}

Steps == {"idle", "direct", "proxy"} \cup Rotating

Gateways == [target : {"running", "stopped"}, status : {"running", "stopped"},
             exit : Exit, reported : Exit \cup {Unknown}]

Running == gateway.status = "running"

Init ==
  /\ gateway \in {g \in Gateways : /\ g.target = "running"
                                   /\ g.status = "running"
                                   /\ g.reported \in {g.exit, Unknown}}
  /\ pc = "idle" /\ blocked = FALSE /\ rotation = 0
  /\ rejected = {} /\ expired = FALSE

\* The gateway.
GatewayStops ==
  /\ gateway.target = "stopped" /\ Running
  /\ gateway' = [gateway EXCEPT !.status = "stopped", !.reported = Unknown]
  /\ UNCHANGED fetcher

GatewayStarts ==
  /\ gateway.target = "running" /\ ~ Running
  /\ \E exit \in Exit :
       gateway' = [gateway EXCEPT !.status = "running", !.exit = exit]
  /\ UNCHANGED fetcher

GatewayLearns ==
  /\ Running
  /\ gateway.reported = Unknown
  /\ gateway' = [gateway EXCEPT !.reported = gateway.exit]
  /\ UNCHANGED fetcher

GatewayForgets ==
  /\ "forget" \in Events
  /\ gateway.reported # Unknown
  /\ gateway' = [gateway EXCEPT !.reported = Unknown]
  /\ UNCHANGED fetcher

------------------------------------------------------------------------------
\* NativeTranscriptFetcher.

\* A fetch returns a transcript or fails; the rotator keeps what it rejected.
Finished ==
  pc' = "idle" /\ rotation' = 0 /\ expired' = FALSE

\* The next application run has a fetcher and a rotator of its own.
NewRun ==
  /\ pc = "idle"
  /\ blocked' = FALSE /\ rejected' = {}
  /\ UNCHANGED <<gateway, pc, rotation, expired>>

Fetch ==
  /\ pc = "idle"
  /\ pc' = IF blocked THEN "proxy" ELSE "direct"
  /\ UNCHANGED <<gateway, blocked, rotation, rejected, expired>>

\* A transcript, or any failure but an IP block.
DirectAnswers ==
  /\ pc = "direct"
  /\ Finished
  /\ UNCHANGED <<gateway, blocked, rejected>>

DirectBlocked ==
  /\ pc = "direct"
  /\ blocked' = TRUE
  /\ pc' = "proxy"
  /\ UNCHANGED <<gateway, rotation, rejected, expired>>

\* A stopped gateway answers with a connection error.
ProxyAnswers ==
  /\ pc = "proxy"
  /\ Finished
  /\ UNCHANGED <<gateway, blocked, rejected>>

\* Mutant of Rotate: one rotation too many.
RotateBeyond ==
  IF rotation > MaxRotations
    THEN /\ Finished
         /\ UNCHANGED <<blocked, rejected>>
    ELSE /\ pc' = "identify"
         /\ rotation' = rotation + 1
         /\ UNCHANGED <<blocked, rejected, expired>>

\* The handler of an IP block in _fetch_through_proxy.
Rotate ==
  IF rotation >= MaxRotations
    THEN /\ Finished
         /\ UNCHANGED <<blocked, rejected>>
    ELSE /\ pc' = "identify"
         /\ rotation' = rotation + 1
         /\ UNCHANGED <<blocked, rejected, expired>>

ProxyBlocked ==
  /\ pc = "proxy"
  /\ Running
  /\ Rotate
  /\ UNCHANGED gateway

------------------------------------------------------------------------------
\* TranscriptProxyRotator.rotate.

\* The deadline is set once the address is known or not.
Identify ==
  /\ pc = "identify"
  /\ rejected' = rejected \cup ({gateway.reported} \ {Unknown})
  /\ expired' = FALSE
  /\ pc' = "stop"
  /\ UNCHANGED <<gateway, blocked, rotation>>

StopGateway ==
  /\ pc = "stop"
  /\ ~ expired
  /\ gateway' = [gateway EXCEPT !.target = "stopped"]
  /\ pc' = "await_stop"
  /\ UNCHANGED <<blocked, rotation, rejected, expired>>

\* _wait_for_status("stopped")
AwaitStop ==
  /\ pc = "await_stop"
  /\ ~ expired
  /\ ~ Running
  /\ pc' = "start"
  /\ UNCHANGED <<gateway, blocked, rotation, rejected, expired>>

StartGateway ==
  /\ pc = "start"
  /\ gateway' = [gateway EXCEPT !.target = "running"]
  /\ pc' = "await_run"
  /\ UNCHANGED <<blocked, rotation, rejected, expired>>

AwaitRun ==
  /\ pc = "await_run"
  /\ ~ expired
  /\ Running
  /\ pc' = "compare"
  /\ UNCHANGED <<gateway, blocked, rotation, rejected, expired>>

\* Mutant of Compare: any known address will do.
CompareKnown ==
  /\ pc = "compare"
  /\ pc' = IF gateway.reported = Unknown THEN "await_run" ELSE "proxy"
  /\ UNCHANGED <<gateway, blocked, rotation, rejected, expired>>

\* An unknown address is asked for again; a rejected one is reconnected.
Compare ==
  /\ pc = "compare"
  /\ pc' = CASE gateway.reported = Unknown   -> "await_run"
             [] gateway.reported \in rejected -> "stop"
             [] OTHER                         -> "proxy"
  /\ UNCHANGED <<gateway, blocked, rotation, rejected, expired>>

\* time.monotonic() reaches the deadline.
Expire ==
  /\ pc \in Rotating \ {"identify"}
  /\ ~ expired
  /\ expired' = TRUE
  /\ UNCHANGED <<gateway, pc, blocked, rotation, rejected>>

\* The rotation fails the fetch and leaves the gateway as it is.
Fail ==
  /\ Finished
  /\ UNCHANGED <<gateway, blocked, rejected>>

\* Mutant of RotationTimesOut: the inner loop has no deadline.
RotationWaits ==
  /\ pc \in {"stop", "await_stop"}
  /\ expired
  /\ Fail

RotationTimesOut ==
  /\ pc \in {"stop", "await_stop", "await_run"}
  /\ expired
  /\ Fail

\* A request that changes the gateway's state may have been carried out although
\* its answer never arrives or is not understood.
Abandoned ==
  \/ UNCHANGED gateway
  \/ pc = "stop" /\ gateway' = [gateway EXCEPT !.target = "stopped"]
  \/ pc = "start" /\ gateway' = [gateway EXCEPT !.target = "running"]

\* _request_json raises VideoFailure.
ControlFails ==
  /\ "control" \in Events
  /\ pc \in Rotating
  /\ Abandoned
  /\ Finished
  /\ UNCHANGED <<blocked, rejected>>

\* KeyboardInterrupt, in a request as anywhere else: the next run starts anew.
Interrupt ==
  /\ "interrupt" \in Events
  /\ pc # "idle"
  /\ Abandoned
  /\ Finished
  /\ blocked' = FALSE /\ rejected' = {}

------------------------------------------------------------------------------
GatewayStep == GatewayStops \/ GatewayStarts \/ GatewayLearns

FetcherStep ==
  \/ DirectAnswers \/ DirectBlocked \/ ProxyAnswers \/ ProxyBlocked
  \/ Identify \/ StopGateway \/ AwaitStop \/ StartGateway \/ AwaitRun \/ Compare
  \/ RotationTimesOut

Next ==
  \/ GatewayStep \/ GatewayForgets
  \/ NewRun \/ Fetch \/ FetcherStep \/ Expire \/ ControlFails \/ Interrupt

Spec == Init /\ [][Next]_vars

\* The fetcher proceeds and time passes.
Fairness == WF_vars(FetcherStep) /\ WF_vars(Expire)

FairSpec == Spec /\ Fairness

------------------------------------------------------------------------------
\* Properties.

\* Every variable has its type.
TypeOK ==
  /\ gateway \in Gateways
  /\ pc \in Steps
  /\ blocked \in BOOLEAN /\ expired \in BOOLEAN
  /\ rotation \in 0 .. MaxRotations
  /\ rejected \subseteq Exit

\* After a rotation the request is repeated through an exit whose address is
\* known and none of those the run rejected before, even though the gateway
\* changes its state and loses its address at any time (rotate).
RetryOnFreshExit ==
  pc = "proxy" /\ rotation > 0 =>
    gateway.target = "running" /\ Running /\ gateway.exit \notin rejected

\* Every fetch ends: no sequence of unknown and rejected addresses outlasts
\* the deadline, and rotations are bounded (rotate, _fetch_through_proxy).
FetchEnds == pc # "idle" ~> pc = "idle"

=============================================================================
