------------------------ MODULE TranscriptProxy_proofs ------------------------
(***************************************************************************)
(* The rotator keeps its promises for any gateway, any number of exits and *)
(* any bound on rotations: a request is repeated only through a connected  *)
(* exit the run has not rejected, although a request to the gateway that   *)
(* fails may have been carried out.                                        *)
(***************************************************************************)
EXTENDS TranscriptProxy, TLAPS

\* The gateway reports no address but that of the exit it is connected through.
Honest == gateway.reported # Unknown => Running /\ gateway.reported = gateway.exit

\* After its start the gateway is told to run until the next rotation.
ToldToRun == pc \in {"await_run", "compare"} => gateway.target = "running"

NotRotated == pc \in {"idle", "direct"} => rotation = 0

ProxyInv ==
  TypeOK /\ Honest /\ ToldToRun /\ NotRotated /\ RetryOnFreshExit

LEMMA ProxyInit == Init => ProxyInv
<1> SUFFICES ASSUME Init PROVE ProxyInv
  OBVIOUS
<1>1. /\ gateway \in Gateways /\ gateway.target = "running" /\ Running
      /\ gateway.reported \in {gateway.exit, Unknown}
  BY DEF Init, Running
<1>2. /\ pc = "idle" /\ rotation = 0 /\ rejected = {}
      /\ blocked = FALSE /\ expired = FALSE
  BY DEF Init
<1>3. blocked \in BOOLEAN /\ expired \in BOOLEAN
  BY <1>2
<1>4. pc \in Steps /\ rotation \in 0 .. MaxRotations /\ rejected \subseteq Exit
  BY <1>2, RotationsAssumption DEF Steps
<1>5. TypeOK
  BY <1>1, <1>3, <1>4 DEF TypeOK
<1> QED
  BY <1>1, <1>2, <1>5
     DEF ProxyInv, Honest, ToldToRun, NotRotated, RetryOnFreshExit

\* The gateway changes its state, its exit or what it reports, whatever the rotator
\* is doing.
LEMMA GatewayMoves ==
  ProxyInv /\ (GatewayStep \/ GatewayForgets) => ProxyInv'
<1> SUFFICES ASSUME ProxyInv, GatewayStep \/ GatewayForgets PROVE ProxyInv'
  OBVIOUS
<1>1. UNCHANGED <<pc, blocked, rotation, rejected, expired>>
  BY DEF GatewayStep, GatewayStops, GatewayStarts, GatewayLearns, GatewayForgets, fetcher
<1>2. PICK g : g = gateway
  OBVIOUS
<1>3. PICK h : h = gateway'
  OBVIOUS
<1>4. g \in Gateways /\ g.target \in {"running", "stopped"} /\ g.exit \in Exit
  BY <1>2 DEF ProxyInv, TypeOK, Gateways
<1>5. /\ h \in Gateways /\ h.target = g.target
      /\ h.reported # Unknown => h.status = "running" /\ h.reported = h.exit
      /\ g.target = "running" /\ g.status = "running"
           => h.status = "running" /\ h.exit = g.exit
  <2>1. CASE GatewayStops
    BY <1>2, <1>3, <1>4, <2>1 DEF GatewayStops, Running, Gateways
  <2>2. CASE GatewayStarts
    BY <1>2, <1>3, <1>4, <2>2 DEF GatewayStarts, Running, Gateways, ProxyInv, Honest
  <2>3. CASE GatewayLearns
    BY <1>2, <1>3, <1>4, <2>3 DEF GatewayLearns, Running, Gateways
  <2>4. CASE GatewayForgets
    BY <1>2, <1>3, <1>4, <2>4 DEF GatewayForgets, Gateways
  <2> QED
    BY <2>1, <2>2, <2>3, <2>4 DEF GatewayStep
<1> QED
  BY <1>1, <1>2, <1>3, <1>5
     DEF ProxyInv, TypeOK, Honest, Running, ToldToRun, NotRotated, RetryOnFreshExit

\* The fetcher and the rotator move on, and leave the gateway alone.
LEMMA FetcherMoves ==
  ProxyInv /\ (\/ NewRun \/ Fetch \/ DirectAnswers \/ DirectBlocked \/ ProxyAnswers
               \/ ProxyBlocked \/ Identify \/ AwaitStop \/ AwaitRun \/ Expire)
    => ProxyInv'
<1> SUFFICES ASSUME ProxyInv,
                    \/ NewRun \/ Fetch \/ DirectAnswers \/ DirectBlocked \/ ProxyAnswers
                    \/ ProxyBlocked \/ Identify \/ AwaitStop \/ AwaitRun \/ Expire
             PROVE  ProxyInv'
  OBVIOUS
<1> USE DEF NewRun, Fetch, DirectAnswers, DirectBlocked, ProxyAnswers, ProxyBlocked, Rotate,
            Finished, Identify, AwaitStop, AwaitRun, Expire
<1>1. gateway' = gateway /\ blocked' \in BOOLEAN /\ expired' \in BOOLEAN
  BY DEF ProxyInv, TypeOK
<1>2. rejected' \subseteq Exit
  <2>1. gateway.reported \in Exit \cup {Unknown}
    BY DEF ProxyInv, TypeOK, Gateways
  <2> QED
    BY <2>1 DEF ProxyInv, TypeOK
<1>3. pc' \in Steps
  BY DEF ProxyInv, TypeOK, Steps, Rotating
<1>4. rotation' \in 0 .. MaxRotations
  BY RotationsAssumption DEF ProxyInv, TypeOK
<1>5. NotRotated'
  BY DEF ProxyInv, NotRotated, Rotating
<1>6. pc' = "proxy" /\ rotation' > 0 => pc = "proxy" /\ rotation' = rotation /\ rejected' = rejected
  BY DEF ProxyInv, NotRotated, Rotating
<1>7. pc' \in {"await_run", "compare"} => pc' = pc \/ (pc = "await_run")
  BY DEF Rotating
<1> QED
  BY <1>1, <1>2, <1>3, <1>4, <1>5, <1>6, <1>7
     DEF ProxyInv, TypeOK, Honest, Running, ToldToRun, RetryOnFreshExit

\* The rotator compares the address of a new connection with those it rejected.
LEMMA CompareMoves == ProxyInv /\ Compare => ProxyInv'
<1> SUFFICES ASSUME ProxyInv, Compare PROVE ProxyInv'
  OBVIOUS
<1>1. pc = "compare" /\ UNCHANGED <<gateway, blocked, rotation, rejected, expired>>
  BY DEF Compare
<1>2. gateway.target = "running"
  BY <1>1 DEF ProxyInv, ToldToRun
<1>3. \/ pc' \in {"await_run", "stop"}
      \/ pc' = "proxy" /\ Running /\ gateway.exit \notin rejected
  BY DEF Compare, ProxyInv, Honest
<1> QED
  BY <1>1, <1>2, <1>3
     DEF ProxyInv, TypeOK, Steps, Rotating, Honest, Running, ToldToRun, NotRotated, RetryOnFreshExit

\* The rotator tells the gateway what to do.
LEMMA ControlMoves == ProxyInv /\ (StopGateway \/ StartGateway) => ProxyInv'
<1> SUFFICES ASSUME ProxyInv, StopGateway \/ StartGateway PROVE ProxyInv'
  OBVIOUS
<1>1. /\ pc \in {"stop", "start"}
      /\ UNCHANGED <<blocked, rotation, rejected, expired>>
  BY DEF StopGateway, StartGateway
<1>2. PICK g : g = gateway
  OBVIOUS
<1>3. PICK h : h = gateway'
  OBVIOUS
<1>4. g \in Gateways
  BY <1>2 DEF ProxyInv, TypeOK
<1>5. /\ h \in Gateways /\ h.status = g.status /\ h.exit = g.exit /\ h.reported = g.reported
      /\ \/ pc' = "await_stop" /\ h.target = "stopped"
         \/ pc' = "await_run" /\ h.target = "running"
  <2>1. CASE StopGateway
    BY <1>2, <1>3, <1>4, <2>1 DEF StopGateway, Gateways
  <2>2. CASE StartGateway
    BY <1>2, <1>3, <1>4, <2>2 DEF StartGateway, Gateways
  <2> QED
    BY <2>1, <2>2
<1> QED
  BY <1>1, <1>2, <1>3, <1>5
     DEF ProxyInv, TypeOK, Steps, Rotating, Honest, Running, ToldToRun, NotRotated, RetryOnFreshExit

\* A rotation that ends before its time, with or without the run, may change what
\* the gateway is told and nothing else of it.
LEMMA CutMoves ==
  ProxyInv /\ (RotationTimesOut \/ ControlFails \/ Interrupt) => ProxyInv'
<1> SUFFICES ASSUME ProxyInv, RotationTimesOut \/ ControlFails \/ Interrupt
             PROVE  ProxyInv'
  OBVIOUS
<1>1. /\ pc' = "idle" /\ rotation' = 0 /\ expired' = FALSE
      /\ blocked' \in BOOLEAN /\ rejected' \subseteq Exit
  BY DEF RotationTimesOut, ControlFails, Interrupt, Fail, Finished, ProxyInv, TypeOK
<1>2. PICK g : g = gateway
  OBVIOUS
<1>3. PICK h : h = gateway'
  OBVIOUS
<1>4. g \in Gateways
  BY <1>2 DEF ProxyInv, TypeOK
<1>5. /\ h \in Gateways
      /\ h.status = g.status /\ h.exit = g.exit /\ h.reported = g.reported
  <2>1. CASE UNCHANGED gateway
    BY <1>2, <1>3, <1>4, <2>1
  <2>2. ASSUME NEW target \in {"running", "stopped"},
               gateway' = [gateway EXCEPT !.target = target]
        PROVE  /\ h \in Gateways
               /\ h.status = g.status /\ h.exit = g.exit /\ h.reported = g.reported
    BY <1>2, <1>3, <1>4, <2>2 DEF Gateways
  <2> QED
    BY <2>1, <2>2 DEF RotationTimesOut, ControlFails, Interrupt, Fail, Abandoned
<1>6. pc' \in Steps /\ rotation' \in 0 .. MaxRotations
  BY <1>1, RotationsAssumption DEF Steps
<1>7. TypeOK'
  BY <1>1, <1>3, <1>5, <1>6 DEF ProxyInv, TypeOK
<1>8. Honest'
  BY <1>2, <1>3, <1>5 DEF ProxyInv, Honest, Running
<1> QED
  BY <1>1, <1>7, <1>8 DEF ProxyInv, ToldToRun, NotRotated, RetryOnFreshExit

LEMMA ProxyNext == ProxyInv /\ [Next]_vars => ProxyInv'
<1> SUFFICES ASSUME ProxyInv, [Next]_vars PROVE ProxyInv'
  OBVIOUS
<1>1. CASE UNCHANGED vars
  BY <1>1
     DEF vars, fetcher, ProxyInv, TypeOK, Honest, Running, ToldToRun, NotRotated, RetryOnFreshExit
<1>2. CASE Next
  BY <1>2, GatewayMoves, FetcherMoves, CompareMoves, ControlMoves, CutMoves
     DEF Next, FetcherStep
<1> QED
  BY <1>1, <1>2

LEMMA ProxyInvariant == Spec => []ProxyInv
  BY ProxyInit, ProxyNext, PTL DEF Spec

------------------------------------------------------------------------------
\* The gateway, the fetcher and the rotator keep their types; in particular no
\* fetch rotates more often than MAX_TRANSCRIPT_IP_ROTATIONS.
THEOREM TypeCorrect == Spec => []TypeOK
  BY ProxyInvariant, PTL DEF ProxyInv

\* Whatever the gateway does meanwhile, a request is repeated only through a
\* connected exit that the run has not rejected (rotate).
THEOREM FreshExit == Spec => []RetryOnFreshExit
  BY ProxyInvariant, PTL DEF ProxyInv

=============================================================================
