---------------------- MODULE ProfileSupervisorProofs ----------------------
(***************************************************************************)
(* What holds of a supervised profile for every set of endpoints, forwards *)
(* and callers, every configuration and every queue capacity.              *)
(***************************************************************************)
EXTENDS ProfileSupervisor, EndpointSelectorProofs, InstabilityDetectorProofs

-----------------------------------------------------------------------------
(* The pieces of the task's steps.                                          *)

\* The state machine stays in its states.
LEMMA StepType ==
    ASSUME NEW s \in ProfileStates, NEW e
    PROVE  Step(s, e) \in ProfileStates
  BY DEF Step, ProfileStates

\* What the callers know once the task is gone: nobody waits any more.
LEMMA RepliesAtEndFacts ==
    ASSUME NEW r \in [Clients -> Replies]
    PROVE  /\ RepliesAtEnd(r) \in [Clients -> Replies]
           /\ \A c \in Clients : RepliesAtEnd(r)[c] \notin {"waiting", "joining"}
  BY DEF RepliesAtEnd, Replies

\* The head of the control channel is a request of one of the callers.
LEMMA HeadIsMessage ==
    ASSUME NEW q \in Seq(Messages), q # << >>
    PROVE  /\ Head(q) \in Messages
           /\ Head(q).from \in Clients
           /\ Head(q).to \in Endpoints \cup {NoPin, UnknownPin, MalformedKey}
           /\ Tail(q) \in Seq(Messages)
<1>1. Head(q) \in Messages /\ Tail(q) \in Seq(Messages)
  BY HeadTailProperties
<1> QED
  BY <1>1 DEF Messages

\* next_backoff and the sleep after it, or the end of the task.
LEMMA BackOffFacts ==
    ASSUME TypeOK, BackOff
    PROVE  /\ upSince' = NoInstant
           /\ attempt' \in 0..U32Max
           /\ wake' \in Nat
           /\ queue' \in Seq(Messages)
           /\ rep' \in [Clients -> Replies]
           /\ \/ pc' = "sleeping" /\ ~CounterOverflows /\ UNCHANGED <<queue, rep>>
              \/ /\ pc' = "aborted" /\ CounterOverflows /\ queue' = << >>
                 /\ \A c \in Clients : rep'[c] \notin {"waiting", "joining"}
           /\ \/ attempt' = 0
              \/ attempt' = 1
              \/ attempt' = attempt
              \/ attempt' = attempt + 1
<1>1. AttemptAfterReset \in 0..U32Max /\ AttemptAfterReset \in {0, attempt}
  BY U32Assumption DEF TypeOK, AttemptAfterReset
<1>2. CASE ~CounterOverflows
  <2>1. wake' \in Nat
    BY <1>2 DEF BackOff, NextDelays
  <2> QED
    BY <1>1, <1>2, <2>1, U32Assumption DEF BackOff, TypeOK, SatInc
<1>3. CASE CounterOverflows
  <2>1. queue' = << >> /\ queue' \in Seq(Messages)
    BY <1>3, EmptySeq DEF BackOff
  <2>2. rep' = RepliesAtEnd(rep)
    BY <1>3 DEF BackOff
  <2>3. /\ rep' \in [Clients -> Replies]
        /\ \A c \in Clients : rep'[c] \notin {"waiting", "joining"}
    BY <2>2, RepliesAtEndFacts DEF TypeOK
  <2> QED
    BY <1>1, <1>3, <2>1, <2>3 DEF BackOff
<1> QED
  BY <1>2, <1>3

\* handle_session_failure keeps the selector, the detector and the guard in
\* their types.
LEMMA ChargeFacts ==
    ASSUME TypeOK, NEW e \in Endpoints, ChargeFailure(e)
    PROVE  /\ sel' \in Selectors
           /\ det' \in Detectors
           /\ lastAction' \in {NoInstant} \cup 0..ActionMinInterval
           /\ sel'.manual = sel.manual
<1>1. sel' \in Selectors
  BY SelectorTypes DEF TypeOK, ChargeFailure
<1>2. det' \in Detectors
  BY RecordDisconnectType DEF TypeOK, ChargeFailure
<1>3. GuardAfterTrip \in {NoInstant} \cup 0..ActionMinInterval
  BY SupervisorAssumption DEF GuardAfterTrip, TypeOK
<1>4. sel'.manual = sel.manual
  BY DEF ChargeFailure, RecordFailure, TypeOK, Selectors
<1> QED
  BY <1>1, <1>2, <1>3, <1>4 DEF ChargeFailure, TypeOK

\* apply_manual_override stores nothing but an override.
LEMMA OverrideFacts ==
    ASSUME TypeOK, NEW to \in Endpoints \cup {NoPin, UnknownPin, MalformedKey}
    PROVE  SelectorAfterOverride(to) \in Selectors /\ OverrideReply(to) \in {"ok", "err"}
<1>1. CASE to = MalformedKey
  BY <1>1 DEF SelectorAfterOverride, OverrideReply, TypeOK
<1>2. CASE to # MalformedKey
  <2>1. SetManual(sel, to) \in Selectors
    BY <1>2, SelectorAssumption DEF SetManual, TypeOK, Selectors
  <2> QED
    BY <1>2, <2>1 DEF SelectorAfterOverride, OverrideReply
<1> QED
  BY <1>1, <1>2

\* What the end of the task leaves behind.
LEMMA EndTaskFacts ==
    ASSUME NEW s \in ProfileStates, NEW r \in [Clients -> Replies], EndTask(s, r)
    PROVE  /\ pc' = "done"
           /\ sm' \in ProfileStates
           /\ queue' = << >>
           /\ queue' \in Seq(Messages)
           /\ rep' \in [Clients -> Replies]
           /\ \A c \in Clients : rep'[c] \notin {"waiting", "joining"}
           /\ wake' \in Nat
           /\ fwd' \in [Forwards -> SlotStates]
           /\ target' = NoEndpoint /\ row' = NoEndpoint
           /\ degraded' = FALSE /\ reopen' = FALSE
           /\ decision' = "none" /\ pending' = NoClient
<1>1. Step(Step(s, "Stop"), "Stopped") \in ProfileStates
  BY StepType
<1>2. fwd' \in [Forwards -> SlotStates]
  BY DEF EndTask, LeaveActive, NoForwards, SlotStates
<1> QED
  BY <1>1, <1>2, RepliesAtEndFacts, EmptySeq DEF EndTask, LeaveActive

\* A request that is served without a session.
LEMMA ServeWithoutSessionType ==
    ASSUME TypeOK, ServeWithoutSession
    PROVE  TypeOK'
<1> DEFINE m == Head(queue)
<1>1. /\ m.from \in Clients
      /\ m.to \in Endpoints \cup {NoPin, UnknownPin, MalformedKey}
      /\ Tail(queue) \in Seq(Messages)
  BY HeadIsMessage DEF ServeWithoutSession, TypeOK
<1>2. CASE m.op \in {"Shutdown", "Drain"}
  <2> DEFINE r == IF m.op = "Drain" THEN [rep EXCEPT ![m.from] = "ok"] ELSE rep
  <2>1. r \in [Clients -> Replies]
    BY DEF TypeOK, Replies
  <2>2. EndTask(sm, r) /\ UNCHANGED history
    BY <1>2 DEF ServeWithoutSession
  <2> HIDE DEF r
  <2> QED
    BY <2>1, <2>2, EndTaskFacts DEF TypeOK, history, Awaits, Decisions
<1>3. CASE m.op \in {"Failover", "CloseSession", "OpenBench"}
  <2>1. sel' \in Selectors
    BY <1>1, <1>3, OverrideFacts DEF ServeWithoutSession, TypeOK
  <2>2. rep' \in [Clients -> Replies]
    <3>1. OverrideReply(m.to) \in Replies
      BY <1>1, OverrideFacts DEF Replies
    <3> QED
      BY <1>3, <3>1 DEF ServeWithoutSession, TypeOK, Replies
  <2>3. queue' \in Seq(Messages)
    BY <1>1, <1>3 DEF ServeWithoutSession
  <2> QED
    BY <1>3, <2>1, <2>2, <2>3 DEF ServeWithoutSession, TypeOK, Awaits
<1> QED
  BY <1>2, <1>3 DEF ServeWithoutSession

\* The state in which spawn leaves the profile has the types.
LEMMA TypeInit == Init => TypeOK
<1> SUFFICES ASSUME Init PROVE TypeOK
  OBVIOUS
<1>1. sel \in Selectors /\ det \in Detectors /\ queue \in Seq(Messages)
  BY NewSelectorType, NewDetectorType, EmptySeq DEF Init
<1>2. fwd \in [Forwards -> SlotStates] /\ rep \in [Clients -> Replies]
  BY DEF Init, NoForwards, SlotStates, Replies
<1>3. pc \in Awaits /\ sm \in ProfileStates /\ decision \in Decisions
  BY DEF Init, Awaits, ProfileStates, InitialState, Decisions
<1>4. attempt \in 0..U32Max
  BY U32Assumption DEF Init
<1> QED
  BY <1>1, <1>2, <1>3, <1>4 DEF Init, TypeOK

\* Every step keeps the types.  An endpoint is charged, or cleared, only where
\* the task has a target.
LEMMA TypeStep ==
    ASSUME TypeOK, SessionFitsPlace, [Next]_vars
    PROVE  TypeOK'
<1> USE DEF history, session
<1>1. CASE UNCHANGED vars
  BY <1>1 DEF vars, TypeOK
<1>2. CASE Start
  BY <1>2, StepType DEF Start, TypeOK, Awaits
<1>3. CASE ServeAtLoopHead \/ ServeWhileConnecting \/ ServeWhileSleeping
  BY <1>3, ServeWithoutSessionType DEF ServeAtLoopHead, ServeWhileConnecting, ServeWhileSleeping
<1>4. CASE GiveUp
  <2>1. EndTask(sm, rep)
    BY <1>4 DEF GiveUp
  <2> QED
    BY <1>4, <2>1, EndTaskFacts DEF GiveUp, TypeOK, Awaits, Decisions
<1>5. CASE BeginConnect
  <2>1. sm' \in ProfileStates
    BY <1>5, StepType DEF BeginConnect, EnterResolving, TypeOK
  <2>2. target' \in Endpoints
    BY <1>5, PickPrefersHealthy DEF BeginConnect, TypeOK
  <2> QED
    BY <1>5, <2>1, <2>2 DEF BeginConnect, TypeOK, Awaits
<1>6. CASE NoEndpointToPick
  <2>1. sm' \in ProfileStates
    BY <1>6, StepType DEF NoEndpointToPick, EnterResolving, TypeOK
  <2>2. BackOff
    BY <1>6 DEF NoEndpointToPick
  <2> QED
    BY <1>6, <2>1, <2>2, BackOffFacts DEF NoEndpointToPick, TypeOK, Awaits
<1>7. CASE Connected
  <2>1. target \in Endpoints
    BY <1>7 DEF Connected, SessionFitsPlace
  <2>2. sel' \in Selectors
    BY <1>7, <2>1, SelectorTypes DEF Connected, TypeOK
  <2>3. sm' \in ProfileStates
    BY <1>7, StepType DEF Connected, TypeOK
  <2> QED
    BY <1>7, <2>1, <2>2, <2>3 DEF Connected, TypeOK, Awaits
<1>8. CASE ConnectFails
  <2>1. target \in Endpoints /\ ChargeFailure(target) /\ BackOff
    BY <1>8 DEF ConnectFails, SessionFitsPlace
  <2>2. sm' \in ProfileStates
    BY <1>8, StepType DEF ConnectFails, StateAfterFailure, StateAfterTrip, TypeOK
  <2> QED
    BY <1>8, <2>1, <2>2, BackOffFacts, ChargeFacts DEF ConnectFails, TypeOK, Awaits
<1>9. CASE ConnectRefused \/ AuthRejected
  <2>1. target \in Endpoints /\ ChargeFailure(target)
    BY <1>9 DEF ConnectRefused, AuthRejected, SessionFitsPlace
  <2>2. PICK s \in ProfileStates : EndTask(s, rep)
    <3>1. /\ StateAfterFailure(Step(sm, "ConnectFail")) \in ProfileStates
          /\ StateAfterFailure(Step(sm, "AuthFail")) \in ProfileStates
      BY StepType DEF StateAfterFailure, StateAfterTrip, TypeOK
    <3> QED
      BY <1>9, <3>1 DEF ConnectRefused, AuthRejected
  <2>3. UNCHANGED <<attempt, upSince, current>>
    BY <1>9 DEF ConnectRefused, AuthRejected
  <2> QED
    BY <2>1, <2>2, <2>3, ChargeFacts, EndTaskFacts DEF TypeOK, Awaits, Decisions
<1>10. CASE ForwardsOpened
  <2>1. sm' \in ProfileStates
    BY <1>10, StepType DEF ForwardsOpened, TypeOK
  <2>2. fwd' \in [Forwards -> SlotStates]
    BY <1>10 DEF ForwardsOpened, SlotStates
  <2> QED
    BY <1>10, <2>1, <2>2, SupervisorAssumption DEF ForwardsOpened, TypeOK, Awaits
<1>11. CASE ForwardsRefused
  BY <1>11, StepType DEF ForwardsRefused, TypeOK, Awaits
<1>12. CASE Abandoned
  <2>1. target \in Endpoints /\ ChargeFailure(target) /\ BackOff
    BY <1>12 DEF Abandoned, SessionFitsPlace
  <2>2. sm' \in ProfileStates
    BY <1>12, StepType DEF Abandoned, StateAfterFailure, StateAfterTrip, TypeOK
  <2> QED
    BY <1>12, <2>1, <2>2, BackOffFacts, ChargeFacts DEF Abandoned, TypeOK, Awaits
<1>13. CASE SleepEnds
  BY <1>13 DEF SleepEnds, TypeOK, Awaits
<1>14. CASE ServeBench
  <2>1. Head(queue).from \in Clients /\ queue' \in Seq(Messages)
    BY <1>14, HeadIsMessage DEF ServeBench, TypeOK
  <2>2. rep' \in [Clients -> Replies]
    BY <1>14, <2>1 DEF ServeBench, TypeOK, Replies
  <2> QED
    BY <1>14, <2>1, <2>2 DEF ServeBench, TypeOK
<1> DEFINE Broken ==
       /\ pc' \in Awaits
       /\ decision' \in Decisions
       /\ pending' \in Clients \cup {NoClient}
       /\ fwd' \in [Forwards -> SlotStates]
       /\ degraded' \in BOOLEAN
       /\ reopen' \in BOOLEAN
<1>15. ASSUME NEW d \in Decisions, NEW c \in Clients \cup {NoClient}, Break(d, c) PROVE Broken
  BY <1>15 DEF Break, LeaveActive, NoForwards, SlotStates, Awaits
<1> HIDE DEF Broken
<1>16. CASE ServeExit
  <2>1. Head(queue).from \in Clients /\ queue' \in Seq(Messages)
    BY <1>16, HeadIsMessage DEF ServeExit, TypeOK
  <2>2. Broken
    BY <1>15, <1>16, <2>1 DEF ServeExit, Decisions
  <2> QED
    BY <1>16, <2>1, <2>2 DEF ServeExit, TypeOK, Broken
<1>17. CASE ServeFailover
  <2>1. /\ Head(queue).from \in Clients /\ queue' \in Seq(Messages)
        /\ Head(queue).to \in Endpoints \cup {NoPin, UnknownPin, MalformedKey}
    BY <1>17, HeadIsMessage DEF ServeFailover, TypeOK
  <2>2. Broken
    BY <1>15, <1>17, <2>1 DEF ServeFailover, Decisions
  <2>3. sel' \in Selectors /\ OverrideReply(Head(queue).to) \in {"ok", "err"}
    BY <1>17, <2>1, OverrideFacts DEF ServeFailover
  <2>4. rep' \in [Clients -> Replies]
    BY <1>17, <2>1, <2>3 DEF ServeFailover, TypeOK, Replies
  <2>5. sm' \in ProfileStates
    BY <1>17, StepType DEF ServeFailover, TypeOK
  <2> QED
    BY <1>17, <2>1, <2>2, <2>3, <2>4, <2>5 DEF ServeFailover, TypeOK, Broken
<1>18. CASE ServeClose
  <2>1. Head(queue).from \in Clients /\ queue' \in Seq(Messages)
    BY <1>18, HeadIsMessage DEF ServeClose, TypeOK
  <2>2. Broken
    BY <1>15, <1>18, <2>1 DEF ServeClose, Decisions
  <2>3. sm' \in ProfileStates
    BY <1>18, StepType DEF ServeClose, TypeOK
  <2> QED
    BY <1>18, <2>1, <2>2, <2>3 DEF ServeClose, TypeOK, Broken
<1>19. ASSUME NEW isSlow \in BOOLEAN, ProbeSucceeds(isSlow) PROVE TypeOK'
  <2>1. det' \in Detectors
    BY <1>19, RecordProbeType, TickHealthyType DEF ProbeSucceeds, TypeOK
  <2>2. sm' \in ProfileStates
    BY <1>19, StepType DEF ProbeSucceeds, StateAfterTrip, TypeOK
  <2> QED
    BY <1>19, <2>1, <2>2 DEF ProbeSucceeds, TypeOK
<1>20. GuardAfterTrip \in {NoInstant} \cup 0..ActionMinInterval
  BY SupervisorAssumption DEF GuardAfterTrip, TypeOK
<1>21. ASSUME NEW isSlow \in BOOLEAN, ProbeReplaces(isSlow) PROVE TypeOK'
  <2>1. det' \in Detectors
    BY <1>21, RecordProbeType DEF ProbeReplaces, TypeOK
  <2>2. sm' \in ProfileStates
    BY <1>21, StepType DEF ProbeReplaces, StateAfterTrip, TypeOK
  <2>3. Broken
    BY <1>15, <1>21 DEF ProbeReplaces, Decisions
  <2> QED
    BY <1>20, <1>21, <2>1, <2>2, <2>3 DEF ProbeReplaces, TypeOK, Broken
<1>22. CASE ProbeFails
  <2>1. det' \in Detectors
    BY <1>22, RecordMissType DEF ProbeFails, TypeOK
  <2>2. sm' \in ProfileStates
    BY <1>22, StepType DEF ProbeFails, StateAfterTrip, TypeOK
  <2>3. Broken
    BY <1>15, <1>22 DEF ProbeFails, Decisions
  <2> QED
    BY <1>20, <1>22, <2>1, <2>2, <2>3 DEF ProbeFails, TypeOK, Broken
<1>23. CASE NoticeForward
  BY <1>23, StepType DEF NoticeForward, TypeOK
<1>24. ASSUME NEW up \in SUBSET Forwards, ReopenForwards(up) PROVE TypeOK'
  <2>1. sm' \in ProfileStates
    BY <1>24, StepType DEF ReopenForwards, TypeOK
  <2>2. fwd' \in [Forwards -> SlotStates]
    BY <1>24 DEF ReopenForwards, TypeOK, SlotStates
  <2>3. reopen' \in BOOLEAN /\ degraded' \in BOOLEAN
    BY <1>24 DEF ReopenForwards, ReopenAgain, TypeOK
  <2> QED
    BY <1>24, <2>1, <2>2, <2>3 DEF ReopenForwards, TypeOK
<1>25. CASE ClosedForExit
  <2>1. PICK r \in [Clients -> Replies] : EndTask(sm, r)
    <3>1. /\ [rep EXCEPT ![pending] = "ok"] \in [Clients -> Replies]
          /\ rep \in [Clients -> Replies]
      BY DEF TypeOK, Replies
    <3> QED
      BY <1>25, <3>1 DEF ClosedForExit
  <2> QED
    BY <1>25, <2>1, EndTaskFacts DEF ClosedForExit, TypeOK, Awaits, Decisions
<1>26. CASE ClosedForRetry
  <2>1. current \in Endpoints
    BY <1>26 DEF ClosedForRetry, SessionFitsPlace, OwnsSession
  <2>2. sel' \in Selectors
    BY <1>26, <2>1, SelectorTypes DEF ClosedForRetry, TypeOK
  <2>3. rep' \in [Clients -> Replies]
    BY <1>26 DEF ClosedForRetry, TypeOK, Replies
  <2> QED
    BY <1>26, <2>2, <2>3 DEF ClosedForRetry, EndSession, TypeOK, Awaits, Decisions
<1>27. CASE ClosedAfterLoss
  <2>1. current \in Endpoints /\ ChargeFailure(current) /\ BackOff
    BY <1>27 DEF ClosedAfterLoss, SessionFitsPlace, OwnsSession
  <2>2. sm' \in ProfileStates
    BY <1>27, StepType DEF ClosedAfterLoss, StateAfterFailure, StateAfterTrip, TypeOK
  <2> QED
    BY <1>27, <2>1, <2>2, BackOffFacts, ChargeFacts
       DEF ClosedAfterLoss, EndSession, TypeOK, Awaits, Decisions
<1>28. ASSUME NEW c \in Clients, Request(c) PROVE TypeOK'
  <2>1. queue' \in Seq(Messages)
    <3>1. PICK q \in Requests : \/ queue' = Append(queue, [op |-> q.op, to |-> q.to, from |-> c])
                                \/ queue' = queue
      BY <1>28 DEF Request
    <3>2. [op |-> q.op, to |-> q.to, from |-> c] \in Messages
      BY SupervisorAssumption DEF AllRequests, Messages
    <3> QED
      BY <3>1, <3>2, AppendProperties DEF TypeOK
  <2>2. rep' \in [Clients -> Replies]
    <3>1. PICK v \in Replies : rep' = [rep EXCEPT ![c] = v]
      BY <1>28 DEF Request, Replies
    <3> QED
      BY <3>1 DEF TypeOK
  <2> QED
    BY <1>28, <2>1, <2>2 DEF Request, TypeOK
<1>29. CASE DropHandle
  <2>1. fwd' \in [Forwards -> SlotStates]
    BY <1>29 DEF DropHandle, LeaveActive, NoForwards, SlotStates
  <2> QED
    BY <1>29, <2>1, EmptySeq DEF DropHandle, LeaveActive, TypeOK, Awaits
<1>30. ASSUME NEW f \in Forwards, ForwardActivates(f) \/ ForwardFails(f) PROVE TypeOK'
  BY <1>30 DEF ForwardActivates, ForwardFails, TypeOK, SlotStates
<1>31. CASE Tick
  <2>1. sel' \in Selectors
    BY <1>31, SelectorTickType DEF Tick, TypeOK
  <2>2. det' \in Detectors
    BY <1>31, DetectorTickType DEF Tick, TypeOK
  <2>3. /\ upSince' \in {NoInstant} \cup 0..ResetAfter
        /\ lastAction' \in {NoInstant} \cup 0..ActionMinInterval
    BY <1>31, OlderType, SupervisorAssumption DEF Tick, TypeOK
  <2> QED
    BY <1>31, <2>1, <2>2, <2>3 DEF Tick, TypeOK
<1> QED
  BY <1>1, <1>2, <1>3, <1>4, <1>5, <1>6, <1>7, <1>8, <1>9, <1>10, <1>11, <1>12, <1>13,
     <1>14, <1>16, <1>17, <1>18, <1>19, <1>21, <1>22, <1>23, <1>24, <1>25, <1>26, <1>27,
     <1>28, <1>29, <1>30, <1>31
     DEF Next, Progress, Fault, ServeAny, LoopStep, TeardownStep

-----------------------------------------------------------------------------
(* The state machine, fired from the states the task's places admit.        *)

Up == {"Active", "Degraded", "Unstable"}
Between == {"Resolving", "Connecting", "Reconnecting"}

\* The way into a session, and what a failed attempt leaves.
LEMMA SetupSteps ==
    /\ Step("Idle", "Start") = "Resolving"
    /\ \A s \in Between : Step(EnterResolving(s), "ResolveOk") = "Connecting"
    /\ \A s \in Between : Step(EnterResolving(s), "FailoverPick") \in Between
    /\ Step(Step("Connecting", "ConnectOk"), "AuthOk") = "EstablishingForwards"
    /\ Step("EstablishingForwards", "ForwardsUp") = "Active"
    /\ Step("EstablishingForwards", "SessionLost") = "Reconnecting"
    /\ StateAfterFailure(Step("Connecting", "ConnectFail")) = "Reconnecting"
    /\ StateAfterFailure(Step("Connecting", "AuthFail")) = "Connecting"
    /\ StateAfterFailure("Reconnecting") = "Reconnecting"
<1>1. \A s \in Between : EnterResolving(s) \in {"Resolving", "Connecting"}
  BY DEF EnterResolving, Step, Between
<1>2. \A s \in {"Resolving", "Connecting"} :
         Step(s, "ResolveOk") = "Connecting" /\ Step(s, "FailoverPick") = s
  BY DEF Step
<1>3. Step("Connecting", "ConnectOk") = "Authenticating"
  BY DEF Step
<1>4. Step("Authenticating", "AuthOk") = "EstablishingForwards"
  BY DEF Step
<1>5. Step("Connecting", "ConnectFail") = "Reconnecting" /\ Step("Connecting", "AuthFail") = "Connecting"
  BY DEF Step
<1>6. \A s \in {"Reconnecting", "Connecting"} : Step(s, "InstabilityHit") = s
  BY DEF Step
<1>7. \A s \in {"Reconnecting", "Connecting"} : StateAfterFailure(s) = s
  BY <1>6 DEF StateAfterFailure, StateAfterTrip
<1>8. /\ Step("Idle", "Start") = "Resolving"
      /\ Step("EstablishingForwards", "ForwardsUp") = "Active"
      /\ Step("EstablishingForwards", "SessionLost") = "Reconnecting"
  BY DEF Step, SessionUpStates
<1> QED
  BY <1>1, <1>2, <1>3, <1>4, <1>5, <1>7, <1>8 DEF Between

\* An active session stays active until it is lost.
LEMMA ActiveSteps ==
    ASSUME NEW s \in Up
    PROVE  /\ Step(s, "SessionLost") = "Reconnecting"
           /\ Step(s, "ForwardDown") \in Up
           /\ Step(s, "ForwardsUp") \in Up
           /\ Step(s, "InstabilityClear") \in Up
           /\ StateAfterTrip(s) \in Up
<1>1. Step(s, "SessionLost") = "Reconnecting"
  BY DEF Step, Up, SessionUpStates
<1>2. \A e \in {"ForwardDown", "ForwardsUp", "InstabilityClear", "InstabilityHit"} : Step(s, e) \in Up
  BY DEF Step, Up
<1> QED
  BY <1>1, <1>2 DEF StateAfterTrip

\* A task that ends shows Stopped.
LEMMA EndSteps ==
    ASSUME NEW s \in Up \cup Between
    PROVE  Step(Step(s, "Stop"), "Stopped") = "Stopped"
<1>1. Step(s, "Stop") = "Stopping"
  BY DEF Step, Up, Between
<1>2. Step("Stopping", "Stopped") = "Stopped"
  BY DEF Step
<1> QED
  BY <1>1, <1>2

\* The end of the task from any place that reaches it.
LEMMA EndTaskFits ==
    ASSUME NEW s \in Up \cup Between, NEW r, EndTask(s, r)
    PROVE  StateFitsPlace' /\ SessionFitsPlace'
<1>1. pc' = "done" /\ sm' = "Stopped" /\ row' = NoEndpoint
  BY EndSteps DEF EndTask
<1> QED
  BY <1>1 DEF StateFitsPlace, SessionFitsPlace, OwnsSession

\* Back at the loop, or asleep, or dead of an overflow, without a session.
LEMMA BetweenFits ==
    ASSUME pc' \in {"loop", "sleeping", "aborted"}, sm' \in Between,
           pc' # "aborted" => row' = NoEndpoint
    PROVE  StateFitsPlace' /\ SessionFitsPlace'
  BY DEF StateFitsPlace, SessionFitsPlace, OwnsSession, Between, SessionUpStates

\* An active session goes on.
LEMMA ActiveFits ==
    ASSUME SessionFitsPlace, pc = "active", pc' = "active", sm' \in Up,
           UNCHANGED <<target, current, row>>
    PROVE  StateFitsPlace' /\ SessionFitsPlace'
  BY DEF StateFitsPlace, SessionFitsPlace, OwnsSession, Up

\* An active session is about to be closed.
LEMMA BreakFits ==
    ASSUME SessionFitsPlace, pc = "active", UNCHANGED <<target, current, row>>,
           NEW d, NEW c, Break(d, c),
           IF d \in {"exit", "drain"} THEN sm' \in Up ELSE sm' = "Reconnecting"
    PROVE  StateFitsPlace' /\ SessionFitsPlace'
  BY DEF StateFitsPlace, SessionFitsPlace, OwnsSession, Up, Break

\* Every step leaves the task in a place that suits its state and its session.
LEMMA PlaceStep ==
    ASSUME TypeOK, StateFitsPlace, SessionFitsPlace, [Next]_vars
    PROVE  StateFitsPlace' /\ SessionFitsPlace'
<1> USE DEF history, session
<1> DEFINE Fits == StateFitsPlace' /\ SessionFitsPlace'
<1>1. CASE UNCHANGED vars
  BY <1>1 DEF vars, StateFitsPlace, SessionFitsPlace, OwnsSession
<1>2. CASE Start
  BY <1>2, SetupSteps, BetweenFits DEF Start, StateFitsPlace, SessionFitsPlace, Between
<1>3. CASE ServeAtLoopHead \/ ServeWhileConnecting \/ ServeWhileSleeping
  <2>1. sm \in Between /\ row = NoEndpoint /\ ServeWithoutSession
    BY <1>3 DEF ServeAtLoopHead, ServeWhileConnecting, ServeWhileSleeping,
                StateFitsPlace, SessionFitsPlace, Between
  <2>2. CASE \E r : EndTask(sm, r)
    BY <2>1, <2>2, EndTaskFits
  <2>3. CASE pc' = "loop" /\ UNCHANGED <<sm, row>>
    BY <2>1, <2>3, BetweenFits
  <2> QED
    BY <2>1, <2>2, <2>3 DEF ServeWithoutSession
<1>4. CASE GiveUp
  <2>1. sm \in Between /\ EndTask(sm, rep)
    BY <1>4 DEF GiveUp, AtLoopHead, StateFitsPlace, Between
  <2> QED
    BY <2>1, EndTaskFits
<1>5. CASE BeginConnect
  <2>1. sm \in Between /\ row = NoEndpoint
    BY <1>5 DEF BeginConnect, AtLoopHead, StateFitsPlace, SessionFitsPlace, Between
  <2>2. sm' = "Connecting"
    BY <1>5, <2>1, SetupSteps DEF BeginConnect
  <2>3. target' \in Endpoints
    BY <1>5, PickPrefersHealthy DEF BeginConnect, TypeOK
  <2> QED
    BY <1>5, <2>1, <2>2, <2>3 DEF BeginConnect, StateFitsPlace, SessionFitsPlace, OwnsSession
<1>6. CASE NoEndpointToPick
  <2>1. sm \in Between /\ row' = NoEndpoint
    BY <1>6 DEF NoEndpointToPick, AtLoopHead, StateFitsPlace, SessionFitsPlace, Between
  <2>2. sm' \in Between
    BY <1>6, <2>1, SetupSteps DEF NoEndpointToPick
  <2>3. pc' \in {"sleeping", "aborted"}
    BY <1>6, BackOffFacts DEF NoEndpointToPick
  <2> QED
    BY <2>1, <2>2, <2>3, BetweenFits
<1>7. CASE Connected
  <2>1. sm' = "EstablishingForwards"
    BY <1>7, SetupSteps DEF Connected, StateFitsPlace
  <2> QED
    BY <1>7, <2>1 DEF Connected, StateFitsPlace, SessionFitsPlace, OwnsSession
<1>8. CASE ConnectFails
  <2>1. sm' = "Reconnecting" /\ row' = NoEndpoint
    BY <1>8, SetupSteps DEF ConnectFails, StateFitsPlace, SessionFitsPlace
  <2>2. pc' \in {"sleeping", "aborted"}
    BY <1>8, BackOffFacts DEF ConnectFails
  <2> QED
    BY <2>1, <2>2, BetweenFits DEF Between
<1>9. CASE ConnectRefused \/ AuthRejected
  <2>1. \E s \in {"Reconnecting", "Connecting"} : EndTask(s, rep)
    BY <1>9, SetupSteps DEF ConnectRefused, AuthRejected, StateFitsPlace
  <2> QED
    BY <2>1, EndTaskFits DEF Between
<1>10. CASE ForwardsOpened
  <2>1. sm' = "Active"
    BY <1>10, SetupSteps DEF ForwardsOpened, StateFitsPlace
  <2> QED
    BY <1>10, <2>1 DEF ForwardsOpened, StateFitsPlace, SessionFitsPlace, OwnsSession
<1>11. CASE ForwardsRefused
  <2>1. sm' = "Reconnecting"
    BY <1>11, SetupSteps DEF ForwardsRefused, StateFitsPlace
  <2> QED
    BY <1>11, <2>1 DEF ForwardsRefused, StateFitsPlace, SessionFitsPlace, OwnsSession
<1>12. CASE Abandoned
  <2>1. sm' = "Reconnecting" /\ row' = NoEndpoint
    BY <1>12, SetupSteps DEF Abandoned, StateFitsPlace, SessionFitsPlace
  <2>2. pc' \in {"sleeping", "aborted"}
    BY <1>12, BackOffFacts DEF Abandoned
  <2> QED
    BY <2>1, <2>2, BetweenFits DEF Between
<1>13. CASE SleepEnds
  BY <1>13, BetweenFits DEF SleepEnds, StateFitsPlace, SessionFitsPlace, Between
<1>14. CASE ServeBench
  BY <1>14, ActiveFits DEF ServeBench, StateFitsPlace, Up
<1>15. CASE ServeExit
  BY <1>15, BreakFits DEF ServeExit, StateFitsPlace, Up
<1>16. CASE ServeFailover
  BY <1>16, BreakFits, ActiveSteps DEF ServeFailover, StateFitsPlace, Up
<1>17. CASE ServeClose
  BY <1>17, BreakFits, ActiveSteps DEF ServeClose, StateFitsPlace, Up
<1>18. ASSUME NEW isSlow \in BOOLEAN, ProbeSucceeds(isSlow) PROVE Fits
  <2>1. pc = "active" /\ sm \in Up /\ UNCHANGED <<pc, target, current, row>>
    BY <1>18 DEF ProbeSucceeds, StateFitsPlace, Up
  <2>2. sm' \in Up
    BY <1>18, <2>1, ActiveSteps DEF ProbeSucceeds
  <2> QED
    BY <2>1, <2>2, ActiveFits
<1>19. ASSUME NEW isSlow \in BOOLEAN, ProbeReplaces(isSlow) PROVE Fits
  <2>1. sm \in Up
    BY <1>19 DEF ProbeReplaces, StateFitsPlace, Up
  <2>2. sm' = "Reconnecting"
    BY <1>19, <2>1, ActiveSteps DEF ProbeReplaces
  <2> QED
    BY <1>19, <2>2, BreakFits DEF ProbeReplaces
<1>20. CASE ProbeFails
  <2>1. sm \in Up
    BY <1>20 DEF ProbeFails, StateFitsPlace, Up
  <2>2. sm' = "Reconnecting"
    BY <1>20, <2>1, ActiveSteps DEF ProbeFails
  <2> QED
    BY <1>20, <2>2, BreakFits DEF ProbeFails
<1>21. CASE NoticeForward
  <2>1. sm \in Up
    BY <1>21 DEF NoticeForward, StateFitsPlace, Up
  <2> QED
    BY <1>21, <2>1, ActiveSteps, ActiveFits DEF NoticeForward
<1>22. ASSUME NEW up \in SUBSET Forwards, ReopenForwards(up) PROVE Fits
  <2>1. sm \in Up
    BY <1>22 DEF ReopenForwards, StateFitsPlace, Up
  <2>2. sm' \in Up
    BY <1>22, <2>1, ActiveSteps DEF ReopenForwards
  <2> QED
    BY <1>22, <2>2, ActiveFits DEF ReopenForwards
<1>23. CASE ClosedForExit
  <2>1. sm \in Up /\ \E r : EndTask(sm, r)
    BY <1>23 DEF ClosedForExit, StateFitsPlace, Up
  <2> QED
    BY <2>1, EndTaskFits
<1>24. CASE ClosedForRetry
  <2>1. sm' = "Reconnecting"
    BY <1>24 DEF ClosedForRetry, StateFitsPlace
  <2> QED
    BY <1>24, <2>1, BetweenFits DEF ClosedForRetry, EndSession, Between
<1>25. CASE ClosedAfterLoss
  <2>1. sm' = "Reconnecting"
    BY <1>25, SetupSteps DEF ClosedAfterLoss, StateFitsPlace
  <2>2. \/ pc' = "sleeping" /\ ~CounterOverflows
        \/ pc' = "aborted" /\ CounterOverflows
    BY <1>25, BackOffFacts DEF ClosedAfterLoss
  <2>3. pc' # "aborted" => row' = NoEndpoint
    BY <1>25, <2>2 DEF ClosedAfterLoss, EndSession
  <2> QED
    BY <2>1, <2>2, <2>3, BetweenFits DEF Between
<1>26. ASSUME NEW c \in Clients, Request(c) PROVE Fits
  BY <1>26 DEF Request, StateFitsPlace, SessionFitsPlace, OwnsSession
<1>27. CASE DropHandle
  <2>1. /\ pc' = "aborted" /\ sm # "Stopped"
        /\ UNCHANGED <<sm, row>>
        /\ sm \in SessionUpStates => row \in Endpoints
    BY <1>27 DEF DropHandle, Ended, TypeOK, Awaits, StateFitsPlace, SessionFitsPlace,
                OwnsSession, SessionUpStates
  <2> QED
    BY <2>1, SupervisorAssumption DEF StateFitsPlace, SessionFitsPlace, OwnsSession
<1>28. ASSUME NEW f \in Forwards, ForwardActivates(f) \/ ForwardFails(f) PROVE Fits
  <2>1. pc = "active" /\ sm' \in Up /\ UNCHANGED <<pc, target, current, row>>
    BY <1>28 DEF ForwardActivates, ForwardFails, StateFitsPlace, Up
  <2> QED
    BY <2>1, ActiveFits
<1>29. CASE Tick
  BY <1>29 DEF Tick, StateFitsPlace, SessionFitsPlace, OwnsSession
<1> QED
  BY <1>1, <1>2, <1>3, <1>4, <1>5, <1>6, <1>7, <1>8, <1>9, <1>10, <1>11, <1>12, <1>13,
     <1>14, <1>15, <1>16, <1>17, <1>18, <1>19, <1>20, <1>21, <1>22, <1>23, <1>24, <1>25,
     <1>26, <1>27, <1>28, <1>29
     DEF Next, Progress, Fault, ServeAny, LoopStep, TeardownStep

-----------------------------------------------------------------------------
(* The callers and their replies.                                           *)

\* Serving the head of the channel leaves every other request in it.
LEMMA TailKeepsRequests ==
    ASSUME NEW q \in Seq(Messages), q # << >>, NEW c
    PROVE  /\ HasAsked(q, c) =>
                  HasAsked(Tail(q), c) \/ (Head(q).from = c /\ Head(q).op # "Shutdown")
           /\ HasStopped(q, c) =>
                  HasStopped(Tail(q), c) \/ (Head(q).from = c /\ Head(q).op = "Shutdown")
<1>1. /\ Len(q) \in Nat /\ DOMAIN q = 1..Len(q)
      /\ Len(Tail(q)) = Len(q) - 1 /\ DOMAIN Tail(q) = 1..Len(Tail(q))
      /\ \A j \in 1..Len(Tail(q)) : Tail(q)[j] = q[j + 1]
  BY HeadTailProperties, LenProperties
<1>2. Head(q) = q[1]
  BY HeadTailProperties
<1>3. \A i \in DOMAIN q : i = 1 \/ (i - 1 \in DOMAIN Tail(q) /\ Tail(q)[i - 1] = q[i])
  BY <1>1
<1> QED
  BY <1>2, <1>3 DEF HasAsked, HasStopped

\* Enqueuing a request puts it in the channel and leaves the others there.
LEMMA AppendKeepsRequests ==
    ASSUME NEW q \in Seq(Messages), NEW m \in Messages, NEW c
    PROVE  /\ HasAsked(q, c) => HasAsked(Append(q, m), c)
           /\ HasStopped(q, c) => HasStopped(Append(q, m), c)
           /\ m.op # "Shutdown" => HasAsked(Append(q, m), m.from)
           /\ m.op = "Shutdown" => HasStopped(Append(q, m), m.from)
<1> DEFINE n == Append(q, m)
<1>1. /\ Len(q) \in Nat /\ DOMAIN q = 1..Len(q)
      /\ DOMAIN n = 1..Len(q) + 1
      /\ \A i \in 1..Len(q) : n[i] = q[i]
      /\ n[Len(q) + 1] = m
  BY AppendProperties, LenProperties
<1>2. Len(q) + 1 \in DOMAIN n /\ \A i \in DOMAIN q : i \in DOMAIN n /\ n[i] = q[i]
  BY <1>1
<1> HIDE DEF n
<1>3. /\ HasAsked(q, c) => HasAsked(n, c)
      /\ HasStopped(q, c) => HasStopped(n, c)
  BY <1>2 DEF HasAsked, HasStopped
<1>4. /\ m.op # "Shutdown" => HasAsked(n, m.from)
      /\ m.op = "Shutdown" => HasStopped(n, m.from)
  BY <1>1, <1>2 DEF HasAsked, HasStopped
<1> QED
  BY <1>3, <1>4 DEF n

\* A step that touches neither the channel nor the replies.
LEMMA QuietFits ==
    ASSUME RepliesFitPlace, UNCHANGED <<queue, rep, decision, pending>>,
           pc \notin {"closing", "aborted"}, pc' \notin {"closing", "done"}
    PROVE  RepliesFitPlace'
  BY DEF RepliesFitPlace

\* A step after which nobody waits.
LEMMA NobodyWaitsFits ==
    ASSUME \A c \in Clients : rep'[c] \notin {"waiting", "joining"},
           decision' = "none", pending' = NoClient, pc' # "closing"
    PROVE  RepliesFitPlace'
  BY DEF RepliesFitPlace

\* The end of the task.
LEMMA EndTaskReplies ==
    ASSUME TypeOK, NEW s \in ProfileStates, NEW r \in [Clients -> Replies], EndTask(s, r)
    PROVE  RepliesFitPlace'
  BY EndTaskFacts, NobodyWaitsFits

\* A request that is taken off the channel and answered.
LEMMA AnswerFits ==
    ASSUME TypeOK, RepliesFitPlace, queue # << >>,
           pc \notin {"closing", "aborted"},
           queue' = Tail(queue),
           NEW v \in {"ok", "err"}, rep' = [rep EXCEPT ![Head(queue).from] = v],
           pending' = NoClient, pc' # "done",
           pc' = "closing" <=> decision' # "none"
    PROVE  RepliesFitPlace'
<1>1. decision = "none" /\ pending = NoClient
  BY DEF RepliesFitPlace
<1>2. ASSUME NEW c \in Clients
      PROVE  /\ rep'[c] = "waiting" => HasAsked(Tail(queue), c)
             /\ rep'[c] = "joining" => HasStopped(Tail(queue), c)
  <2>1. CASE c = Head(queue).from
    BY <2>1 DEF TypeOK
  <2>2. CASE c # Head(queue).from
    <3>1. rep'[c] = rep[c]
      BY <2>2 DEF TypeOK
    <3>2. /\ rep[c] = "waiting" => HasAsked(queue, c)
          /\ rep[c] = "joining" => HasStopped(queue, c)
      BY <1>1, SupervisorAssumption DEF RepliesFitPlace
    <3> QED
      BY <2>2, <3>1, <3>2, TailKeepsRequests DEF TypeOK
  <2> QED
    BY <2>1, <2>2
<1> QED
  BY <1>2 DEF RepliesFitPlace

\* A session that is lost, closed or left: the caller that waits for that is
\* the one held as pending.
LEMMA ReplyStep ==
    ASSUME TypeOK, SessionFitsPlace, RepliesFitPlace, [Next]_vars
    PROVE  RepliesFitPlace'
<1> USE DEF history, session
<1>1. CASE UNCHANGED vars
  BY <1>1 DEF vars, RepliesFitPlace
<1>2. CASE Start
  BY <1>2, QuietFits DEF Start
<1>3. CASE ServeAtLoopHead \/ ServeWhileConnecting \/ ServeWhileSleeping
  <2> DEFINE m == Head(queue)
  <2>1. pc \in {"loop", "connecting", "sleeping"} /\ ServeWithoutSession
    BY <1>3 DEF ServeAtLoopHead, ServeWhileConnecting, ServeWhileSleeping
  <2>2. CASE m.op \in {"Shutdown", "Drain"}
    <3>1. PICK r \in [Clients -> Replies] : EndTask(sm, r)
      <4>1. [rep EXCEPT ![m.from] = "ok"] \in [Clients -> Replies] /\ rep \in [Clients -> Replies]
        BY DEF TypeOK, Replies
      <4> QED
        BY <2>1, <2>2, <4>1 DEF ServeWithoutSession
    <3> QED
      BY <3>1, EndTaskReplies DEF TypeOK
  <2>3. CASE m.op \in {"Failover", "CloseSession", "OpenBench"}
    <3>1. m.to \in Endpoints \cup {NoPin, UnknownPin, MalformedKey}
      BY <2>1, HeadIsMessage DEF ServeWithoutSession, TypeOK
    <3>2. PICK v \in {"ok", "err"} : rep' = [rep EXCEPT ![m.from] = v]
      BY <2>1, <2>3, <3>1, OverrideFacts DEF ServeWithoutSession
    <3>3. decision' = "none" /\ pending' = NoClient
      BY <2>1, <2>3 DEF ServeWithoutSession, RepliesFitPlace
    <3>4. queue # << >> /\ queue' = Tail(queue) /\ pc' = "loop"
      BY <2>1, <2>3 DEF ServeWithoutSession
    <3> QED
      BY <2>1, <3>2, <3>3, <3>4, AnswerFits
  <2> QED
    BY <2>1, <2>2, <2>3 DEF ServeWithoutSession
<1>4. CASE GiveUp
  BY <1>4, EndTaskReplies DEF GiveUp, TypeOK
<1>5. CASE BeginConnect
  BY <1>5, QuietFits DEF BeginConnect, AtLoopHead
<1> DEFINE Backed ==
       \/ pc' = "sleeping" /\ UNCHANGED <<queue, rep>>
       \/ pc' = "aborted" /\ \A c \in Clients : rep'[c] \notin {"waiting", "joining"}
<1>6. ASSUME BackOff PROVE Backed
  BY <1>6, BackOffFacts
<1> HIDE DEF Backed
<1>7. ASSUME Backed, UNCHANGED <<decision, pending>>, pc \notin {"closing", "aborted"}
      PROVE  RepliesFitPlace'
  BY <1>7 DEF Backed, RepliesFitPlace
<1>8. CASE NoEndpointToPick
  BY <1>6, <1>7, <1>8 DEF NoEndpointToPick, AtLoopHead
<1>9. CASE Connected
  BY <1>9, QuietFits DEF Connected
<1>10. CASE ConnectFails
  BY <1>6, <1>7, <1>10 DEF ConnectFails
<1>11. CASE ConnectRefused \/ AuthRejected
  <2>1. PICK s \in ProfileStates : EndTask(s, rep)
    <3>1. /\ StateAfterFailure(Step(sm, "ConnectFail")) \in ProfileStates
          /\ StateAfterFailure(Step(sm, "AuthFail")) \in ProfileStates
      BY StepType DEF StateAfterFailure, StateAfterTrip, TypeOK
    <3> QED
      BY <1>11, <3>1 DEF ConnectRefused, AuthRejected
  <2> QED
    BY <2>1, EndTaskReplies DEF TypeOK
<1>12. CASE ForwardsOpened
  BY <1>12, QuietFits DEF ForwardsOpened
<1>13. CASE ForwardsRefused
  BY <1>13, QuietFits DEF ForwardsRefused
<1>14. CASE Abandoned
  BY <1>6, <1>7, <1>14 DEF Abandoned
<1>15. CASE SleepEnds
  BY <1>15, QuietFits DEF SleepEnds
<1>16. CASE ServeBench
  <2>1. PICK v \in {"ok", "err"} : rep' = [rep EXCEPT ![Head(queue).from] = v]
    BY <1>16 DEF ServeBench
  <2>2. decision' = "none" /\ pending' = NoClient
    BY <1>16 DEF ServeBench, RepliesFitPlace
  <2>3. queue # << >> /\ queue' = Tail(queue) /\ pc = "active" /\ pc' = "active"
    BY <1>16 DEF ServeBench
  <2> QED
    BY <2>1, <2>2, <2>3, AnswerFits
<1>17. CASE ServeExit \/ ServeClose
  <2> DEFINE m == Head(queue)
  <2>1. /\ pc = "active" /\ queue # << >> /\ queue' = Tail(queue) /\ rep' = rep
        /\ pc' = "closing"
        /\ \/ m.op = "Shutdown" /\ decision' = "exit" /\ pending' = NoClient
           \/ m.op = "Drain" /\ decision' = "drain" /\ pending' = m.from
           \/ m.op = "CloseSession" /\ decision' = "close" /\ pending' = m.from
    BY <1>17 DEF ServeExit, ServeClose, Break
  <2>2. decision = "none" /\ pending = NoClient
    BY <2>1 DEF RepliesFitPlace
  <2>3. ASSUME NEW c \in Clients
        PROVE  /\ rep[c] = "waiting" => HasAsked(queue, c)
               /\ rep[c] = "joining" => HasStopped(queue, c)
    BY <2>2, SupervisorAssumption DEF RepliesFitPlace
  <2>4. ASSUME NEW c \in Clients
        PROVE  /\ rep'[c] = "waiting" => HasAsked(queue', c) \/ pending' = c
               /\ rep'[c] = "joining" => HasStopped(queue', c) \/ decision' = "exit"
    BY <2>1, <2>3, TailKeepsRequests DEF TypeOK
  <2> QED
    BY <2>1, <2>4 DEF RepliesFitPlace
<1>18. CASE ServeFailover
  <2>1. Head(queue).to \in Endpoints \cup {NoPin, UnknownPin, MalformedKey}
    BY <1>18, HeadIsMessage DEF ServeFailover, TypeOK
  <2>2. OverrideReply(Head(queue).to) \in {"ok", "err"}
    BY <2>1, OverrideFacts
  <2> QED
    BY <1>18, <2>2, AnswerFits DEF ServeFailover, Break
<1>19. ASSUME NEW isSlow \in BOOLEAN, ProbeSucceeds(isSlow) PROVE RepliesFitPlace'
  BY <1>19, QuietFits DEF ProbeSucceeds
<1>20. ASSUME NEW d \in {"rotate", "restart", "lost"}, Break(d, NoClient), pc = "active",
              UNCHANGED <<queue, rep>>
       PROVE  RepliesFitPlace'
  BY <1>20, SupervisorAssumption DEF Break, RepliesFitPlace
<1>21. ASSUME NEW isSlow \in BOOLEAN, ProbeReplaces(isSlow) PROVE RepliesFitPlace'
  BY <1>20, <1>21 DEF ProbeReplaces
<1>22. CASE ProbeFails
  BY <1>20, <1>22 DEF ProbeFails
<1>23. CASE NoticeForward
  BY <1>23, QuietFits DEF NoticeForward
<1>24. ASSUME NEW up \in SUBSET Forwards, ReopenForwards(up) PROVE RepliesFitPlace'
  BY <1>24, QuietFits DEF ReopenForwards
<1>25. CASE ClosedForExit
  <2>1. PICK r \in [Clients -> Replies] : EndTask(sm, r)
    <3>1. [rep EXCEPT ![pending] = "ok"] \in [Clients -> Replies] /\ rep \in [Clients -> Replies]
      BY DEF TypeOK, Replies
    <3> QED
      BY <1>25, <3>1 DEF ClosedForExit
  <2> QED
    BY <2>1, EndTaskReplies DEF TypeOK
<1>26. CASE ClosedForRetry
  <2>1. ASSUME NEW c \in Clients
        PROVE  /\ rep'[c] = "waiting" => HasAsked(queue, c)
               /\ rep'[c] = "joining" => HasStopped(queue, c)
    BY <1>26, SupervisorAssumption DEF ClosedForRetry, RepliesFitPlace, TypeOK
  <2> QED
    BY <1>26, <2>1 DEF ClosedForRetry, EndSession, RepliesFitPlace
<1>27. CASE ClosedAfterLoss
  <2>1. Backed /\ decision' = "none" /\ pending' = NoClient /\ decision = "lost"
    BY <1>6, <1>27 DEF ClosedAfterLoss, EndSession
  <2>2. pending = NoClient
    BY <2>1 DEF RepliesFitPlace
  <2> QED
    BY <2>1, <2>2, SupervisorAssumption DEF Backed, RepliesFitPlace
<1>28. ASSUME NEW c \in Clients, Request(c) PROVE RepliesFitPlace'
  <2>1. PICK q \in Requests :
           \/ /\ ~Ended
              /\ queue' = Append(queue, [op |-> q.op, to |-> q.to, from |-> c])
              /\ rep' = [rep EXCEPT ![c] =
                            CASE q.op # "Shutdown" -> "waiting"
                              [] q.op = "Shutdown" /\ ~JoinTaken -> "joining"
                              [] q.op = "Shutdown" /\ JoinTaken -> "stopped"]
           \/ /\ Ended
              /\ rep' = [rep EXCEPT ![c] = IF q.op = "Shutdown" THEN "stopped" ELSE "err"]
              /\ UNCHANGED queue
    BY <1>28 DEF Request
  <2> DEFINE m == [op |-> q.op, to |-> q.to, from |-> c]
  <2>2. m \in Messages
    BY SupervisorAssumption DEF AllRequests, Messages
  <2>3. UNCHANGED <<pc, decision, pending>>
    BY <1>28 DEF Request
  <2>4. CASE Ended
    BY <2>1, <2>3, <2>4 DEF RepliesFitPlace, TypeOK
  <2>5. CASE ~Ended
    <3>1. queue' = Append(queue, m)
      BY <2>1, <2>5
    <3>2. \E v : /\ rep' = [rep EXCEPT ![c] = v]
                 /\ v = "waiting" => m.op # "Shutdown"
                 /\ v = "joining" => m.op = "Shutdown"
      BY <2>1, <2>5
    <3> HIDE DEF m
    <3>3. \A k \in Clients :
             /\ HasAsked(queue, k) => HasAsked(queue', k)
             /\ HasStopped(queue, k) => HasStopped(queue', k)
      BY <2>2, <3>1, AppendKeepsRequests DEF TypeOK
    <3>4. /\ m.op # "Shutdown" => HasAsked(queue', c)
          /\ m.op = "Shutdown" => HasStopped(queue', c)
      <4>1. m.from = c
        BY DEF m
      <4> QED
        BY <2>2, <3>1, <4>1, AppendKeepsRequests DEF TypeOK
    <3>5. pc # "done"
      BY <2>5 DEF Ended
    <3> QED
      BY <2>3, <3>2, <3>3, <3>4, <3>5 DEF RepliesFitPlace, TypeOK
  <2> QED
    BY <2>4, <2>5
<1>29. CASE DropHandle
  BY <1>29 DEF DropHandle, RepliesFitPlace
<1>30. ASSUME NEW f \in Forwards, ForwardActivates(f) \/ ForwardFails(f) PROVE RepliesFitPlace'
  BY <1>30, QuietFits DEF ForwardActivates, ForwardFails
<1>31. CASE Tick
  BY <1>31 DEF Tick, RepliesFitPlace
<1> QED
  BY <1>1, <1>2, <1>3, <1>4, <1>5, <1>8, <1>9, <1>10, <1>11, <1>12, <1>13, <1>14, <1>15,
     <1>16, <1>17, <1>18, <1>19, <1>21, <1>22, <1>23, <1>24, <1>25, <1>26, <1>27, <1>28,
     <1>29, <1>30, <1>31
     DEF Next, Progress, Fault, ServeAny, LoopStep, TeardownStep

-----------------------------------------------------------------------------
(* The override and the attempts.                                           *)

\* The override of a session in use stays consumed: only a step that leaves
\* the session stores a new one.
LEMMA PinStep ==
    ASSUME TypeOK, SessionFitsPlace, PinIsConsumed, [Next]_vars
    PROVE  PinIsConsumed'
<1> USE DEF history, session
<1>1. CASE Connected
  <2>1. target \in Endpoints
    BY <1>1 DEF Connected, SessionFitsPlace
  <2>2. RecordSuccess(sel, target).manual # target
    BY <2>1, SuccessConsumesPin DEF TypeOK
  <2> QED
    BY <1>1, <2>2 DEF Connected, PinIsConsumed
<1>2. CASE Tick
  <2>1. sel'.manual = sel.manual
    BY <1>2, SelectorTickType DEF Tick, TypeOK
  <2> QED
    BY <1>2, <2>1 DEF Tick, PinIsConsumed
<1>3. ASSUME pc' \notin {"opening", "active"} PROVE PinIsConsumed'
  BY <1>3 DEF PinIsConsumed
<1>4. ASSUME UNCHANGED <<sel, current>>, pc \in {"opening", "active"} \/ UNCHANGED pc
      PROVE  PinIsConsumed'
  BY <1>4 DEF PinIsConsumed
<1>5. CASE UNCHANGED vars
  BY <1>4, <1>5 DEF vars
<1>6. CASE ForwardsOpened \/ ServeBench \/ NoticeForward
  BY <1>4, <1>6 DEF ForwardsOpened, ServeBench, NoticeForward
<1>7. ASSUME NEW isSlow \in BOOLEAN, ProbeSucceeds(isSlow) PROVE PinIsConsumed'
  BY <1>4, <1>7 DEF ProbeSucceeds
<1>8. ASSUME NEW up \in SUBSET Forwards, ReopenForwards(up) PROVE PinIsConsumed'
  BY <1>4, <1>8 DEF ReopenForwards
<1>9. ASSUME NEW f \in Forwards, ForwardActivates(f) \/ ForwardFails(f) PROVE PinIsConsumed'
  BY <1>4, <1>9 DEF ForwardActivates, ForwardFails
<1>10. ASSUME NEW c \in Clients, Request(c) PROVE PinIsConsumed'
  BY <1>4, <1>10 DEF Request
<1>11. CASE Start \/ ServeAtLoopHead \/ ServeWhileConnecting \/ ServeWhileSleeping \/ SleepEnds
  BY <1>3, <1>11 DEF Start, ServeAtLoopHead, ServeWhileConnecting, ServeWhileSleeping,
                     ServeWithoutSession, EndTask, SleepEnds
<1>12. CASE GiveUp \/ BeginConnect \/ ConnectRefused \/ AuthRejected \/ ForwardsRefused \/ DropHandle
  BY <1>3, <1>12 DEF GiveUp, EndTask, BeginConnect, ConnectRefused, AuthRejected,
                     ForwardsRefused, DropHandle
<1>13. CASE NoEndpointToPick \/ ConnectFails \/ Abandoned \/ ClosedAfterLoss
  BY <1>3, <1>13 DEF NoEndpointToPick, ConnectFails, Abandoned, ClosedAfterLoss, BackOff
<1>14. CASE ServeExit \/ ServeFailover \/ ServeClose \/ ProbeFails
  BY <1>3, <1>14 DEF ServeExit, ServeFailover, ServeClose, ProbeFails, Break
<1>15. ASSUME NEW isSlow \in BOOLEAN, ProbeReplaces(isSlow) PROVE PinIsConsumed'
  BY <1>3, <1>15 DEF ProbeReplaces, Break
<1>16. CASE ClosedForExit \/ ClosedForRetry
  BY <1>3, <1>16 DEF ClosedForExit, EndTask, ClosedForRetry
<1> QED
  BY <1>1, <1>2, <1>5, <1>6, <1>7, <1>8, <1>9, <1>10, <1>11, <1>12, <1>13, <1>14, <1>15, <1>16
     DEF Next, Progress, Fault, ServeAny, LoopStep, TeardownStep

\* The places in which an attempt is being made.
Attempting == {"connecting", "opening", "abandoning", "active", "closing"}

\* An attempt is begun, and counted, only below the limit.
LEMMA AttemptStep ==
    ASSUME TypeOK, AttemptsAreBounded, [Next]_vars
    PROVE  AttemptsAreBounded'
<1> USE DEF history, session
<1> SUFFICES ASSUME MaxAttempts # 0
             PROVE  /\ attempt' <= MaxAttempts
                    /\ pc' \in Attempting => attempt' < MaxAttempts
  BY DEF AttemptsAreBounded, Attempting
<1> DEFINE Bounded == /\ attempt' <= MaxAttempts
                      /\ pc' \in Attempting => attempt' < MaxAttempts
<1>1. /\ attempt \in Nat /\ MaxAttempts \in Nat /\ MaxAttempts > 0
      /\ attempt <= MaxAttempts
      /\ pc \in Attempting => attempt < MaxAttempts
  BY BackoffAssumption, U32Assumption DEF TypeOK, AttemptsAreBounded, Attempting
<1>2. ASSUME UNCHANGED attempt, pc' \in Attempting => pc \in Attempting PROVE Bounded
  BY <1>1, <1>2
<1>3. ASSUME BackOff, attempt < MaxAttempts PROVE Bounded
  <2>1. pc' \notin Attempting
    BY <1>3, BackOffFacts DEF Attempting
  <2> QED
    BY <1>1, <1>3, <2>1, BackOffFacts
<1>4. CASE BeginConnect
  BY <1>1, <1>4 DEF BeginConnect, Exhausted
<1>5. CASE NoEndpointToPick
  BY <1>1, <1>3, <1>5 DEF NoEndpointToPick, Exhausted
<1>6. CASE ConnectFails \/ Abandoned \/ ClosedAfterLoss
  BY <1>1, <1>3, <1>6 DEF ConnectFails, Abandoned, ClosedAfterLoss, Attempting
<1>7. CASE UNCHANGED vars \/ Tick \/ Start \/ SleepEnds \/ DropHandle
  BY <1>2, <1>7 DEF vars, Tick, Start, SleepEnds, DropHandle, Attempting
<1>8. CASE ServeAtLoopHead \/ ServeWhileConnecting \/ ServeWhileSleeping \/ GiveUp
  BY <1>2, <1>8 DEF ServeAtLoopHead, ServeWhileConnecting, ServeWhileSleeping,
                    ServeWithoutSession, GiveUp, EndTask, Attempting
<1>9. CASE Connected \/ ForwardsOpened \/ ForwardsRefused \/ ConnectRefused \/ AuthRejected
  BY <1>2, <1>9 DEF Connected, ForwardsOpened, ForwardsRefused, ConnectRefused, AuthRejected,
                    EndTask, Attempting
<1>10. CASE ServeBench \/ ServeExit \/ ServeFailover \/ ServeClose \/ ProbeFails \/ NoticeForward
  BY <1>2, <1>10 DEF ServeBench, ServeExit, ServeFailover, ServeClose, ProbeFails,
                     NoticeForward, Attempting
<1>11. ASSUME NEW isSlow \in BOOLEAN, ProbeSucceeds(isSlow) \/ ProbeReplaces(isSlow) PROVE Bounded
  BY <1>2, <1>11 DEF ProbeSucceeds, ProbeReplaces, Attempting
<1>12. ASSUME NEW up \in SUBSET Forwards, ReopenForwards(up) PROVE Bounded
  BY <1>2, <1>12 DEF ReopenForwards
<1>13. CASE ClosedForExit \/ ClosedForRetry
  BY <1>2, <1>13 DEF ClosedForExit, EndTask, ClosedForRetry, Attempting
<1>14. ASSUME NEW c \in Clients, Request(c) PROVE Bounded
  BY <1>2, <1>14 DEF Request
<1>15. ASSUME NEW f \in Forwards, ForwardActivates(f) \/ ForwardFails(f) PROVE Bounded
  BY <1>2, <1>15 DEF ForwardActivates, ForwardFails
<1> QED
  BY <1>4, <1>5, <1>6, <1>7, <1>8, <1>9, <1>10, <1>11, <1>12, <1>13, <1>14, <1>15
     DEF Next, Progress, Fault, ServeAny, LoopStep, TeardownStep

-----------------------------------------------------------------------------
(* Degraded forwards.                                                       *)

\* The first slot that has changed is a slot.
LEMMA FirstChangedIsForward == Changed # {} => FirstChanged \in Forwards
<1> SUFFICES ASSUME Changed # {} PROVE FirstChanged \in Changed
  BY DEF Changed
<1> DEFINE g == [f \in Changed |-> ForwardIndex[f]]
<1>1. g \in [Changed -> Nat]
  BY SupervisorAssumption DEF Changed
<1>2. \E e \in Changed : \A f \in Changed : g[e] <= g[f]
  BY <1>1, LeastExists
<1> QED
  BY <1>2 DEF FirstChanged

\* `degraded` is set only in run_active, while something is down and a reopen
\* is scheduled; the machine shows Degraded only while it is set.
RepairFits ==
    /\ pc # "active" => degraded = FALSE
    /\ pc = "active" /\ sm = "Degraded" => degraded = TRUE
    /\ degraded = TRUE => Down # {} /\ reopen = TRUE

\* Neither a trip nor a probe shows Degraded anew.
LEMMA TripsHideDegraded ==
    ASSUME NEW s \in Up
    PROVE  /\ StateAfterTrip(s) = "Degraded" => s = "Degraded"
           /\ Step(s, "InstabilityClear") = "Degraded" => s = "Degraded"
           /\ Step(s, "ForwardsUp") # "Degraded"
<1>1. \A e \in {"InstabilityHit", "InstabilityClear"} : Step(s, e) = "Degraded" => s = "Degraded"
  BY DEF Step, Up
<1>2. Step(s, "ForwardsUp") # "Degraded"
  BY DEF Step, Up
<1> QED
  BY <1>1, <1>2 DEF StateAfterTrip

\* Every step keeps the two flags of run_active and the forwards together.
LEMMA RepairStep ==
    ASSUME TypeOK, StateFitsPlace, RepairFits, [Next]_vars
    PROVE  RepairFits'
<1> USE DEF history, session
<1>1. ASSUME pc' # "active", degraded' = FALSE PROVE RepairFits'
  BY <1>1 DEF RepairFits
<1>2. ASSUME UNCHANGED <<fwd, degraded, reopen>>, pc # "active", pc' # "active" PROVE RepairFits'
  BY <1>2 DEF RepairFits
<1>3. ASSUME UNCHANGED <<pc, sm, fwd, degraded, reopen>> PROVE RepairFits'
  BY <1>3 DEF RepairFits, Down
<1>4. CASE UNCHANGED vars \/ ServeBench \/ Tick
  BY <1>3, <1>4 DEF vars, ServeBench, Tick
<1>5. CASE Start \/ SleepEnds \/ BeginConnect \/ Connected \/ ForwardsRefused
  BY <1>2, <1>5 DEF Start, SleepEnds, BeginConnect, AtLoopHead, Connected, ForwardsRefused
<1>6. CASE ServeAtLoopHead \/ ServeWhileConnecting \/ ServeWhileSleeping
  BY <1>1, <1>2, <1>6 DEF ServeAtLoopHead, ServeWhileConnecting, ServeWhileSleeping,
                          ServeWithoutSession, EndTask, LeaveActive
<1>7. CASE GiveUp \/ ConnectRefused \/ AuthRejected \/ ClosedForExit \/ DropHandle
  BY <1>1, <1>7 DEF GiveUp, ConnectRefused, AuthRejected, ClosedForExit, DropHandle, EndTask,
                    LeaveActive
<1>8. CASE NoEndpointToPick \/ ConnectFails \/ Abandoned \/ ClosedAfterLoss \/ ClosedForRetry
  BY <1>2, <1>8 DEF NoEndpointToPick, AtLoopHead, ConnectFails, Abandoned, ClosedAfterLoss,
                    ClosedForRetry, BackOff
<1>9. CASE ForwardsOpened
  <2>1. sm' = "Active" /\ pc' = "active" /\ degraded' = FALSE
    BY <1>9, SetupSteps DEF ForwardsOpened, StateFitsPlace, RepairFits
  <2> QED
    BY <2>1 DEF RepairFits
<1>10. CASE ServeExit \/ ServeFailover \/ ServeClose \/ ProbeFails
  BY <1>1, <1>10 DEF ServeExit, ServeFailover, ServeClose, ProbeFails, Break, LeaveActive
<1>11. ASSUME NEW isSlow \in BOOLEAN, ProbeReplaces(isSlow) PROVE RepairFits'
  BY <1>1, <1>11 DEF ProbeReplaces, Break, LeaveActive
<1>12. ASSUME NEW isSlow \in BOOLEAN, ProbeSucceeds(isSlow) PROVE RepairFits'
  <2>1. pc = "active" /\ sm \in Up /\ UNCHANGED <<pc, fwd, degraded, reopen>>
    BY <1>12 DEF ProbeSucceeds, StateFitsPlace, Up
  <2>2. StateAfterTrip(sm) \in Up
    BY <2>1, ActiveSteps
  <2>3. sm' = "Degraded" => sm = "Degraded"
    BY <1>12, <2>1, <2>2, TripsHideDegraded DEF ProbeSucceeds
  <2> QED
    BY <2>1, <2>3 DEF RepairFits, Down
<1>13. CASE NoticeForward
  <2>1. FirstChanged \in Down
    BY <1>13, FirstChangedIsForward DEF NoticeForward, Down
  <2>2. Down' = Down /\ degraded' = TRUE /\ reopen' = TRUE /\ pc' = "active"
    BY <1>13 DEF NoticeForward, Down
  <2> QED
    BY <2>1, <2>2 DEF RepairFits
<1>14. ASSUME NEW up \in SUBSET Forwards, ReopenForwards(up) PROVE RepairFits'
  <2>1. pc = "active" /\ pc' = "active" /\ sm \in Up /\ up \subseteq Down
    BY <1>14 DEF ReopenForwards, StateFitsPlace, Up
  <2>2. CASE up = Down
    <3>1. degraded' = FALSE
      BY <1>14, <2>2 DEF ReopenForwards
    <3>2. sm' # "Degraded"
      BY <1>14, <2>1, <2>2, TripsHideDegraded DEF ReopenForwards, RepairFits, TypeOK
    <3> QED
      BY <2>1, <3>1, <3>2 DEF RepairFits
  <2>3. CASE up # Down
    <3>1. reopen' = TRUE /\ sm' = sm
      BY <1>14, <2>3 DEF ReopenForwards, ReopenAgain
    <3>2. degraded' = degraded
      BY <1>14, <2>3 DEF ReopenForwards, TypeOK
    <3>3. PICK f \in Down : f \notin up
      BY <2>1, <2>3
    <3>4. f \in Down'
      BY <1>14, <3>3 DEF ReopenForwards, Down
    <3> QED
      BY <2>1, <3>1, <3>2, <3>4 DEF RepairFits
  <2> QED
    BY <2>2, <2>3
<1>15. ASSUME NEW f \in Forwards, ForwardActivates(f) \/ ForwardFails(f) PROVE RepairFits'
  <2>1. UNCHANGED <<pc, sm, degraded, reopen>>
    BY <1>15 DEF ForwardActivates, ForwardFails
  <2>2. Down \subseteq Down'
    BY <1>15 DEF ForwardActivates, ForwardFails, Down, TypeOK
  <2> QED
    BY <2>1, <2>2 DEF RepairFits
<1>16. ASSUME NEW c \in Clients, Request(c) PROVE RepairFits'
  BY <1>3, <1>16 DEF Request
<1> QED
  BY <1>4, <1>5, <1>6, <1>7, <1>8, <1>9, <1>10, <1>11, <1>12, <1>13, <1>14, <1>15, <1>16
     DEF Next, Progress, Fault, ServeAny, LoopStep, TeardownStep

-----------------------------------------------------------------------------
(* The theorems.                                                            *)

\* The inductive invariant: the types, and what each place of the task admits.
Inv == TypeOK /\ TaskInv /\ PinIsConsumed /\ AttemptsAreBounded /\ RepairFits

\* Inv holds of every reachable state: each step of run, of run_active, of a
\* caller, of a forward and of the clock leads from a place that suits its
\* state, session and replies to another such place.
THEOREM Invariance == Spec => []Inv
<1>1. Init => Inv
  <2> SUFFICES ASSUME Init PROVE Inv
    OBVIOUS
  <2>1. StateFitsPlace /\ SessionFitsPlace
    BY DEF Init, InitialState, StateFitsPlace, SessionFitsPlace, OwnsSession
  <2>2. RepliesFitPlace
    BY DEF Init, RepliesFitPlace
  <2>3. PinIsConsumed /\ AttemptsAreBounded
    BY BackoffAssumption DEF Init, PinIsConsumed, AttemptsAreBounded
  <2>4. RepairFits
    BY DEF Init, RepairFits
  <2> QED
    BY <2>1, <2>2, <2>3, <2>4, TypeInit DEF Inv, TaskInv
<1>2. Inv /\ [Next]_vars => Inv'
  BY TypeStep, PlaceStep, ReplyStep, PinStep, AttemptStep, RepairStep DEF Inv, TaskInv
<1> QED
  BY <1>1, <1>2, PTL DEF Spec

\* Every variable keeps its type: no counter of run or of the detector leaves
\* its range, and the selector and the session never name anything but a
\* configured endpoint.
THEOREM TypeCorrect == Spec => []TypeOK
  BY Invariance, PTL DEF Inv

\* Every await of run and run_active has the states of the machine, the session
\* and the callers held for a reply that suit it.
THEOREM PlacesFit == Spec => []TaskInv
  BY Invariance, PTL DEF Inv

\* The session registry lists a session exactly while the task owns one, under
\* the endpoint a loss is charged to (publish_session, unpublish_session).
THEOREM RegistryIsExact == Spec => []RegistryListsSession
<1>1. Inv => RegistryListsSession
  BY SupervisorAssumption
     DEF Inv, TaskInv, SessionFitsPlace, RegistryListsSession, OwnsSession, TypeOK, Awaits
<1> QED
  BY <1>1, Invariance, PTL

\* The state watch never claims a session that is not there, never hides an
\* active one, and shows Stopped exactly when the task has returned (fire).
THEOREM WatchIsTruthful == Spec => []WatchTellsTheTruth
<1>1. Inv => WatchTellsTheTruth
  <2> SUFFICES ASSUME Inv PROVE WatchTellsTheTruth
    OBVIOUS
  <2>1. sm \in SessionUpStates => row # NoEndpoint
    BY SupervisorAssumption DEF Inv, TaskInv, TypeOK, Awaits, StateFitsPlace, SessionFitsPlace,
                                OwnsSession, SessionUpStates
  <2>2. pc # "aborted" => (sm = "Stopped" <=> pc = "done")
    BY DEF Inv, TaskInv, TypeOK, Awaits, StateFitsPlace
  <2> QED
    BY <2>1, <2>2 DEF WatchTellsTheTruth, Inv, TaskInv, StateFitsPlace
<1> QED
  BY <1>1, Invariance, PTL

\* No arm of the control channel forgets a reply: whoever waits has a request
\* in the channel or is held for the end of a close or drain.
THEOREM RepliesAreKept == Spec => []NoReplyForgotten
<1>1. Inv => NoReplyForgotten
  BY DEF Inv, TaskInv, RepliesFitPlace, NoReplyForgotten, HasAsked, HasStopped
<1> QED
  BY <1>1, Invariance, PTL

\* A manual override lasts one reconnect (record_success).
THEOREM PinLastsOneReconnect == Spec => []PinIsConsumed
  BY Invariance, PTL DEF Inv

\* max_attempts bounds the attempts (exhausted, at the loop head).
THEOREM AttemptsStayBounded == Spec => []AttemptsAreBounded
  BY Invariance, PTL DEF Inv

\* A profile shows Degraded only while a forward is down and its reopen is
\* scheduled, whatever forwards fail, recover and are reopened meanwhile
\* (degraded and reopen_at of run_active).
THEOREM DegradedIsRepaired == Spec => []DegradedIsBeingRepaired
<1>1. Inv => DegradedIsBeingRepaired
  BY DEF Inv, RepairFits, DegradedIsBeingRepaired
<1> QED
  BY <1>1, Invariance, PTL

\* A connect attempt goes to an endpoint that is cooling down only when no
\* endpoint is healthy: nothing but pick chooses the endpoint of an attempt.
THEOREM AttemptsPreferHealthy == Spec => FailoverPrefersHealthy
<1> DEFINE Prefers == pc = "loop" /\ pc' = "connecting" =>
                          (Cooling(sel, target') => Healthy(sel) = {})
<1>1. Inv /\ [Next]_vars => [Prefers]_vars
  <2> SUFFICES ASSUME Inv, Next, pc = "loop", pc' = "connecting"
               PROVE  Cooling(sel, target') => Healthy(sel) = {}
    OBVIOUS
  <2> USE DEF history, session
  <2>1. ~BackOff
    BY DEF BackOff
  <2>2. BeginConnect
    <3>1. /\ ~Start /\ ~SleepEnds /\ ~Connected /\ ~ForwardsOpened /\ ~NoticeForward
          /\ ~ConnectFails /\ ~ConnectRefused /\ ~AuthRejected /\ ~ForwardsRefused /\ ~ProbeFails
      BY DEF Start, SleepEnds, Connected, ForwardsOpened, NoticeForward, ConnectFails,
             ConnectRefused, AuthRejected, ForwardsRefused, ProbeFails
    <3>2. /\ ~ServeAtLoopHead /\ ~ServeWhileConnecting /\ ~ServeWhileSleeping
          /\ ~ServeBench /\ ~ServeExit /\ ~ServeFailover /\ ~ServeClose
      BY DEF ServeAtLoopHead, ServeWhileConnecting, ServeWhileSleeping, ServeWithoutSession,
             EndTask, ServeBench, ServeExit, ServeFailover, ServeClose
    <3>3. /\ ~Abandoned /\ ~ClosedForExit /\ ~ClosedForRetry /\ ~ClosedAfterLoss
          /\ ~GiveUp /\ ~NoEndpointToPick /\ ~Tick /\ ~DropHandle
      BY <2>1 DEF Abandoned, ClosedForExit, ClosedForRetry, ClosedAfterLoss, GiveUp, EndTask,
                  NoEndpointToPick, Tick, DropHandle
    <3>4. /\ \A isSlow \in BOOLEAN : ~ProbeSucceeds(isSlow) /\ ~ProbeReplaces(isSlow)
          /\ \A up \in SUBSET Forwards : ~ReopenForwards(up)
          /\ \A f \in Forwards : ~ForwardActivates(f) /\ ~ForwardFails(f)
          /\ \A c \in Clients : ~Request(c)
      BY DEF ProbeSucceeds, ProbeReplaces, ReopenForwards, ForwardActivates, ForwardFails, Request
    <3> QED
      BY <3>1, <3>2, <3>3, <3>4 DEF Next, Progress, Fault, ServeAny, LoopStep, TeardownStep
  <2>3. target' \in Pick(sel)
    BY <2>2 DEF BeginConnect
  <2> QED
    BY <2>3, PickPrefersHealthy DEF Inv, TypeOK
<1> QED
  BY <1>1, Invariance, PTL DEF Spec, FailoverPrefersHealthy

-----------------------------------------------------------------------------
(* The contract.                                                            *)

\* A reply to one caller takes at most that caller off the ones that wait.
LEMMA OneReply ==
    ASSUME TypeOK, NEW c, NEW v \in {"ok", "err"}, rep' = [rep EXCEPT ![c] = v]
    PROVE  Outstanding' = Outstanding \ {c}
  BY DEF TypeOK, Outstanding

\* Every step of the task, of a caller, of a forward or of the clock is a step
\* of the contract or leaves its variables alone, as long as the attempt
\* counter cannot overflow.
LEMMA ContractStep ==
    ASSUME Inv, [Next]_vars, MaxAttempts # 0, MaxAttempts <= U32Max
    PROVE  [Contract!Next]_Contract!tunnel
<1> USE DEF history, session
<1> DEFINE Kept == [Contract!Next]_Contract!tunnel
<1>1. ASSUME UNCHANGED <<row, rep>>, pc' = "done" <=> pc = "done" PROVE Kept
  BY <1>1 DEF Contract!tunnel, Outstanding
<1>2. ASSUME pc # "done", NEW c, NEW v \in {"ok", "err"}, rep' = [rep EXCEPT ![c] = v],
             UNCHANGED row, pc' # "done"
      PROVE  Kept
  <2>1. Outstanding' = Outstanding \ {c}
    BY <1>2, OneReply DEF Inv
  <2>2. CASE c \in Outstanding
    <3>1. c \in Clients
      BY <2>2 DEF Outstanding
    <3>2. Contract!Answer(c)
      BY <1>2, <2>1, <2>2 DEF Contract!Answer
    <3> QED
      BY <3>1, <3>2 DEF Contract!Next
  <2>3. CASE c \notin Outstanding
    <3>1. Outstanding' = Outstanding
      BY <2>1, <2>3
    <3> QED
      BY <1>2, <3>1 DEF Contract!tunnel
  <2> QED
    BY <2>2, <2>3
<1>3. ASSUME pc # "done", NEW s \in ProfileStates, NEW r \in [Clients -> Replies], EndTask(s, r)
      PROVE  Kept
  <2>1. Outstanding' = {} /\ row' = NoEndpoint /\ pc' = "done"
    BY <1>3, EndTaskFacts DEF Outstanding
  <2> QED
    BY <1>3, <2>1 DEF Contract!Next, Contract!End
<1>4. ASSUME BackOff, attempt < MaxAttempts PROVE pc' = "sleeping" /\ UNCHANGED <<queue, rep>>
  <2>1. AttemptAfterReset \in {0, attempt}
    BY DEF AttemptAfterReset
  <2>2. ~CounterOverflows
    BY <1>4, <2>1, U32Assumption, BackoffAssumption DEF CounterOverflows, Inv, TypeOK
  <2> QED
    BY <1>4, <2>2, BackOffFacts DEF Inv
<1>5. pc \in Attempting => attempt < MaxAttempts
  BY DEF Inv, AttemptsAreBounded, Attempting
<1>6. CASE UNCHANGED vars
  BY <1>1, <1>6 DEF vars
<1>7. CASE Start \/ SleepEnds \/ Tick \/ BeginConnect \/ ForwardsOpened \/ NoticeForward
  BY <1>1, <1>7 DEF Start, SleepEnds, Tick, BeginConnect, AtLoopHead, ForwardsOpened, NoticeForward
<1>8. CASE ServeAtLoopHead \/ ServeWhileConnecting \/ ServeWhileSleeping
  <2> DEFINE m == Head(queue)
  <2>1. pc # "done" /\ ServeWithoutSession
    BY <1>8 DEF ServeAtLoopHead, ServeWhileConnecting, ServeWhileSleeping
  <2>2. CASE m.op \in {"Shutdown", "Drain"}
    <3>1. PICK r \in [Clients -> Replies] : EndTask(sm, r)
      <4>1. [rep EXCEPT ![m.from] = "ok"] \in [Clients -> Replies] /\ rep \in [Clients -> Replies]
        BY DEF Inv, TypeOK, Replies
      <4> QED
        BY <2>1, <2>2, <4>1 DEF ServeWithoutSession
    <3> QED
      BY <1>3, <2>1, <3>1 DEF Inv, TypeOK
  <2>3. CASE m.op \in {"Failover", "CloseSession", "OpenBench"}
    <3>1. m.to \in Endpoints \cup {NoPin, UnknownPin, MalformedKey}
      BY <2>1, HeadIsMessage DEF ServeWithoutSession, Inv, TypeOK
    <3>2. PICK v \in {"ok", "err"} : rep' = [rep EXCEPT ![m.from] = v]
      BY <2>1, <2>3, <3>1, OverrideFacts DEF ServeWithoutSession, Inv
    <3> QED
      BY <1>2, <2>1, <2>3, <3>2 DEF ServeWithoutSession
  <2> QED
    BY <2>1, <2>2, <2>3 DEF ServeWithoutSession
<1>9. CASE GiveUp
  BY <1>3, <1>9 DEF GiveUp, AtLoopHead, Inv, TypeOK
<1>10. CASE NoEndpointToPick
  <2>1. attempt < MaxAttempts
    BY <1>10, BackoffAssumption, U32Assumption DEF NoEndpointToPick, Exhausted, Inv, TypeOK
  <2> QED
    BY <1>1, <1>4, <1>10, <2>1 DEF NoEndpointToPick, AtLoopHead
<1>11. CASE ConnectFails \/ Abandoned
  BY <1>1, <1>4, <1>5, <1>11 DEF ConnectFails, Abandoned, Attempting
<1>12. CASE Connected
  <2>1. target \in Endpoints /\ row = NoEndpoint /\ row' = target /\ pc' = "opening" /\ rep' = rep
    BY <1>12 DEF Connected, Inv, TaskInv, SessionFitsPlace
  <2>2. Contract!Open(target)
    BY <1>12, <2>1 DEF Connected, Contract!Open, Outstanding
  <2> QED
    BY <2>1, <2>2 DEF Contract!Next
<1>13. CASE ConnectRefused \/ AuthRejected
  <2>1. PICK s \in ProfileStates : EndTask(s, rep)
    <3>1. /\ StateAfterFailure(Step(sm, "ConnectFail")) \in ProfileStates
          /\ StateAfterFailure(Step(sm, "AuthFail")) \in ProfileStates
      BY StepType DEF StateAfterFailure, StateAfterTrip, Inv, TypeOK
    <3> QED
      BY <1>13, <3>1 DEF ConnectRefused, AuthRejected
  <2>2. pc # "done"
    BY <1>13 DEF ConnectRefused, AuthRejected
  <2> QED
    BY <1>3, <2>1, <2>2 DEF Inv, TypeOK
<1>14. ASSUME OwnsSession, row' = NoEndpoint, pc' # "done",
              \/ Outstanding' = Outstanding
              \/ \E c \in Outstanding : Outstanding' = Outstanding \ {c}
       PROVE  Kept
  <2>1. row # NoEndpoint /\ pc # "done"
    BY <1>14, SupervisorAssumption DEF Inv, TaskInv, SessionFitsPlace, OwnsSession
  <2> QED
    BY <1>14, <2>1 DEF Contract!Next, Contract!Close
<1>15. CASE ForwardsRefused
  BY <1>14, <1>15 DEF ForwardsRefused, OwnsSession, Outstanding
<1>16. CASE ServeBench
  BY <1>2, <1>16 DEF ServeBench
<1>17. CASE ServeExit \/ ServeClose \/ ProbeFails
  BY <1>1, <1>17 DEF ServeExit, ServeClose, ProbeFails, Break
<1>18. CASE ServeFailover
  <2>1. Head(queue).to \in Endpoints \cup {NoPin, UnknownPin, MalformedKey}
    BY <1>18, HeadIsMessage DEF ServeFailover, Inv, TypeOK
  <2>2. OverrideReply(Head(queue).to) \in {"ok", "err"}
    BY <2>1, OverrideFacts DEF Inv
  <2> QED
    BY <1>2, <1>18, <2>2 DEF ServeFailover, Break
<1>19. ASSUME NEW isSlow \in BOOLEAN, ProbeSucceeds(isSlow) \/ ProbeReplaces(isSlow) PROVE Kept
  BY <1>1, <1>19 DEF ProbeSucceeds, ProbeReplaces, Break
<1>20. ASSUME NEW up \in SUBSET Forwards, ReopenForwards(up) PROVE Kept
  BY <1>1, <1>20 DEF ReopenForwards
<1>21. CASE ClosedForExit
  <2>1. PICK r \in [Clients -> Replies] : EndTask(sm, r)
    <3>1. [rep EXCEPT ![pending] = "ok"] \in [Clients -> Replies] /\ rep \in [Clients -> Replies]
      BY DEF Inv, TypeOK, Replies
    <3> QED
      BY <1>21, <3>1 DEF ClosedForExit
  <2> QED
    BY <1>3, <1>21, <2>1 DEF ClosedForExit, Inv, TypeOK
<1>22. CASE ClosedForRetry
  <2>1. OwnsSession /\ row' = NoEndpoint /\ pc' = "sleeping"
    BY <1>22 DEF ClosedForRetry, EndSession, OwnsSession
  <2>2. rep' = rep \/ rep' = [rep EXCEPT ![pending] = "ok"]
    BY <1>22 DEF ClosedForRetry
  <2>3. Outstanding' = Outstanding \/ Outstanding' = Outstanding \ {pending}
    BY <2>2, OneReply DEF Outstanding, Inv
  <2>4. \/ Outstanding' = Outstanding
        \/ \E c \in Outstanding : Outstanding' = Outstanding \ {c}
    <3>1. CASE pending \in Outstanding
      BY <2>3, <3>1
    <3>2. CASE pending \notin Outstanding
      BY <2>3, <3>2
    <3> QED
      BY <3>1, <3>2
  <2> QED
    BY <1>14, <2>1, <2>4
<1>23. CASE ClosedAfterLoss
  <2>1. OwnsSession /\ pc' = "sleeping" /\ rep' = rep /\ ~CounterOverflows
    BY <1>4, <1>5, <1>23, BackOffFacts DEF ClosedAfterLoss, OwnsSession, Attempting, Inv
  <2>2. row' = NoEndpoint
    BY <1>23, <2>1 DEF ClosedAfterLoss, EndSession
  <2> QED
    BY <1>14, <2>1, <2>2 DEF Outstanding
<1>24. ASSUME NEW c \in Clients, Request(c) PROVE Kept
  <2>1. rep[c] \notin {"waiting", "joining"} /\ UNCHANGED <<pc, row>>
    BY <1>24 DEF Request
  <2>2. \E v : /\ rep' = [rep EXCEPT ![c] = v]
               /\ v \in {"waiting", "joining"} => pc # "done"
    BY <1>24 DEF Request, Ended
  <2>3. \/ Outstanding' = Outstanding
        \/ Outstanding' = Outstanding \cup {c} /\ pc # "done"
    BY <2>1, <2>2 DEF Outstanding, Inv, TypeOK
  <2> QED
    BY <2>1, <2>3 DEF Contract!Next, Contract!Ask, Contract!tunnel
<1>25. CASE DropHandle
  BY <1>1, <1>25 DEF DropHandle, Ended
<1>26. ASSUME NEW f \in Forwards, ForwardActivates(f) \/ ForwardFails(f) PROVE Kept
  BY <1>1, <1>26 DEF ForwardActivates, ForwardFails
<1> QED
  BY <1>6, <1>7, <1>8, <1>9, <1>10, <1>11, <1>12, <1>13, <1>15, <1>16, <1>17, <1>18, <1>19,
     <1>20, <1>21, <1>22, <1>23, <1>24, <1>25, <1>26
     DEF Next, Progress, Fault, ServeAny, LoopStep, TeardownStep

\* A profile whose attempts are limited keeps the contract of TunnelContract,
\* whatever the network and the callers do and even if its handle is dropped:
\* one session at a time, answers one by one, everything released at the end.
THEOREM ProfileKeepsContract ==
    ASSUME MaxAttempts # 0, MaxAttempts <= U32Max
    PROVE  Spec => KeepsContract
<1>1. Init => Contract!Init
  BY DEF Init, Contract!Init, Outstanding
<1>2. Inv /\ [Next]_vars => [Contract!Next]_Contract!tunnel
  BY ContractStep
<1> QED
  BY <1>1, <1>2, Invariance, PTL DEF Spec, KeepsContract, Contract!Spec
=============================================================================
