------------------------ MODULE ProfileHistoryProofs ------------------------
(***************************************************************************)
(* The timers of the detector and of the storm guard, for every window,    *)
(* interval and configuration: whatever the order of probes, disconnects,  *)
(* trips and requests, the code's own clocks never run ahead of the        *)
(* history of what happened.                                               *)
(***************************************************************************)
EXTENDS ProfileHistory, ProfileSupervisorProofs

\* A lost session is being closed, or the task has ended: no probe is due
\* before the disconnect has been recorded.
NoProbeDue == (pc = "closing" /\ decision = "lost") \/ Ended

\* The clean-window clock of a tripped detector is no older than the calm.
CalmInv ==
    /\ calm \in 0..ClearAfter
    /\ det.triggered => DetectorEnabled
    /\ det.triggered /\ det.clean # NoInstant => det.clean <= calm \/ NoProbeDue

\* The storm guard was armed no earlier than the last remedy.
GuardInv ==
    /\ remedied \in {NoInstant} \cup 0..ActionMinInterval
    /\ remedied # NoInstant => lastAction # NoInstant /\ lastAction <= remedied

HistoryInv == TypeOK /\ CalmInv /\ GuardInv

-----------------------------------------------------------------------------
(* The detector's operations and its clean-window clock. *)

\* record_disconnect stops the clock.
LEMMA DisconnectStopsClock ==
    ASSUME NEW d \in Detectors, d.triggered => DetectorEnabled
    PROVE  /\ RecordDisconnect(d).triggered => DetectorEnabled /\ RecordDisconnect(d).clean = NoInstant
           /\ d.triggered => RecordDisconnect(d).triggered
<1>1. CASE DetectorEnabled
  <2> DEFINE r == [d EXCEPT !.events = EventsAfterDisconnect(d), !.clean = NoInstant,
                            !.triggered = d.triggered \/ DisconnectTrips(d)]
  <2>1. RecordDisconnect(d) = r
    BY <1>1 DEF RecordDisconnect
  <2>2. r.clean = NoInstant
    BY DEF Detectors
  <2>3. r.triggered = (d.triggered \/ DisconnectTrips(d))
    BY DEF Detectors
  <2> HIDE DEF r
  <2> QED BY <1>1, <2>1, <2>2, <2>3
<1>2. CASE ~DetectorEnabled
  BY <1>2 DEF RecordDisconnect
<1> QED BY <1>1, <1>2

\* record_probe of a miss never clears a trip.
LEMMA MissFacts ==
    ASSUME NEW d \in Detectors, d.triggered => DetectorEnabled
    PROVE  /\ RecordMiss(d).triggered => DetectorEnabled
           /\ d.triggered => RecordMiss(d).triggered
<1>1. CASE DetectorEnabled
  <2>1. RecordMiss(d).triggered = (d.triggered \/ MissTrips(d))
    BY <1>1 DEF RecordMiss, Detectors
  <2> QED BY <1>1, <2>1
<1>2. CASE ~DetectorEnabled
  BY <1>2 DEF RecordMiss
<1> QED BY <1>1, <1>2

\* record_probe of an answer: a trip stops the clock, anything else leaves it.
LEMMA ProbeFacts ==
    ASSUME NEW d \in Detectors, NEW isSlow \in BOOLEAN, d.triggered => DetectorEnabled
    PROVE  /\ RecordProbe(d, isSlow).triggered <=> d.triggered \/ ProbeTrips(d, isSlow)
           /\ RecordProbe(d, isSlow).clean =
                 IF ProbeTrips(d, isSlow) THEN NoInstant ELSE d.clean
           /\ ProbeTrips(d, isSlow) => DetectorEnabled /\ ~d.triggered
<1>1. CASE DetectorEnabled
  <2>1. RecordProbe(d, isSlow).triggered = (d.triggered \/ ProbeTrips(d, isSlow))
    BY <1>1 DEF RecordProbe, Detectors
  <2>2. RecordProbe(d, isSlow).clean = IF ProbeTrips(d, isSlow) THEN NoInstant ELSE d.clean
    BY <1>1 DEF RecordProbe, Detectors
  <2>3. ProbeTrips(d, isSlow) => ~d.triggered
    BY DEF ProbeTrips
  <2> QED BY <1>1, <2>1, <2>2, <2>3
<1>2. CASE ~DetectorEnabled
  BY <1>2 DEF RecordProbe, ProbeTrips
<1> QED BY <1>1, <1>2

\* tick_healthy starts the clock or leaves it, and clears only a tripped
\* detector whose clock has run for ClearAfter.
LEMMA HealthyFacts ==
    ASSUME NEW d \in Detectors
    PROVE  /\ TickHealthy(d).triggered => d.triggered
           /\ TickHealthy(d).clean = IF d.clean = NoInstant THEN 0 ELSE d.clean
           /\ d.triggered /\ ~TickHealthy(d).triggered =>
                d.clean # NoInstant /\ d.clean >= ClearAfter
<1>1. CASE d.clean = NoInstant
  <2>1. TickHealthy(d) = [d EXCEPT !.clean = 0]
    BY <1>1 DEF TickHealthy, HealthyClears
  <2>2. [d EXCEPT !.clean = 0].triggered = d.triggered
    BY DEF Detectors
  <2>3. [d EXCEPT !.clean = 0].clean = 0
    BY DEF Detectors
  <2> QED BY <1>1, <2>1, <2>2, <2>3
<1>2. CASE d.clean # NoInstant /\ HealthyClears(d)
  <2>1. TickHealthy(d) = [NewDetector EXCEPT !.clean = d.clean]
    BY <1>2 DEF TickHealthy
  <2>2. [NewDetector EXCEPT !.clean = d.clean].triggered = FALSE
    BY DEF NewDetector
  <2>3. [NewDetector EXCEPT !.clean = d.clean].clean = d.clean
    BY DEF NewDetector
  <2>4. d.clean >= ClearAfter
    BY <1>2 DEF HealthyClears
  <2> QED BY <1>2, <2>1, <2>2, <2>3, <2>4
<1>3. CASE d.clean # NoInstant /\ ~HealthyClears(d)
  <2>1. TickHealthy(d) = d
    BY <1>3 DEF TickHealthy
  <2> QED BY <1>3, <2>1
<1> QED BY <1>1, <1>2, <1>3

\* The clock of the model keeps one age behind another.
LEMMA OlderIsMonotone ==
    ASSUME NEW limit \in Nat, NEW i \in 0..limit, NEW j \in 0..limit
    PROVE  /\ Older(j, limit) \in 0..limit /\ Older(j, limit) >= j
           /\ i <= j => Older(i, limit) <= Older(j, limit)
           /\ Older(i, limit) # NoInstant
  BY DEF Older, NoInstant

\* Time moves the clean-window clock and trips nothing.
LEMMA DetectorTickFacts ==
    ASSUME NEW d \in Detectors
    PROVE  /\ DetectorTick(d).triggered = d.triggered
           /\ DetectorTick(d).clean = Older(d.clean, ClearAfter)
<1> DEFINE aged == [i \in DOMAIN d.events |-> Older(d.events[i], Window + 1)]
<1>1. DetectorTick(d) = [d EXCEPT !.events = aged, !.clean = Older(d.clean, ClearAfter)]
  BY DEF DetectorTick
<1> HIDE DEF aged
<1>2. [d EXCEPT !.events = aged, !.clean = Older(d.clean, ClearAfter)].triggered = d.triggered
  BY DEF Detectors
<1>3. [d EXCEPT !.events = aged, !.clean = Older(d.clean, ClearAfter)].clean
        = Older(d.clean, ClearAfter)
  BY DEF Detectors
<1> QED BY <1>1, <1>2, <1>3

-----------------------------------------------------------------------------
(* The steps of the task. *)

\* The steps that record a disconnect (handle_session_failure).
Charges == ConnectFails \/ ConnectRefused \/ AuthRejected \/ Abandoned \/ ClosedAfterLoss

\* Every other step but a probe and the clock leaves the detector and the
\* guard alone, and a lost session is charged before the next probe.
LEMMA StepKinds ==
    ASSUME TypeOK, Next
    PROVE  \/ Charges
           \/ ProbeFails
           \/ \E isSlow \in BOOLEAN : ProbeSucceeds(isSlow) \/ ProbeReplaces(isSlow)
           \/ Tick
           \/ UNCHANGED <<det, lastAction>> /\ (NoProbeDue => NoProbeDue')
<1>1. CASE Start \/ SleepEnds \/ Connected \/ ForwardsOpened \/ ForwardsRefused
  BY <1>1 DEF Start, SleepEnds, Connected, ForwardsOpened, ForwardsRefused, history, NoProbeDue, Ended
<1>2. CASE ServeAny
  <2>1. CASE (pc = "loop" \/ pc = "connecting" \/ pc = "sleeping") /\ ServeWithoutSession
    BY <2>1 DEF ServeWithoutSession, history, NoProbeDue, Ended
  <2>2. CASE ServeBench \/ ServeExit \/ ServeFailover \/ ServeClose
    BY <2>2 DEF ServeBench, ServeExit, ServeFailover, ServeClose, history, NoProbeDue, Ended
  <2> QED BY <1>2, <2>1, <2>2 DEF ServeAny, ServeAtLoopHead, ServeWhileConnecting, ServeWhileSleeping
<1>3. CASE LoopStep
  BY <1>3 DEF LoopStep, GiveUp, BeginConnect, NoEndpointToPick, AtLoopHead, history, NoProbeDue, Ended
<1>4. CASE ClosedForExit \/ ClosedForRetry
  BY <1>4 DEF ClosedForExit, ClosedForRetry, history, NoProbeDue, Ended
<1>5. CASE \/ NoticeForward \/ (\E up \in SUBSET Forwards : ReopenForwards(up))
           \/ \E f \in Forwards : ForwardActivates(f) \/ ForwardFails(f)
  BY <1>5 DEF NoticeForward, ReopenForwards, ForwardActivates, ForwardFails, history, NoProbeDue, Ended
<1>6. CASE (\E c \in Clients : Request(c)) \/ DropHandle
  BY <1>6 DEF Request, DropHandle, history, session, NoProbeDue, Ended
<1> QED BY <1>1, <1>2, <1>3, <1>4, <1>5, <1>6
        DEF Next, Progress, Fault, TeardownStep, Charges

\* What handle_session_failure does to the detector and the guard.
LEMMA ChargesFacts ==
    ASSUME Charges
    PROVE  det' = RecordDisconnect(det) /\ lastAction' \in {0, lastAction}
  BY DEF Charges, ConnectFails, ConnectRefused, AuthRejected, Abandoned, ClosedAfterLoss,
         ChargeFailure, GuardAfterTrip

\* The clean-window clock never runs ahead of the calm.
LEMMA CalmStep ==
    ASSUME TypeOK, CalmInv, HistoryNext PROVE CalmInv'
<1>1. Next /\ det \in Detectors /\ ClearAfter \in Nat /\ calm \in 0..ClearAfter
  BY DetectorAssumption DEF HistoryNext, TypeOK, CalmInv
<1>2. det.triggered \in BOOLEAN /\ det.clean \in {NoInstant} \cup 0..ClearAfter
  BY <1>1 DEF Detectors
<1>3. /\ calm' \in 0..ClearAfter
      /\ ~Disturbance => calm' >= calm
      /\ Disturbance => calm' = 0
  BY <1>1, OlderIsMonotone DEF HistoryNext
<1>4. CASE Charges
  <2>1. det' = RecordDisconnect(det)
    BY <1>4, ChargesFacts
  <2> QED BY <1>1, <1>3, <2>1, DisconnectStopsClock DEF CalmInv
<1>5. CASE ProbeFails
  <2>1. det' = RecordMiss(det) /\ NoProbeDue'
    BY <1>5 DEF ProbeFails, Break, NoProbeDue
  <2> QED BY <1>1, <1>3, <2>1, MissFacts DEF CalmInv
<1>6. ASSUME NEW isSlow \in BOOLEAN, ProbeSucceeds(isSlow) PROVE CalmInv'
  <2> DEFINE d == RecordProbe(det, isSlow)
  <2>1. det' = TickHealthy(d) /\ d \in Detectors /\ ~NoProbeDue
    BY <1>1, <1>6, RecordProbeType DEF ProbeSucceeds, NoProbeDue, Ended
  <2>2. /\ d.triggered <=> det.triggered \/ ProbeTrips(det, isSlow)
        /\ d.clean = IF ProbeTrips(det, isSlow) THEN NoInstant ELSE det.clean
        /\ ProbeTrips(det, isSlow) => DetectorEnabled /\ ~det.triggered
    BY <1>1, ProbeFacts DEF CalmInv
  <2> HIDE DEF d
  <2>3. /\ det'.triggered => d.triggered
        /\ det'.clean = IF d.clean = NoInstant THEN 0 ELSE d.clean
    BY <2>1, HealthyFacts
  <2>4. det'.triggered => DetectorEnabled
    BY <2>2, <2>3 DEF CalmInv
  <2>5. CASE ProbeTrips(det, isSlow)
    <3>1. det'.clean = 0
      BY <2>2, <2>3, <2>5
    <3> QED BY <1>3, <2>4, <3>1 DEF CalmInv
  <2>6. CASE ~ProbeTrips(det, isSlow) /\ Disturbance
    <3>1. ~det.triggered \/ ~det'.triggered
      <4>1. pc = "active" /\ pc' = "active"
        BY <1>6 DEF ProbeSucceeds
      <4>2. ~ConnectFails /\ ~ConnectRefused /\ ~AuthRejected /\ ~Abandoned /\ ~ClosedAfterLoss
        BY <4>1 DEF ConnectFails, ConnectRefused, AuthRejected, Abandoned, ClosedAfterLoss
      <4>3. ~ProbeFails
        BY <4>1 DEF ProbeFails, Break
      <4> QED BY <2>6, <4>2, <4>3 DEF Disturbance
    <3>2. ~det'.triggered
      BY <2>2, <2>3, <2>6, <3>1
    <3> QED BY <1>3, <3>2 DEF CalmInv
  <2>7. CASE ~ProbeTrips(det, isSlow) /\ ~Disturbance
    <3>1. calm' >= calm
      BY <1>3, <2>7
    <3>2. det'.triggered => det.triggered /\ det'.clean = IF det.clean = NoInstant THEN 0 ELSE det.clean
      BY <2>2, <2>3, <2>7
    <3>3. det.triggered /\ det.clean # NoInstant => det.clean <= calm
      BY <2>1 DEF CalmInv
    <3>4. det'.triggered => det'.clean <= calm'
      BY <1>1, <1>2, <1>3, <3>1, <3>2, <3>3
    <3> QED BY <1>3, <2>4, <3>4 DEF CalmInv
  <2> QED BY <2>5, <2>6, <2>7
<1>7. ASSUME NEW isSlow \in BOOLEAN, ProbeReplaces(isSlow) PROVE CalmInv'
  <2>1. det' = RecordProbe(det, isSlow) /\ ProbeTrips(det, isSlow)
    BY <1>7 DEF ProbeReplaces
  <2> QED BY <1>1, <1>3, <2>1, ProbeFacts DEF CalmInv
<1>8. CASE Tick
  <2>1. det' = DetectorTick(det) /\ UNCHANGED <<pc, decision>>
    BY <1>8 DEF Tick, session
  <2>2. det'.triggered = det.triggered /\ det'.clean = Older(det.clean, ClearAfter)
    BY <1>1, <2>1, DetectorTickFacts
  <2>3. ~Disturbance
    <3>1. ~ConnectFails /\ ~ConnectRefused /\ ~AuthRejected /\ ~Abandoned /\ ~ClosedAfterLoss
      BY <2>1 DEF ConnectFails, ConnectRefused, AuthRejected, Abandoned, ClosedAfterLoss,
                  BackOff, EndTask
    <3>2. ~ProbeFails
      BY <2>1 DEF ProbeFails, Break
    <3> QED BY <2>2, <3>1, <3>2 DEF Disturbance
  <2>4. calm' = Older(calm, ClearAfter)
    BY <1>8, <2>3 DEF HistoryNext
  <2>5. NoProbeDue => NoProbeDue'
    BY <2>1 DEF NoProbeDue, Ended
  <2>6. ASSUME det.triggered, det'.clean # NoInstant, ~NoProbeDue' PROVE det'.clean <= calm'
    <3>1. det.clean # NoInstant /\ det.clean \in 0..ClearAfter
      BY <1>2, <2>2, <2>6 DEF Older
    <3>2. det.clean <= calm
      BY <2>5, <2>6, <3>1 DEF CalmInv
    <3> QED BY <1>1, <2>2, <2>4, <3>1, <3>2, OlderIsMonotone
  <2> QED BY <1>3, <2>2, <2>6 DEF CalmInv
<1>9. CASE /\ ~Charges /\ ~ProbeFails
           /\ UNCHANGED <<det, lastAction>> /\ (NoProbeDue => NoProbeDue')
  <2>1. ~Disturbance
    BY <1>9 DEF Disturbance, Charges
  <2> QED BY <1>1, <1>2, <1>3, <1>9, <2>1 DEF CalmInv
<1> QED BY <1>1, <1>4, <1>5, <1>6, <1>7, <1>8, <1>9, StepKinds

\* A remedy arms the guard, and nothing turns it back.
LEMMA GuardStep ==
    ASSUME TypeOK, GuardInv, HistoryNext PROVE GuardInv'
<1> DEFINE L == ActionMinInterval
<1>1. /\ Next /\ L \in Nat /\ lastAction \in {NoInstant} \cup 0..L
      /\ remedied \in {NoInstant} \cup 0..L
  BY SupervisorAssumption DEF HistoryNext, TypeOK, GuardInv
<1>2. CASE Remedied
  <2>1. lastAction' = 0
    BY <1>2 DEF Remedied, ProbeReplaces, GuardAfterTrip
  <2>2. remedied' = 0
    BY <1>2 DEF HistoryNext
  <2> QED BY <1>1, <2>1, <2>2 DEF GuardInv, NoInstant
<1>3. CASE ~Remedied /\ Tick
  <2>1. lastAction' = Older(lastAction, L) /\ remedied' = Older(remedied, L)
    BY <1>3 DEF HistoryNext, Tick
  <2>2. CASE remedied = NoInstant
    BY <2>1, <2>2 DEF GuardInv, Older
  <2>3. CASE remedied # NoInstant
    <3>1. remedied \in 0..L /\ lastAction \in 0..L /\ lastAction <= remedied
      BY <1>1, <2>3 DEF GuardInv
    <3> QED BY <1>1, <2>1, <3>1, OlderIsMonotone DEF GuardInv
  <2> QED BY <2>2, <2>3
<1>4. CASE ~Remedied /\ ~Tick
  <2>1. remedied' = remedied
    BY <1>4 DEF HistoryNext
  <2>2. lastAction' \in {0, lastAction}
    <3>1. CASE Charges
      BY <3>1, ChargesFacts
    <3>2. CASE ProbeFails
      BY <3>2 DEF ProbeFails, GuardAfterTrip
    <3>3. CASE \E isSlow \in BOOLEAN : ProbeSucceeds(isSlow) \/ ProbeReplaces(isSlow)
      BY <3>3 DEF ProbeSucceeds, ProbeReplaces, GuardAfterTrip
    <3> QED BY <1>1, <1>4, <3>1, <3>2, <3>3, StepKinds
  <2> QED BY <1>1, <2>1, <2>2 DEF GuardInv, NoInstant
<1> QED BY <1>2, <1>3, <1>4

-----------------------------------------------------------------------------
(* The theorems. *)

\* The clocks of ProfileHistory only watch: it is ProfileSupervisor.
LEMMA HistoryIsSpec == HistorySpec => Spec
<1>1. HistoryInit => Init
  BY DEF HistoryInit
<1>2. [HistoryNext]_historyVars => [Next]_vars
  BY DEF HistoryNext, historyVars
<1> QED BY <1>1, <1>2, PTL DEF HistorySpec, Spec

\* The clean-window clock and the storm guard never run ahead of what
\* happened (last_clean, last_instability_action).
THEOREM ClocksAreHonest == HistorySpec => []HistoryInv
<1>1. HistoryInit => CalmInv /\ GuardInv
  <2> SUFFICES ASSUME HistoryInit PROVE CalmInv /\ GuardInv
    OBVIOUS
  <2>1. det = NewDetector /\ calm = 0 /\ remedied = NoInstant /\ ClearAfter \in Nat
    BY DetectorAssumption DEF HistoryInit, Init
  <2>2. det.triggered = FALSE
    BY <2>1 DEF NewDetector
  <2> QED BY <2>1, <2>2 DEF CalmInv, GuardInv
<1>2. TypeOK /\ CalmInv /\ GuardInv /\ [HistoryNext]_historyVars => CalmInv' /\ GuardInv'
  <2> SUFFICES ASSUME TypeOK, CalmInv, GuardInv, [HistoryNext]_historyVars
               PROVE  CalmInv' /\ GuardInv'
    OBVIOUS
  <2>1. CASE HistoryNext
    BY <2>1, CalmStep, GuardStep
  <2>2. CASE UNCHANGED historyVars
    BY <2>2 DEF historyVars, vars, CalmInv, GuardInv, NoProbeDue, Ended
  <2> QED BY <2>1, <2>2
<1> QED BY <1>1, <1>2, HistoryIsSpec, TypeCorrect, PTL DEF HistorySpec, HistoryInv

\* A tripped detector clears only after ClearAfter of health counted from the
\* trip and from the last disconnect (record_probe, tick_healthy).
THEOREM ClearsAfterCalm == HistorySpec => ClearsOnlyAfterCalm
<1>1. HistoryInv /\ [HistoryNext]_historyVars
        => [det.triggered /\ ~det'.triggered => calm >= ClearAfter]_historyVars
  <2> SUFFICES ASSUME HistoryInv, HistoryNext, det.triggered, ~det'.triggered
               PROVE  calm >= ClearAfter
    OBVIOUS
  <2>1. TypeOK /\ CalmInv /\ Next /\ det \in Detectors /\ DetectorEnabled
    BY DEF HistoryInv, HistoryNext, TypeOK, CalmInv
  <2>2. ~Charges
    BY <2>1, ChargesFacts, DisconnectStopsClock
  <2>3. ~ProbeFails
    BY <2>1, MissFacts DEF ProbeFails
  <2>4. ~Tick
    BY <2>1, DetectorTickFacts DEF Tick
  <2>5. PICK isSlow \in BOOLEAN : ProbeSucceeds(isSlow) \/ ProbeReplaces(isSlow)
    BY <2>1, <2>2, <2>3, <2>4, StepKinds
  <2> DEFINE d == RecordProbe(det, isSlow)
  <2>6. d \in Detectors /\ d.triggered /\ d.clean = det.clean /\ ~ProbeTrips(det, isSlow)
    BY <2>1, ProbeFacts, RecordProbeType
  <2>7. det' = TickHealthy(d) /\ pc = "active"
    BY <2>5, <2>6 DEF ProbeSucceeds, ProbeReplaces
  <2> HIDE DEF d
  <2>8. det.clean # NoInstant /\ det.clean >= ClearAfter
    BY <2>6, <2>7, HealthyFacts
  <2>9. det.clean <= calm
    BY <2>1, <2>7, <2>8 DEF CalmInv, NoProbeDue, Ended
  <2>10. ClearAfter \in Nat /\ det.clean \in {NoInstant} \cup 0..ClearAfter /\ calm \in 0..ClearAfter
    BY <2>1, DetectorAssumption DEF Detectors, CalmInv
  <2> QED BY <2>8, <2>9, <2>10
<1> QED BY <1>1, ClocksAreHonest, PTL DEF HistorySpec, ClearsOnlyAfterCalm

\* Live sessions are torn down for instability at least ActionMinInterval
\* apart (allow_instability_action).
THEOREM RemediesSpaced == HistorySpec => RemediesAreSpaced
<1>1. HistoryInv /\ [HistoryNext]_historyVars
        => [Remedied => remedied = NoInstant \/ remedied >= ActionMinInterval]_historyVars
  <2> SUFFICES ASSUME HistoryInv, HistoryNext, Remedied, remedied # NoInstant
               PROVE  remedied >= ActionMinInterval
    OBVIOUS
  <2>1. lastAction = NoInstant \/ lastAction >= ActionMinInterval
    BY DEF Remedied, ProbeReplaces, ActionAllowed
  <2>2. lastAction # NoInstant /\ lastAction <= remedied
    BY DEF HistoryInv, GuardInv
  <2>3. /\ ActionMinInterval \in Nat /\ remedied \in 0..ActionMinInterval
        /\ lastAction \in 0..ActionMinInterval
    BY <2>2, SupervisorAssumption DEF HistoryInv, GuardInv, TypeOK
  <2> QED BY <2>1, <2>2, <2>3
<1> QED BY <1>1, ClocksAreHonest, PTL DEF HistorySpec, RemediesAreSpaced
=============================================================================
