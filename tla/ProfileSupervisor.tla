------------------------- MODULE ProfileSupervisor -------------------------
(***************************************************************************)
(* One supervised profile (spt-supervisor/src/profile.rs): the task that   *)
(* ProfileTask::run is, the control channel through which the handle's     *)
(* callers reach it, and the state machine, backoff, instability detector  *)
(* and endpoint selector it drives.                                        *)
(*                                                                         *)
(* A step of the task is everything it does between two awaits.  While it  *)
(* awaits, callers enqueue requests, forwards change state and time passes.*)
(* Instants are kept as ages or as ticks left; Tick moves all of them.     *)
(***************************************************************************)
EXTENDS Integers, Sequences, FiniteSets,
        ProfileStateMachine, Backoff, InstabilityDetector, EndpointSelector

CONSTANTS
    Forwards,           \* the forwards of the profile
    ForwardIndex,       \* the place of each in the configured list
    Required,           \* those with required = true
    ResetAfter,         \* BackoffConfig::reset_after, in ticks
    RetryAuthFailures,  \* BackoffConfig::retry_auth_failures
    InstabilityAction,  \* InstabilityWindow::action
    ActionMinInterval,  \* INSTABILITY_ACTION_MIN_INTERVAL, in ticks
    Clients,            \* the callers of the ProfileSupervisor handle
    Requests,           \* what they may ask for, records [op, to]
    QueueCap,           \* capacity of the control channel (16 in the code)
    HandleDropped,      \* TRUE iff the handle may be dropped without stop()
    NoEndpoint,         \* Option<Endpoint>: None
    NoClient,           \* no caller
    MalformedKey        \* a failover key that is not host:port

\* The actions that tear a live session down when the detector trips.
Remedies == {"Failover", "RestartSession"}

\* Every request a caller can make: failover(key), close_session(),
\* drain(), open_bench_forward() and stop().
AllRequests ==
    [op : {"Failover"}, to : Endpoints \cup {NoPin, UnknownPin, MalformedKey}]
        \cup [op : {"CloseSession", "Drain", "OpenBench", "Shutdown"}, to : {NoPin}]

ASSUME SupervisorAssumption ==
    /\ ForwardIndex \in [Forwards -> Nat]
    /\ \A f, g \in Forwards : ForwardIndex[f] = ForwardIndex[g] => f = g
    /\ Required \subseteq Forwards
    /\ ResetAfter \in Nat
    /\ RetryAuthFailures \in BOOLEAN
    /\ InstabilityAction \in
           {"MarkDegraded", "EmitEvent", "IncreaseKeepalive", "IncreaseBackoff"} \cup Remedies
    /\ ActionMinInterval \in Nat
    /\ Requests \subseteq AllRequests
    /\ QueueCap \in Nat \ {0}
    /\ HandleDropped \in BOOLEAN
    /\ NoEndpoint \notin Endpoints
    /\ NoClient \notin Clients
    /\ MalformedKey \notin Endpoints \cup {NoPin, UnknownPin}

VARIABLES
    pc,          \* the await the task is at
    sm,          \* ProfileTask::sm, also what the state watch shows
    queue,       \* the control channel, oldest request first
    rep,         \* what each caller knows of its last request
    sel,         \* the endpoint selector
    det,         \* the instability detector
    attempt,     \* Backoff::attempt
    wake,        \* ticks left of sleep_or_control
    upSince,     \* age of session_up_since
    lastAction,  \* age of last_instability_action
    target,      \* the endpoint of the current loop iteration
    current,     \* current_endpoint
    row,         \* endpoint of the session row this task has published
    fwd,         \* what the task's watch of each forward shows
    degraded,    \* run_active: degraded
    reopen,      \* run_active: reopen_at.is_some()
    decision,    \* the ActiveDecision being carried out
    pending      \* the caller to be answered once it has been

vars == <<pc, sm, queue, rep, sel, det, attempt, wake, upSince, lastAction,
          target, current, row, fwd, degraded, reopen, decision, pending>>

\* State that outlives a session, and the state of a session.
history == <<sel, det, attempt, upSince, lastAction, current>>
session == <<target, current, row, fwd, degraded, reopen, decision, pending>>

(***************************************************************************)
(* A forward's slot is "absent" when it was never opened in this session,  *)
(* "fresh" when it is healthy and its watch shows no change since it was   *)
(* opened, "live" when it is healthy and its watch has changed, and "down" *)
(* when it has failed or stopped, or when reopening it has failed.         *)
(***************************************************************************)
SlotStates == {"absent", "fresh", "live", "down"}
NoForwards == [f \in Forwards |-> "absent"]
Down == {f \in Forwards : fwd[f] = "down"}

\* The places where the task awaits, and the two ways it ends.
Awaits == {"spawned", "loop", "connecting", "opening", "abandoning", "active",
           "closing", "sleeping", "done", "aborted"}
Ended == pc \in {"done", "aborted"}

\* What the task does once the session and its forwards are closed.
Decisions == {"none", "exit", "drain", "failover", "close", "lost", "rotate", "restart"}

\* A caller waits for the reply to a request, which is ok or err or is gone with
\* the task; a caller of stop() joins the task until it has stopped.
Replies == {"idle", "waiting", "joining", "ok", "err", "gone", "stopped"}

Init ==
    /\ pc = "spawned"
    /\ sm = InitialState
    /\ queue = << >>
    /\ rep = [c \in Clients |-> "idle"]
    /\ sel = NewSelector
    /\ det = NewDetector
    /\ attempt = 0
    /\ wake = 0
    /\ upSince = NoInstant
    /\ lastAction = NoInstant
    /\ target = NoEndpoint
    /\ current = NoEndpoint
    /\ row = NoEndpoint
    /\ fwd = NoForwards
    /\ degraded = FALSE
    /\ reopen = FALSE
    /\ decision = "none"
    /\ pending = NoClient

-----------------------------------------------------------------------------
(* Pieces of the task's steps.                                              *)

\* The callers are not told that the task is gone.
RepliesAtEndLost(r) == r

\* The callers once the task is gone: a dropped reply channel, a join that
\* returns.
RepliesAtEnd(r) ==
    [c \in Clients |-> CASE r[c] = "waiting" -> "gone"
                         [] r[c] = "joining" -> "stopped"
                         [] OTHER -> r[c]]

\* The locals of run_active go out of scope.
LeaveActive ==
    /\ fwd' = NoForwards
    /\ degraded' = FALSE
    /\ reopen' = FALSE

\* The end of run: cleanup_session, Stop, Stopped; the channel is dropped.
EndTask(s, r) ==
    /\ pc' = "done"
    /\ sm' = Step(Step(s, "Stop"), "Stopped")
    /\ row' = NoEndpoint
    /\ queue' = << >>
    /\ rep' = RepliesAtEnd(r)
    /\ wake' = 0
    /\ target' = NoEndpoint
    /\ decision' = "none"
    /\ pending' = NoClient
    /\ LeaveActive

\* The loop starts over without leaving Reconnecting.
EnterResolvingSkipped(s) == s

\* enter_resolving.
EnterResolving(s) ==
    CASE s = "Reconnecting" -> Step(s, "RetryNow")
      [] s = "FailingOver"  -> Step(s, "EndpointReady")
      [] OTHER -> s

\* allow_instability_action: whether it allows one now.
ActionAllowed == lastAction = NoInstant \/ lastAction >= ActionMinInterval

\* on_instability_trip: the state it leaves, and the storm guard.
StateAfterTrip(s) ==
    IF InstabilityAction = "EmitEvent" THEN s ELSE Step(s, "InstabilityHit")
GuardNeverArmed == lastAction
GuardAfterTrip ==
    IF InstabilityAction \in Remedies /\ ActionAllowed THEN 0 ELSE lastAction

\* handle_session_failure, but for the state machine.
ChargeFailure(e) ==
    /\ sel' = RecordFailure(sel, e)
    /\ det' = RecordDisconnect(det)
    /\ lastAction' = IF DisconnectTrips(det) THEN GuardAfterTrip ELSE lastAction

\* What handle_session_failure makes of the state machine.
StateAfterFailure(s) == IF DisconnectTrips(det) THEN StateAfterTrip(s) ELSE s

\* next_backoff: the attempt counter once a stable session has reset it, and
\* the overflow of the attempt number it reports, which panics: every build
\* checks overflow.
AttemptAfterReset ==
    IF upSince # NoInstant /\ upSince >= ResetAfter THEN 0 ELSE attempt
CounterOverflows == AttemptAfterReset = U32Max

\* next_backoff, and going to sleep for the delay it returns.  A panic ends the
\* task where it is, without the cleanup at the end of run.
BackOff ==
    /\ upSince' = NoInstant
    /\ \/ /\ ~CounterOverflows
          /\ attempt' = SatInc(AttemptAfterReset)
          /\ \E d \in NextDelays(AttemptAfterReset) : wake' = d
          /\ pc' = "sleeping"
          /\ UNCHANGED <<queue, rep>>
       \/ /\ CounterOverflows
          /\ attempt' = AttemptAfterReset
          /\ wake' = 0
          /\ pc' = "aborted"
          /\ queue' = << >>
          /\ rep' = RepliesAtEnd(rep)

\* apply_manual_override: the selector it leaves, and whether it fails.
SelectorAfterOverride(to) ==
    IF to = MalformedKey THEN sel ELSE SetManual(sel, to)
OverrideReplyUnsent(to) == IF to = MalformedKey THEN "waiting" ELSE "ok"
OverrideReply(to) == IF to = MalformedKey THEN "err" ELSE "ok"

-----------------------------------------------------------------------------
(* The task.                                                                *)

\* run, up to its loop.
Start ==
    /\ pc = "spawned"
    /\ pc' = "loop"
    /\ sm' = Step(sm, "Start")
    /\ UNCHANGED <<queue, rep, wake, history, session>>

(***************************************************************************)
(* A request that arrives while there is no session.  Shutdown and Drain   *)
(* end the task; anything else is answered, the override of a Failover is  *)
(* stored for the next pick, and the loop starts over.                     *)
(***************************************************************************)
ServeWithoutSession ==
    LET m == Head(queue)
    IN  /\ queue # << >>
        /\ \/ /\ m.op \in {"Shutdown", "Drain"}
              /\ EndTask(sm, IF m.op = "Drain" THEN [rep EXCEPT ![m.from] = "ok"] ELSE rep)
              /\ UNCHANGED history
           \/ /\ m.op \in {"Failover", "CloseSession", "OpenBench"}
              /\ queue' = Tail(queue)
              /\ sel' = IF m.op = "Failover" THEN SelectorAfterOverride(m.to) ELSE sel
              /\ rep' = [rep EXCEPT ![m.from] =
                            CASE m.op = "Failover"     -> OverrideReply(m.to)
                              [] m.op = "CloseSession" -> "ok"
                              [] m.op = "OpenBench"    -> "err"]
              /\ pc' = "loop"
              /\ wake' = 0
              /\ target' = NoEndpoint
              /\ UNCHANGED <<sm, det, attempt, upSince, lastAction, current,
                             row, fwd, degraded, reopen, decision, pending>>

\* The try_recv loop at the head of the loop, and handle_control_idle.
ServeAtLoopHead == pc = "loop" /\ ServeWithoutSession

\* connect is awaited without listening to the channel.
ConnectIgnoresControl == FALSE

\* The control arm of the select around connect.
ServeWhileConnecting == pc = "connecting" /\ ServeWithoutSession

\* The control arm of sleep_or_control.
ServeWhileSleeping == pc = "sleeping" /\ ServeWithoutSession

\* The loop goes on with the channel empty.
AtLoopHead == pc = "loop" /\ queue = << >>

\* backoff.exhausted(): the profile gives up.
GiveUp ==
    /\ AtLoopHead
    /\ Exhausted(attempt)
    /\ EndTask(sm, rep)
    /\ UNCHANGED history

\* pick_endpoint returns an endpoint, and connect begins.
BeginConnect ==
    /\ AtLoopHead
    /\ ~Exhausted(attempt)
    /\ \E e \in Pick(sel) : target' = e
    /\ sm' = Step(EnterResolving(sm), "ResolveOk")
    /\ pc' = "connecting"
    /\ UNCHANGED <<queue, rep, wake, history, row, fwd, degraded, reopen, decision, pending>>

\* pick_endpoint returns None.
NoEndpointToPick ==
    /\ AtLoopHead
    /\ ~Exhausted(attempt)
    /\ Pick(sel) = {}
    /\ sm' = Step(EnterResolving(sm), "FailoverPick")
    /\ BackOff
    /\ UNCHANGED <<sel, det, lastAction, session>>

\* connect returns a session, which is published.
Connected ==
    /\ pc = "connecting"
    /\ sel' = RecordSuccess(sel, target)
    /\ sm' = Step(Step(sm, "ConnectOk"), "AuthOk")
    /\ current' = target
    /\ row' = target
    /\ pc' = "opening"
    /\ UNCHANGED <<queue, rep, wake, det, attempt, upSince, lastAction,
                   target, fwd, degraded, reopen, decision, pending>>

\* connect fails with an error worth a retry: any error that is neither a
\* trust or key failure nor, unless retry_auth_failures, an auth failure.
ConnectFails ==
    /\ pc = "connecting"
    /\ sm' = StateAfterFailure(Step(sm, "ConnectFail"))
    /\ ChargeFailure(target)
    /\ BackOff
    /\ target' = NoEndpoint
    /\ UNCHANGED <<current, row, fwd, degraded, reopen, decision, pending>>

\* is_terminal_connect_error: a trust or key failure.
ConnectRefused ==
    /\ pc = "connecting"
    /\ ChargeFailure(target)
    /\ EndTask(StateAfterFailure(Step(sm, "ConnectFail")), rep)
    /\ UNCHANGED <<attempt, upSince, current>>

\* is_auth_failure with retry_auth_failures off.
AuthRejected ==
    /\ pc = "connecting"
    /\ ~RetryAuthFailures
    /\ ChargeFailure(target)
    /\ EndTask(StateAfterFailure(Step(sm, "AuthFail")), rep)
    /\ UNCHANGED <<attempt, upSince, current>>

\* open_forwards succeeds: a forward that is not required may be missing.
ForwardsOpened ==
    /\ pc = "opening"
    /\ \E up \in SUBSET Forwards :
           /\ Required \subseteq up
           /\ fwd' = [f \in Forwards |-> IF f \in up THEN "fresh" ELSE "absent"]
    /\ sm' = Step(sm, "ForwardsUp")
    /\ upSince' = 0
    /\ pc' = "active"
    /\ UNCHANGED <<queue, rep, wake, sel, det, attempt, lastAction,
                   target, current, row, degraded, reopen, decision, pending>>

\* open_forwards fails on a required forward.
ForwardsRefused ==
    /\ pc = "opening"
    /\ Required # {}
    /\ sm' = Step(sm, "SessionLost")
    /\ row' = NoEndpoint
    /\ pc' = "abandoning"
    /\ UNCHANGED <<queue, rep, wake, history, target, fwd, degraded, reopen, decision, pending>>

\* The abandoned session is closed.
Abandoned ==
    /\ pc = "abandoning"
    /\ sm' = StateAfterFailure(sm)
    /\ ChargeFailure(target)
    /\ BackOff
    /\ target' = NoEndpoint
    /\ UNCHANGED <<current, row, fwd, degraded, reopen, decision, pending>>

\* The sleep of sleep_or_control is over.
SleepEnds ==
    /\ pc = "sleeping"
    /\ wake = 0
    /\ pc' = "loop"
    /\ UNCHANGED <<sm, queue, rep, wake, history, session>>

-----------------------------------------------------------------------------
(* run_active, while the session is up.                                     *)

\* The loop breaks with a decision; the runners and the session are stopped.
Break(d, c) ==
    /\ pc' = "closing"
    /\ decision' = d
    /\ pending' = c
    /\ LeaveActive

\* The control arm: a request that leaves the session alone.
ServeBench ==
    LET m == Head(queue)
    IN  /\ pc = "active"
        /\ queue # << >>
        /\ m.op = "OpenBench"
        /\ \E r \in {"ok", "err"} : rep' = [rep EXCEPT ![m.from] = r]
        /\ queue' = Tail(queue)
        /\ UNCHANGED <<pc, sm, wake, history, session>>

\* The control arm: Shutdown and Drain.  The state machine is not told yet.
ServeExit ==
    LET m == Head(queue)
    IN  /\ pc = "active"
        /\ queue # << >>
        /\ \/ m.op = "Shutdown" /\ Break("exit", NoClient)
           \/ m.op = "Drain" /\ Break("drain", m.from)
        /\ queue' = Tail(queue)
        /\ UNCHANGED <<sm, rep, wake, history, target, row>>

\* The control arm: Failover, answered before the session is closed.
ServeFailover ==
    LET m == Head(queue)
    IN  /\ pc = "active"
        /\ queue # << >>
        /\ m.op = "Failover"
        /\ sel' = SelectorAfterOverride(m.to)
        /\ rep' = [rep EXCEPT ![m.from] = OverrideReply(m.to)]
        /\ sm' = Step(sm, "SessionLost")
        /\ queue' = Tail(queue)
        /\ Break("failover", NoClient)
        /\ UNCHANGED <<wake, det, attempt, upSince, lastAction, target, current, row>>

\* The control arm: CloseSession, answered after the session is closed.
ServeClose ==
    LET m == Head(queue)
    IN  /\ pc = "active"
        /\ queue # << >>
        /\ m.op = "CloseSession"
        /\ sm' = Step(sm, "SessionLost")
        /\ queue' = Tail(queue)
        /\ Break("close", m.from)
        /\ UNCHANGED <<rep, wake, history, target, row>>

\* A health probe succeeds; tick_healthy follows.
ProbeSucceeds(isSlow) ==
    LET trips == ProbeTrips(det, isSlow)
        d == RecordProbe(det, isSlow)
        s == IF trips THEN StateAfterTrip(sm) ELSE sm
    IN  /\ pc = "active"
        /\ ~(trips /\ InstabilityAction \in Remedies /\ ActionAllowed)
        /\ det' = TickHealthy(d)
        /\ sm' = IF HealthyClears(d) THEN Step(s, "InstabilityClear") ELSE s
        /\ UNCHANGED <<pc, queue, rep, wake, sel, attempt, upSince, lastAction, session>>

\* A health probe succeeds but is slow enough to trip the detector, and the
\* configured action replaces the session.
ProbeReplaces(isSlow) ==
    /\ pc = "active"
    /\ ProbeTrips(det, isSlow)
    /\ InstabilityAction \in Remedies
    /\ ActionAllowed
    /\ det' = RecordProbe(det, isSlow)
    /\ lastAction' = GuardAfterTrip
    /\ sm' = Step(StateAfterTrip(sm), "SessionLost")
    /\ Break(IF InstabilityAction = "Failover" THEN "rotate" ELSE "restart", NoClient)
    /\ UNCHANGED <<queue, rep, wake, sel, attempt, upSince, target, current, row>>

\* A health probe fails or times out.
ProbeFails ==
    /\ pc = "active"
    /\ det' = RecordMiss(det)
    /\ lastAction' = IF MissTrips(det) THEN GuardAfterTrip ELSE lastAction
    /\ sm' = Step(IF MissTrips(det) THEN StateAfterTrip(sm) ELSE sm, "SessionLost")
    /\ Break("lost", NoClient)
    /\ UNCHANGED <<queue, rep, wake, sel, attempt, upSince, target, current, row>>

(***************************************************************************)
(* any_forward_changed.  Every pass clones each slot's receiver, so a      *)
(* change is never marked as seen, and the futures are polled in slot      *)
(* order: the first slot whose watch has ever changed is the one reported. *)
(* (A slot that wakes the suspended task is reported even if an earlier    *)
(* one changes before the poll; the same steps in the other order.)        *)
(***************************************************************************)
Changed == {f \in Forwards : fwd[f] \in {"live", "down"}}
FirstChanged == CHOOSE f \in Changed : \A g \in Changed : ForwardIndex[f] <= ForwardIndex[g]

NoticeForward ==
    /\ pc = "active"
    /\ Changed # {}
    /\ fwd[FirstChanged] = "down"
    /\ degraded' = TRUE
    /\ sm' = IF degraded THEN sm ELSE Step(sm, "ForwardDown")
    /\ reopen' = TRUE
    /\ UNCHANGED <<pc, queue, rep, wake, history, target, row, fwd, decision, pending>>

\* A reopen that fails is not tried again.
ReopenOnce(allUp) == FALSE

\* Whether another reopen is scheduled once one has been tried.
ReopenAgain(allUp) == ~allUp

\* The reopen tick and reopen_failed_forwards, which succeeds for those in up.
ReopenForwards(up) ==
    LET allUp == up = Down
    IN  /\ pc = "active"
        /\ reopen
        /\ up \subseteq Down
        /\ fwd' = [f \in Forwards |-> IF f \in up THEN "fresh" ELSE fwd[f]]
        /\ reopen' = ReopenAgain(allUp)
        /\ degraded' = (degraded /\ ~allUp)
        /\ sm' = IF allUp /\ degraded THEN Step(sm, "ForwardsUp") ELSE sm
        /\ UNCHANGED <<pc, queue, rep, wake, history, target, row, decision, pending>>

\* The session is closed, and the task ends.
ClosedForExit ==
    /\ pc = "closing"
    /\ decision \in {"exit", "drain"}
    /\ EndTask(sm, IF decision = "drain" THEN [rep EXCEPT ![pending] = "ok"] ELSE rep)
    /\ UNCHANGED history

\* The row of a closed session stays in the registry.
EndSessionKeepsRow(r) ==
    /\ row' = row
    /\ target' = NoEndpoint
    /\ decision' = "none"
    /\ pending' = NoClient

\* The way back to the loop, which leaves r of the session's row.
EndSession(r) ==
    /\ row' = r
    /\ target' = NoEndpoint
    /\ decision' = "none"
    /\ pending' = NoClient

\* The session is closed, and the task reconnects without backoff.
ClosedForRetry ==
    /\ pc = "closing"
    /\ decision \in {"failover", "close", "rotate", "restart"}
    /\ EndSession(NoEndpoint)
    /\ rep' = IF decision = "close" THEN [rep EXCEPT ![pending] = "ok"] ELSE rep
    /\ sel' = IF decision = "rotate" THEN RecordFailure(sel, current) ELSE sel
    /\ pc' = "sleeping"
    /\ wake' = 0
    /\ UNCHANGED <<sm, queue, det, attempt, upSince, lastAction, current, fwd, degraded, reopen>>

\* The lost session is closed, charged to its endpoint, and backed off from;
\* its row goes once run_active has returned, which a panic keeps it from.
ClosedAfterLoss ==
    /\ pc = "closing"
    /\ decision = "lost"
    /\ IF CounterOverflows THEN EndSession(row) ELSE EndSession(NoEndpoint)
    /\ sm' = StateAfterFailure(sm)
    /\ ChargeFailure(current)
    /\ BackOff
    /\ UNCHANGED <<current, fwd, degraded, reopen>>

-----------------------------------------------------------------------------
(* The callers of the handle, the backend's forwards, and the clock.        *)

\* stop() takes the JoinHandle out of the handle.
JoinTaken == \E c \in Clients : rep[c] = "joining"

\* A caller enqueues a request and waits.  The first stop() to find the join
\* handle joins the task; another returns at once.  The channel of a task that
\* has ended refuses, and its join returns.
Request(c) ==
    /\ rep[c] \notin {"waiting", "joining"}
    /\ \E q \in Requests :
           \/ /\ ~Ended
              /\ Len(queue) < QueueCap
              /\ queue' = Append(queue, [op |-> q.op, to |-> q.to, from |-> c])
              /\ rep' = [rep EXCEPT ![c] =
                            CASE q.op # "Shutdown" -> "waiting"
                              [] q.op = "Shutdown" /\ ~JoinTaken -> "joining"
                              [] q.op = "Shutdown" /\ JoinTaken -> "stopped"]
           \/ /\ Ended
              /\ rep' = [rep EXCEPT ![c] = IF q.op = "Shutdown" THEN "stopped" ELSE "err"]
              /\ UNCHANGED queue
    /\ UNCHANGED <<pc, sm, wake, history, session>>

\* Drop for ProfileSupervisor: the task is aborted at its current await.  A
\* caller that waits holds the handle, so it is not the last one.
DropHandle ==
    /\ HandleDropped
    /\ ~Ended
    /\ \A c \in Clients : rep[c] \notin {"waiting", "joining"}
    /\ pc' = "aborted"
    /\ queue' = << >>
    /\ LeaveActive
    /\ UNCHANGED <<sm, rep, wake, history, target, row, decision, pending>>

\* A forward's backend goes from Listening to Active.
ForwardActivates(f) ==
    /\ pc = "active"
    /\ fwd[f] = "fresh"
    /\ fwd' = [fwd EXCEPT ![f] = "live"]
    /\ UNCHANGED <<pc, sm, queue, rep, wake, history, target, row, degraded, reopen, decision, pending>>

\* A forward's backend stops or fails while the session is up.
ForwardFails(f) ==
    /\ pc = "active"
    /\ fwd[f] \in {"fresh", "live"}
    /\ fwd' = [fwd EXCEPT ![f] = "down"]
    /\ UNCHANGED <<pc, sm, queue, rep, wake, history, target, row, degraded, reopen, decision, pending>>

\* Time passes.
Tick ==
    /\ wake' = IF wake > 0 THEN wake - 1 ELSE 0
    /\ upSince' = Older(upSince, ResetAfter)
    /\ lastAction' = Older(lastAction, ActionMinInterval)
    /\ sel' = SelectorTick(sel)
    /\ det' = DetectorTick(det)
    /\ UNCHANGED <<pc, sm, queue, rep, attempt, session>>

-----------------------------------------------------------------------------
\* Steps of the task that an await of its own, or the caller, makes ready.
ServeAny ==
    \/ ServeAtLoopHead \/ ServeWhileConnecting \/ ServeWhileSleeping
    \/ ServeBench \/ ServeExit \/ ServeFailover \/ ServeClose

LoopStep == GiveUp \/ BeginConnect \/ NoEndpointToPick

TeardownStep == Abandoned \/ ClosedForExit \/ ClosedForRetry \/ ClosedAfterLoss

\* What goes wrong out in the network, but for a reopen that fails.
Fault ==
    \/ ConnectFails \/ ConnectRefused \/ AuthRejected
    \/ ForwardsRefused
    \/ ProbeFails \/ ProbeSucceeds(TRUE)
    \/ \E isSlow \in BOOLEAN : ProbeReplaces(isSlow)
    \/ \E f \in Forwards : ForwardFails(f)

\* Everything else but the callers' requests.
Progress ==
    \/ Start \/ ServeAny \/ LoopStep \/ TeardownStep \/ SleepEnds
    \/ Connected \/ ForwardsOpened
    \/ ProbeSucceeds(FALSE)
    \/ NoticeForward
    \/ \E up \in SUBSET Forwards : ReopenForwards(up)
    \/ \E f \in Forwards : ForwardActivates(f)
    \/ Tick

Next ==
    \/ Progress
    \/ Fault
    \/ \E c \in Clients : Request(c)
    \/ DropHandle

Spec == Init /\ [][Next]_vars

(***************************************************************************)
(* Fairness.  The runtime polls a task that can go on, and a select polls  *)
(* its arms in random order, so an arm that stays ready is taken.  Sleeps  *)
(* end and closes are bounded by a timeout.  That the backend's forward    *)
(* requests return is assumed: the task awaits them without a bound.  The  *)
(* outcome of connect is left open: it may take forever.                   *)
(***************************************************************************)
TaskFairness ==
    /\ WF_vars(Start)
    /\ WF_vars(LoopStep)
    /\ WF_vars(ServeAny)
    /\ WF_vars(TeardownStep)
    /\ WF_vars(SleepEnds)
    /\ WF_vars(ForwardsOpened \/ ForwardsRefused)
    /\ WF_vars(Tick)

-----------------------------------------------------------------------------
(* Properties.                                                              *)

Messages == [op : {"Failover", "CloseSession", "Drain", "OpenBench", "Shutdown"},
             to : Endpoints \cup {NoPin, UnknownPin, MalformedKey},
             from : Clients]

\* The types of the variables.
TypeOK ==
    /\ pc \in Awaits
    /\ sm \in ProfileStates
    /\ queue \in Seq(Messages)
    /\ rep \in [Clients -> Replies]
    /\ sel \in Selectors
    /\ det \in Detectors
    /\ attempt \in 0..U32Max
    /\ wake \in Nat
    /\ upSince \in {NoInstant} \cup 0..ResetAfter
    /\ lastAction \in {NoInstant} \cup 0..ActionMinInterval
    /\ target \in Endpoints \cup {NoEndpoint}
    /\ current \in Endpoints \cup {NoEndpoint}
    /\ row \in Endpoints \cup {NoEndpoint}
    /\ fwd \in [Forwards -> SlotStates]
    /\ degraded \in BOOLEAN
    /\ reopen \in BOOLEAN
    /\ decision \in Decisions
    /\ pending \in Clients \cup {NoClient}

\* The task owns a session it has published.
OwnsSession == pc \in {"opening", "active", "closing"}

\* The session registry lists a session of this profile exactly while the
\* task owns one, under the endpoint the session runs over, which is also the
\* one a later loss is charged to (publish_session, unpublish_session,
\* current_endpoint) -- as long as the task is not aborted.
RegistryListsSession ==
    pc # "aborted" =>
        /\ row # NoEndpoint <=> OwnsSession
        /\ OwnsSession => row = current /\ row = target

\* What the state watch shows is true: a state that claims a session is shown
\* only while one is registered, an active session always shows as one, and
\* Stopped is shown exactly when the task has returned (fire, at every
\* boundary of run and run_active).
WatchTellsTheTruth ==
    /\ sm \in SessionUpStates => row # NoEndpoint
    /\ pc = "active" => sm \in {"Active", "Degraded", "Unstable"}
    /\ pc # "aborted" => (sm = "Stopped" <=> pc = "done")

\* A manual override lasts one reconnect: while a session is being set up or is
\* up, the pin never names the endpoint it runs over (record_success).
PinIsConsumed == pc \in {"opening", "active"} => sel.manual # current

\* max_attempts bounds the attempts: the counter never passes it, and no
\* session is attempted once it is reached (exhausted at the loop head).
AttemptsAreBounded ==
    MaxAttempts # 0 =>
        /\ attempt <= MaxAttempts
        /\ pc \in {"connecting", "opening", "abandoning", "active", "closing"}
               => attempt < MaxAttempts

\* No reply is forgotten: a caller waits only while its request is queued or
\* held for the end of a close or drain, and a stop() only while its Shutdown
\* is queued or being carried out (the reply in every control arm).
NoReplyForgotten ==
    \A c \in Clients :
        LET queued == \E i \in DOMAIN queue : queue[i].from = c
        IN  /\ rep[c] = "waiting" => queued \/ pending = c
            /\ rep[c] = "joining" => queued \/ decision = "exit"

(***************************************************************************)
(* Why these invariants hold.  Every await of the task has its states of   *)
(* the machine, a target and a session row exactly where it needs one, and *)
(* a decision and a caller held for a reply only while it closes a         *)
(* session; so each arm of run and run_active is taken in a state that     *)
(* suits it.                                                               *)
(***************************************************************************)
StateFitsPlace ==
    /\ pc = "spawned" => sm = "Idle"
    /\ pc \in {"loop", "sleeping"} => sm \in {"Resolving", "Connecting", "Reconnecting"}
    /\ pc = "connecting" => sm = "Connecting"
    /\ pc = "opening" => sm = "EstablishingForwards"
    /\ pc = "abandoning" => sm = "Reconnecting"
    /\ pc = "active" => sm \in {"Active", "Degraded", "Unstable"}
    /\ pc = "closing" /\ decision \in {"exit", "drain"} => sm \in {"Active", "Degraded", "Unstable"}
    /\ pc = "closing" /\ decision \notin {"exit", "drain"} => sm = "Reconnecting"
    /\ pc = "done" => sm = "Stopped"
    /\ pc = "aborted" => sm # "Stopped"

SessionFitsPlace ==
    /\ pc \in {"connecting", "opening", "abandoning", "active", "closing"} => target \in Endpoints
    /\ OwnsSession => row = target /\ current = target
    /\ pc \notin {"opening", "active", "closing", "aborted"} => row = NoEndpoint
    /\ pc = "aborted" /\ sm \in SessionUpStates => row # NoEndpoint

\* A request of c, or a stop() of c, is in the channel q.
HasAsked(q, c) == \E i \in DOMAIN q : q[i].from = c /\ q[i].op # "Shutdown"
HasStopped(q, c) == \E i \in DOMAIN q : q[i].from = c /\ q[i].op = "Shutdown"

RepliesFitPlace ==
    /\ pc # "aborted" => (pc = "closing" <=> decision # "none")
    /\ pending # NoClient => decision \in {"close", "drain"}
    /\ \A c \in Clients :
          /\ rep[c] = "waiting" => HasAsked(queue, c) \/ pending = c
          /\ rep[c] = "joining" => HasStopped(queue, c) \/ decision = "exit"
          /\ pc = "done" => rep[c] \notin {"waiting", "joining"}

TaskInv == StateFitsPlace /\ SessionFitsPlace /\ RepliesFitPlace

\* Degraded is never shown without cause or without remedy: some forward is
\* down, and a reopen of it is scheduled (degraded and reopen_at of run_active).
DegradedIsBeingRepaired == sm = "Degraded" /\ pc = "active" => Down # {} /\ reopen

\* A connect attempt goes to an endpoint that is cooling down only when no
\* endpoint is healthy (pick).
FailoverPrefersHealthy ==
    [][pc = "loop" /\ pc' = "connecting" =>
          (Cooling(sel, target') => Healthy(sel) = {})]_vars

\* Every caller is answered: a request does not wait forever.
RequestsAreAnswered ==
    \A c \in Clients : rep[c] = "waiting" ~> rep[c] # "waiting"

\* stop() returns.
StopReturns ==
    \A c \in Clients : rep[c] = "joining" ~> rep[c] # "joining"

-----------------------------------------------------------------------------
\* The profile as TunnelContract sees it.
Outstanding == {c \in Clients : rep[c] \in {"waiting", "joining"}}

Contract == INSTANCE TunnelContract
                WITH via <- row, ended <- pc = "done", outstanding <- Outstanding

\* A profile whose handle is not dropped keeps the contract: one session at a
\* time, one answer at a time, everything released at the end (run as a whole).
KeepsContract == Contract!Spec
=============================================================================
