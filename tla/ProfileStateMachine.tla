------------------------ MODULE ProfileStateMachine ------------------------
(***************************************************************************)
(* The profile state machine of spt-supervisor (state_machine.rs): a pure  *)
(* transition function.  The current state is the variable sm of           *)
(* ProfileSupervisor, which fires the events.                              *)
(***************************************************************************)

\* ProfileStateName.
ProfileStates ==
    {"Disabled", "Idle", "Resolving", "Connecting", "Authenticating",
     "EstablishingForwards", "Active", "Degraded", "Reconnecting",
     "FailingOver", "Unstable", "Stopping", "Stopped"}

\* ProfileStateName::is_terminal.
IsTerminal(s) == s \in {"Stopped", "Disabled"}

\* ProfileStateMachine::default.
InitialState == "Idle"

\* The states in which a profile claims to own an authenticated session.
SessionUpStates == {"EstablishingForwards", "Active", "Degraded", "Unstable"}

(***************************************************************************)
(* ProfileStateMachine::step, arm by arm.  An event that has no arm for    *)
(* the current state is a no-op, as `fire' makes of the Err it returns.    *)
(***************************************************************************)
Step(s, e) ==
    CASE e = "Disable" /\ ~IsTerminal(s) -> "Disabled"
      [] e = "Stop" /\ s \notin {"Stopping", "Stopped", "Disabled"} -> "Stopping"
      [] e = "Stopped" /\ s = "Stopping" -> "Stopped"
      [] e = "Start" /\ s = "Idle" -> "Resolving"
      [] e = "ResolveOk" /\ s = "Resolving" -> "Connecting"
      [] e = "ResolveFail" /\ s = "Resolving" -> "Reconnecting"
      [] e = "ConnectOk" /\ s = "Connecting" -> "Authenticating"
      [] e = "ConnectFail" /\ s = "Connecting" -> "Reconnecting"
      [] e = "AuthOk" /\ s = "Authenticating" -> "EstablishingForwards"
      [] e = "AuthFail" /\ s = "Authenticating" -> "Reconnecting"
      [] e = "ForwardsUp" /\ s \in {"EstablishingForwards", "Degraded", "Unstable"} -> "Active"
      [] e = "ForwardDown" /\ s \in {"EstablishingForwards", "Active", "Unstable"} -> "Degraded"
      [] e = "ForwardUp" /\ s \in {"Degraded", "Unstable"} -> "Active"
      [] e = "SessionLost" /\ s \in SessionUpStates -> "Reconnecting"
      [] e = "InstabilityHit" /\ s \in {"Active", "Degraded", "EstablishingForwards"} -> "Unstable"
      [] e = "InstabilityClear" /\ s = "Unstable" -> "Active"
      [] e = "FailoverPick" /\ s \in {"Reconnecting", "FailingOver"} -> "FailingOver"
      [] e = "EndpointReady" /\ s \in {"Reconnecting", "FailingOver"} -> "Resolving"
      [] e = "RetryNow" /\ s = "Reconnecting" -> "Resolving"
      [] OTHER -> s
=============================================================================
