-------------------------- MODULE EndpointSelector --------------------------
(***************************************************************************)
(* The endpoint selector of spt-supervisor (failover.rs), without a policy *)
(* selector attached.  A selector is a record                              *)
(*   cooldown  for each endpoint, the ticks left of cooldown_until; 0 for  *)
(*             None and for a cooldown that has run out, which no test of  *)
(*             the code tells apart                                        *)
(*   failures  for each endpoint, consecutive_failures (a saturating u32)  *)
(*   manual    the manual override: an endpoint, UnknownPin for one that   *)
(*             names no configured endpoint, or NoPin                      *)
(***************************************************************************)
EXTENDS U32

CONSTANTS
    Endpoints,      \* the configured endpoints
    Position,       \* the place of each in the configured list
    Priority,       \* Endpoint::priority; lower is preferred
    FailoverMode,   \* "Priority", "Weighted" or "Manual"
    FailAfter,      \* failures in a row that bench an endpoint
    CooldownUnit,   \* cooldown_secs_per_failure, in ticks
    NoPin,          \* manual: None
    UnknownPin      \* manual: Some(host:port) of no configured endpoint

ASSUME SelectorAssumption ==
    /\ Position \in [Endpoints -> Nat]
    /\ \A e, f \in Endpoints : Position[e] = Position[f] => e = f
    /\ Priority \in [Endpoints -> Nat]
    /\ FailoverMode \in {"Priority", "Weighted", "Manual"}
    /\ FailAfter \in Nat
    /\ CooldownUnit \in Nat
    /\ NoPin \notin Endpoints
    /\ UnknownPin \notin Endpoints \cup {NoPin}

\* The states of a selector.
Selectors ==
    [cooldown : [Endpoints -> Nat],
     failures : [Endpoints -> 0..U32Max],
     manual   : Endpoints \cup {NoPin, UnknownPin}]

\* EndpointSelector::new.
NewSelector ==
    [cooldown |-> [e \in Endpoints |-> 0],
     failures |-> [e \in Endpoints |-> 0],
     manual   |-> NoPin]

\* One tick of the clock.
SelectorTick(s) ==
    [s EXCEPT !.cooldown = [e \in Endpoints |-> IF @[e] > 0 THEN @[e] - 1 ELSE 0]]

Cooling(s, e) == s.cooldown[e] > 0

Healthy(s) == {e \in Endpoints : ~Cooling(s, e)}

\* The member of a set of endpoints that comes first in the configured list.
First(S) == CHOOSE e \in S : \A f \in S : Position[e] <= Position[f]

\* least_bad_fallback.
LeastBad(s) ==
    First({e \in Endpoints : \A f \in Endpoints : s.cooldown[e] <= s.cooldown[f]})

\* The healthy endpoints of the lowest priority value.
Cohort(s) ==
    {e \in Healthy(s) : \A f \in Healthy(s) : Priority[e] <= Priority[f]}

\* The pin wins even over a cooldown.
PickAlwaysPinned(s) ==
    IF Endpoints = {} \/ s.manual = UnknownPin THEN {}
    ELSE IF s.manual \in Endpoints THEN {s.manual}
    ELSE IF FailoverMode = "Manual" THEN {}
    ELSE IF Healthy(s) = {} THEN {LeastBad(s)}
    ELSE Cohort(s)

(***************************************************************************)
(* pick: the set of endpoints it can return, empty when it returns an      *)
(* error.  A weighted roll can land on every member of the cohort, since   *)
(* weights count as at least one.                                          *)
(***************************************************************************)
Pick(s) ==
    IF Endpoints = {} \/ s.manual = UnknownPin THEN {}
    ELSE IF s.manual \in Healthy(s) THEN {s.manual}
    ELSE IF FailoverMode = "Manual" THEN {}
    ELSE IF Healthy(s) = {} THEN {LeastBad(s)}
    ELSE IF FailoverMode = "Priority" THEN {First(Cohort(s))}
    ELSE Cohort(s)

\* set_manual.
SetManual(s, m) == [s EXCEPT !.manual = m]

\* The override outlives the connection it asked for.
RecordSuccessKeepsPin(s, e) == [s EXCEPT !.failures[e] = 0, !.cooldown[e] = 0]

\* record_success.
RecordSuccess(s, e) ==
    [cooldown |-> [s.cooldown EXCEPT ![e] = 0],
     failures |-> [s.failures EXCEPT ![e] = 0],
     manual   |-> IF s.manual = e THEN NoPin ELSE s.manual]

\* The count of failures is not saturated.
RecordFailureUnbounded(s, e) ==
    LET n == s.failures[e] + 1
    IN  [s EXCEPT !.failures[e] = n,
                  !.cooldown[e] = IF n >= FailAfter THEN n * CooldownUnit ELSE @]

\* record_failure.
RecordFailure(s, e) ==
    LET n == SatInc(s.failures[e])
    IN  [s EXCEPT !.failures[e] = n,
                  !.cooldown[e] = IF n >= FailAfter THEN n * CooldownUnit ELSE @]
=============================================================================
