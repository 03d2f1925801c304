--------------------------- MODULE ProfileHistory ---------------------------
(***************************************************************************)
(* ProfileSupervisor with two clocks of its own, to judge the timers of    *)
(* the code by.                                                            *)
(***************************************************************************)
EXTENDS ProfileSupervisor

VARIABLES
    calm,      \* ticks since the last disconnect, failed probe or trip
    remedied   \* ticks since the last live remedy, or NoInstant

historyVars == <<vars, calm, remedied>>

\* A remedy for instability replaces a live session.
Remedied == \E isSlow \in BOOLEAN : ProbeReplaces(isSlow)

\* A step that puts an end to calm.
Disturbance ==
    \/ ConnectFails \/ ConnectRefused \/ AuthRejected
    \/ Abandoned \/ ProbeFails \/ ClosedAfterLoss
    \/ ~det.triggered /\ det'.triggered

HistoryInit == Init /\ calm = 0 /\ remedied = NoInstant

HistoryNext ==
    /\ Next
    /\ calm' = IF Disturbance THEN 0
               ELSE IF Tick THEN Older(calm, ClearAfter) ELSE calm
    /\ remedied' = IF Remedied THEN 0
                   ELSE IF Tick THEN Older(remedied, ActionMinInterval) ELSE remedied

HistorySpec == HistoryInit /\ [][HistoryNext]_historyVars

\* A tripped detector clears only after ClearAfter of unbroken health counted
\* from the trip itself and from the last disconnect: H3, a latency trip is not
\* cleared by the very probe that caused it (record_probe, tick_healthy).
ClearsOnlyAfterCalm ==
    [][det.triggered /\ ~det'.triggered => calm >= ClearAfter]_historyVars

\* However often the detector clears and trips again, live sessions are torn
\* down for instability at least ActionMinInterval apart (the storm guard,
\* allow_instability_action).
RemediesAreSpaced ==
    [][Remedied => remedied = NoInstant \/ remedied >= ActionMinInterval]_historyVars
=============================================================================
