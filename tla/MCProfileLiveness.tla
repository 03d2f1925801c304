------------------------- MODULE MCProfileLiveness -------------------------
(***************************************************************************)
(* Instances of ProfileSupervisor for liveness.  What goes wrong and what  *)
(* the callers ask for is bounded, so that a behaviour ends in a calm      *)
(* network: after that the profile must recover.                           *)
(***************************************************************************)
EXTENDS MCProfileSupervisor

CONSTANTS
    MaxFaults,   \* faults of the network in one behaviour
    MaxAsks      \* requests of the callers in one behaviour

VARIABLES faults, asks

allVars == <<vars, faults, asks>>

LiveInit == Init /\ faults = 0 /\ asks = 0

LiveNext ==
    \/ Progress /\ UNCHANGED <<faults, asks>>
    \/ faults < MaxFaults /\ Fault /\ faults' = faults + 1 /\ UNCHANGED asks
    \/ asks < MaxAsks /\ (\E c \in Clients : Request(c)) /\ asks' = asks + 1 /\ UNCHANGED faults

\* Requests and faults may come at any time; the task is scheduled fairly.
RequestSpec == LiveInit /\ [][LiveNext]_allVars /\ TaskFairness

\* In a calm network a connect attempt succeeds, probes are answered and
\* watch changes and reopen ticks are acted on.
RecoverySpec ==
    /\ RequestSpec
    /\ WF_vars(Connected)
    /\ WF_vars(ForwardsOpened)
    /\ WF_vars(ProbeSucceeds(FALSE))
    /\ WF_vars(NoticeForward)
    /\ WF_vars(ReopenForwards(Down))

\* Once the network is calm and nobody interferes, the profile is up for good,
\* unless it was told to stop, gave up or was refused (ProfileTask::run).
Recovers == <>[](sm = "Active" \/ pc = "done")

\* A forward that fails while the session is up is reopened, or the session
\* ends ("E1-F4: observe each forward's live state", profile.rs).
FailedForwardsAreReopened ==
    \A f \in Forwards : fwd[f] = "down" ~> fwd[f] # "down"
=============================================================================
