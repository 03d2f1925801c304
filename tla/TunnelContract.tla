--------------------------- MODULE TunnelContract ---------------------------
(***************************************************************************)
(* What a supervised profile promises to the rest of the daemon, whatever  *)
(* the network and its callers do: it has at most one session at a time    *)
(* and moves to another endpoint only by way of having none; it answers    *)
(* requests one at a time; when it ends, its session is gone and nobody is *)
(* left waiting; and it never comes back.                                  *)
(***************************************************************************)
CONSTANTS
    Endpoints,   \* the endpoints a session can run over
    Clients,     \* the callers of the profile
    NoEndpoint   \* no session

VARIABLES
    via,          \* the endpoint of the registered session, or NoEndpoint
    ended,        \* the profile's task has returned
    outstanding   \* the callers that are waiting

tunnel == <<via, ended, outstanding>>

Init == via = NoEndpoint /\ ended = FALSE /\ outstanding = {}

\* A session comes up.
Open(e) ==
    /\ ~ended
    /\ via = NoEndpoint
    /\ via' = e
    /\ UNCHANGED <<ended, outstanding>>

\* The session goes away; the caller that asked for it learns of it then.
Close ==
    /\ via # NoEndpoint
    /\ via' = NoEndpoint
    /\ \/ outstanding' = outstanding
       \/ \E c \in outstanding : outstanding' = outstanding \ {c}
    /\ UNCHANGED ended

Ask(c) ==
    /\ ~ended
    /\ outstanding' = outstanding \cup {c}
    /\ UNCHANGED <<via, ended>>

Answer(c) ==
    /\ c \in outstanding
    /\ outstanding' = outstanding \ {c}
    /\ UNCHANGED <<via, ended>>

\* The profile ends, and releases everything and everybody.
End ==
    /\ ~ended
    /\ ended' = TRUE
    /\ via' = NoEndpoint
    /\ outstanding' = {}

Next ==
    \/ \E e \in Endpoints : Open(e)
    \/ Close
    \/ \E c \in Clients : Ask(c) \/ Answer(c)
    \/ End

Spec == Init /\ [][Next]_tunnel
=============================================================================
