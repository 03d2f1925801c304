------------------------------ MODULE MCDaemon ------------------------------
(***************************************************************************)
(* A small instance of Daemon for TLC.                                     *)
(***************************************************************************)
EXTENDS Daemon, TLC

CONSTANTS home, lab, f, g, c1, c2

P(enabled, conn, forwards, tune) ==
    [enabled |-> enabled, conn |-> conn, forwards |-> forwards, tune |-> tune]

OneForward == f :> 1
Both == {home, lab}
\* home runs, lab is disabled.
First == (home :> P("unset", 1, OneForward, 1)) @@ (lab :> P("no", 1, OneForward, 1))
\* home with another connection and other tuning, lab enabled.
Second == (home :> P("unset", 2, OneForward, 2)) @@ (lab :> P("yes", 1, OneForward, 1))
\* home disabled, lab removed.
Third == home :> P("no", 1, OneForward, 2)
\* Does not validate.
Bad == home :> P("unset", 3, OneForward, 1)

\* The settings those configurations, and edits of their forwards, have.
AllSettings ==
    {P(e, c, w, n) : e \in {"unset", "yes", "no"}, c \in 1..3,
                     w \in {OneForward, OneForward @@ (g :> 1), <<>>, g :> 1}, n \in 1..2}

Four == {First, Second, Third, Bad}
OnlySecond == {Second}
OnlyBad == {Bad}
OneSelected == {home}
TwoClients == {c1, c2}
FourTasks == 1..4
ByName == [n \in Profiles |-> IF n = home THEN 1 ELSE 2]
=============================================================================
