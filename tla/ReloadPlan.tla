----------------------------- MODULE ReloadPlan -----------------------------
(***************************************************************************)
(* The reload reconciler of spt-supervisor (reload.rs): what has to be     *)
(* done to the running profiles when one configuration replaces another.   *)
(*                                                                         *)
(* A configuration is a function from the names of its profiles to their   *)
(* settings, a record                                                      *)
(*   enabled   the option: "unset", "yes" or "no"                          *)
(*   conn      everything connection_level_changed compares, but enabled   *)
(*   forwards  a function from the names of the forwards to their settings *)
(*   tune      the sub-tables a reload does not apply (keepalive,          *)
(*             reconnect, failover, limits, ...)                           *)
(***************************************************************************)

EXTENDS Integers

Disabled(s) == s.enabled = "no"

\* A profile that is enabled or disabled counts as unchanged.
ConnectionChangedOnly(s, t) == s.conn # t.conn

ConnectionLevelChanged(s, t) == s.conn # t.conn \/ s.enabled # t.enabled

\* diff_forwards, as the set of its actions.
DiffForwards(s, t) ==
    LET old == DOMAIN s.forwards
        new == DOMAIN t.forwards
    IN  {<<"RemoveForward", f>> : f \in old \ new}
        \cup {<<"AddForward", f>> : f \in new \ old}
        \cup {<<"RestartForward", f>> :
                f \in {g \in old \cap new : s.forwards[g] # t.forwards[g]}}

(***************************************************************************)
(* ReloadPlan::compute, as Orchestrator::apply carries it out: StartProfile *)
(* and RestartProfile are one path there, and all the forward actions of a *)
(* profile become one restart after everything else.  Within a phase the   *)
(* order is the order of the profiles in the file, which is arbitrary.     *)
(***************************************************************************)
PlanStep(phase, act, n) == [phase |-> phase, act |-> act, name |-> n]

Compute(old, new) ==
    LET both    == DOMAIN old \cap DOMAIN new
        changed == {n \in both : ConnectionLevelChanged(old[n], new[n])}
        enabled == {n \in DOMAIN new : ~Disabled(new[n])}
    IN  {PlanStep(1, "stop", n) : n \in DOMAIN old \ DOMAIN new}
        \cup {PlanStep(2, "restart", n) : n \in enabled \ DOMAIN old}
        \cup {PlanStep(3, "stop", n) :
                n \in {m \in both \ enabled : ~Disabled(old[m])}}
        \cup {PlanStep(3, "restart", n) : n \in changed \cap enabled}
        \cup {PlanStep(4, "restart", n) :
                n \in {m \in (both \cap enabled) \ changed :
                         DiffForwards(old[m], new[m]) # {}}}

\* The steps that may come next.
NextSteps(plan) == {x \in plan : \A y \in plan : x.phase <= y.phase}
=============================================================================
