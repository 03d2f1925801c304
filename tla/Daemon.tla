------------------------------- MODULE Daemon -------------------------------
(***************************************************************************)
(* A running `spt tunnel run`: the orchestrator (orchestrator.rs of        *)
(* spt-supervisor), the cell with the applied configuration and the reload *)
(* pipeline around it (controller.rs of spt-bin), and everyone who uses    *)
(* them at the same time on the threads of the runtime: the signal loop of *)
(* cli_dispatch.rs (Main), the file watcher, the remote-config poller and  *)
(* the connections of the MCP server (Clients).                            *)
(*                                                                         *)
(* A profile's task is what TunnelContract promises, seen from here: it    *)
(* serves, it has been told to leave (Shutdown, drain or abort), or it has *)
(* ended.  A handle is an Arc: the map, an actor or the drain may hold     *)
(* one, and the task is aborted when the last of them is dropped.          *)
(***************************************************************************)
EXTENDS ReloadPlan, FiniteSets

CONSTANTS
    Profiles,       \* the names of profiles
    Settings,       \* the settings a profile can have (see ReloadPlan)
    Configs,        \* what an editor may write to the file
    Remote,         \* what the remote server may send
    Rejected,       \* the configurations validate finds errors in
    Boot,           \* the configuration read at boot
    Selected,       \* the profiles `tunnel run --profile` selects at boot
    NewForward,     \* the forward that forward_add and forward_remove name
    NewForwardDef,  \* its settings
    Tasks,          \* identities of supervisors; a bound on the live ones
    BootTask,       \* the ones the boot loop gives out
    Clients,        \* the connections of the MCP server
    NoTask,
    NoActor,
    MaxAsks         \* a bound on edits, signals and requests

Main == "main"
Watcher == "watcher"
Poller == "poller"
Background == {Watcher, Poller}
Actors == Clients \cup Background \cup {Main}

\* add_forward and remove_forward of Document.
WithForward(s) ==
    [s EXCEPT !.forwards =
        [f \in (DOMAIN @) \cup {NewForward} |-> IF f = NewForward THEN NewForwardDef ELSE @[f]]]

WithoutForward(s) ==
    [s EXCEPT !.forwards = [f \in (DOMAIN @) \ {NewForward} |-> @[f]]]

AllConfigs == UNION {[D -> Settings] : D \in SUBSET Profiles}
Supervisors == [profile : Profiles, run : Settings, st : {"serving", "told", "ended"}]

ASSUME DaemonAssumption ==
    /\ NoTask \notin Tasks \cup Supervisors
    /\ NoActor \notin Actors
    /\ Clients \cap (Background \cup {Main}) = {}
    /\ \A s \in Settings :
         /\ s.forwards = [f \in DOMAIN s.forwards |-> s.forwards[f]]
         /\ WithForward(s) \in Settings /\ WithoutForward(s) \in Settings
    /\ Configs \cup Remote \subseteq AllConfigs
    /\ Boot \in Configs \ Rejected
    /\ BootTask \in [Profiles -> Tasks]
    /\ \A p, q \in Profiles : BootTask[p] = BootTask[q] => p = q
    /\ MaxAsks \in Nat

VARIABLES
    disk,    \* the configuration in the file
    rev,     \* the signature of the file (mtime and size)
    seen,    \* Debouncer::applied
    pend,    \* Debouncer::pending: a revision, or the one already applied
    cell,    \* ConfigCell: the last applied configuration
    lock,    \* who holds the mutex of the cell
    map,     \* Orchestrator::profiles
    gate,    \* Orchestrator::shutting_down
    task,    \* the supervisors
    sig,     \* the watch channel of signals.rs: what Main has not read yet
    pc,      \* the await each actor is at
    new,     \* the configuration an actor works with
    todo,    \* what is left of the plan an actor applies
    cur,     \* the step of the plan, or the request, it is at
    hold,    \* the handle an actor holds
    drain,   \* the handles shutdown_deadline has taken out of the map
    failed,  \* the profiles whose last build by a reload failed
    owner,   \* who changed the profile's slot of the map last
    asks

file == <<disk, rev>>
watch == <<seen, pend>>
conf == <<cell, lock>>
orch == <<map, gate, task>>
work == <<todo, cur, hold>>
hist == <<failed, owner>>
vars == <<disk, rev, seen, pend, cell, lock, map, gate, task, sig, pc, new, todo,
          cur, hold, drain, failed, owner, asks>>

-----------------------------------------------------------------------------
(* Handles. *)

Handles(m, h, d) == {m[p] : p \in Profiles} \cup {h[a] : a \in Actors} \cup d

\* Without the abort in Drop: only what has ended is forgotten.
DroppedRunsOn(ts, m, h, d) ==
    [t \in Tasks |->
        IF ts[t] # NoTask /\ t \notin Handles(m, h, d) /\ ts[t].st = "ended"
        THEN NoTask ELSE ts[t]]

\* Drop for ProfileSupervisor: without a handle the task is aborted, and
\* forgotten once it has ended.
Dropped(ts, m, h, d) ==
    [t \in Tasks |->
        IF ts[t] = NoTask \/ t \in Handles(m, h, d) THEN ts[t]
        ELSE IF ts[t].st = "ended" THEN NoTask
        ELSE [ts[t] EXCEPT !.st = "told"]]

\* Control::Shutdown, as stop sends it.
Told(ts, S) ==
    [t \in Tasks |->
        IF t \in S /\ ts[t].st = "serving" THEN [ts[t] EXCEPT !.st = "told"] ELSE ts[t]]

Supervisor(p, s) == [profile |-> p, run |-> s, st |-> "serving"]

Free == {t \in Tasks : task[t] = NoTask}

Agree(s, t) ==
    s.enabled = t.enabled /\ s.conn = t.conn /\ s.forwards = t.forwards

NoConfig == [p \in {} |-> p]
NoStep == PlanStep(0, "none", "none")

\* Who a change of the map is put down to.
Who(a) == IF lock = a THEN "config" ELSE "operator"

-----------------------------------------------------------------------------
(* After the boot loop: the selected profiles run, but those whose build    *)
(* failed; the watcher and the server have just been started.               *)

Wanted(c) == {p \in DOMAIN c : ~Disabled(c[p])}

Init ==
    /\ disk = Boot /\ cell = Boot
    /\ rev = 0 /\ seen = 0 /\ pend = 0
    /\ lock = NoActor
    /\ gate = FALSE
    /\ failed \in SUBSET (Wanted(Boot) \cap Selected)
    /\ LET up == (Wanted(Boot) \cap Selected) \ failed
       IN  /\ map = [p \in Profiles |-> IF p \in up THEN BootTask[p] ELSE NoTask]
           /\ task = [t \in Tasks |->
                        IF \E p \in up : BootTask[p] = t
                        THEN LET p == CHOOSE p \in up : BootTask[p] = t
                             IN  Supervisor(p, Boot[p])
                        ELSE NoTask]
    /\ sig = "none"
    /\ pc = [a \in Actors |-> "idle"]
    /\ new = [a \in Actors |-> NoConfig]
    /\ todo = [a \in Actors |-> {}]
    /\ cur = [a \in Actors |-> NoStep]
    /\ hold = [a \in Actors |-> NoTask]
    /\ drain = {}
    /\ owner = [p \in Profiles |-> IF p \in Selected THEN "config" ELSE "operator"]
    /\ asks = 0

Ask == asks < MaxAsks /\ asks' = asks + 1
Quiet == UNCHANGED asks

-----------------------------------------------------------------------------
(* The file and the signals. *)

\* Somebody edits the file.
EditDisk ==
    /\ Ask
    /\ \E c \in Configs : c # disk /\ disk' = c
    /\ rev' = rev + 1
    /\ UNCHANGED <<watch, conf, orch, sig, pc, new, work, drain, hist>>

MainLeaving == pc[Main] \in {"stopPoller", "stopWatcher", "drain", "joining", "gone"}

\* run_signal_task: SIGHUP; the loop has ended once SIGTERM was seen.
Sighup ==
    /\ Ask
    /\ sig = "none" /\ ~MainLeaving
    /\ sig' = "reload"
    /\ UNCHANGED <<file, watch, conf, orch, pc, new, work, drain, hist>>

\* SIGTERM, SIGINT, or the restart the updater asks for; it overwrites a
\* SIGHUP that was not read yet.
Terminate ==
    /\ sig # "shutdown" /\ ~MainLeaving
    /\ sig' = "shutdown"
    /\ Quiet
    /\ UNCHANGED <<file, watch, conf, orch, pc, new, work, drain, hist>>

-----------------------------------------------------------------------------
(* Where a reload comes from. *)

\* The file is read before the mutex of the cell is asked for.
ReadDisk(a) ==
    /\ new' = [new EXCEPT ![a] = disk]
    /\ pc' = [pc EXCEPT ![a] = "queued"]

\* The signal loop awaits the reload, and reads no signal meanwhile.
MainReload ==
    /\ pc[Main] = "idle" /\ sig = "reload"
    /\ sig' = "none"
    /\ ReadDisk(Main)
    /\ Quiet
    /\ UNCHANGED <<file, watch, conf, orch, work, drain, hist>>

\* Debouncer::poll: a change is pending until it has held for the window.  Every
\* revision has a signature of its own, and the file can always be looked at.
WatchNotice ==
    /\ pc[Watcher] = "idle" /\ pc[Main] # "stopWatcher"
    /\ rev \notin {seen, pend}
    /\ pend' = rev
    /\ Quiet
    /\ UNCHANGED <<file, seen, conf, orch, sig, pc, new, work, drain, hist>>

\* It fires once: the change counts as applied whatever the reload returns.
WatchFire ==
    /\ pc[Watcher] = "idle" /\ pc[Main] # "stopWatcher"
    /\ pend = rev /\ rev # seen
    /\ seen' = rev
    /\ pc' = [pc EXCEPT ![Watcher] = "reading"]
    /\ Quiet
    /\ UNCHANGED <<file, pend, conf, orch, sig, new, work, drain, hist>>

\* The apply callback of the poller, with a body that parses.
PollerApplies ==
    /\ Ask
    /\ pc[Poller] = "idle"
    /\ \E c \in Remote : new' = [new EXCEPT ![Poller] = c]
    /\ pc' = [pc EXCEPT ![Poller] = "queued"]
    /\ UNCHANGED <<file, watch, conf, orch, sig, work, drain, hist>>

\* The tools tunnel_reload, forward_add and forward_remove.
ClientReload(c) ==
    /\ Ask
    /\ pc[c] = "idle"
    /\ ReadDisk(c)
    /\ UNCHANGED <<file, watch, conf, orch, sig, work, drain, hist>>

\* mutate_doc reads the file; add_forward refuses a name that is taken, and
\* remove_forward one that is not there.
ClientMutates(c, p) ==
    /\ Ask
    /\ pc[c] = "idle"
    /\ p \in DOMAIN disk
    /\ new' = [new EXCEPT ![c] =
         [disk EXCEPT ![p] = IF NewForward \in DOMAIN @.forwards
                             THEN WithoutForward(@) ELSE WithForward(@)]]
    /\ pc' = [pc EXCEPT ![c] = "writing"]
    /\ UNCHANGED <<file, watch, conf, orch, sig, work, drain, hist>>

\* write_atomic, without a look at what the file holds by now.
ClientWrites(c) ==
    /\ pc[c] = "writing"
    /\ disk' = new[c]
    /\ rev' = rev + 1
    /\ pc' = [pc EXCEPT ![c] = "reading"]
    /\ Quiet
    /\ UNCHANGED <<watch, conf, orch, sig, new, work, drain, hist>>

Reads(a) ==
    /\ pc[a] = "reading"
    /\ ReadDisk(a)
    /\ Quiet
    /\ UNCHANGED <<file, watch, conf, orch, sig, work, drain, hist>>

\* The file cannot be written, or does not parse.
FileFails(a) ==
    /\ pc[a] \in {"writing", "reading"}
    /\ pc' = [pc EXCEPT ![a] = "idle"]
    /\ new' = [new EXCEPT ![a] = NoConfig]
    /\ Quiet
    /\ UNCHANGED <<file, watch, conf, orch, sig, work, drain, hist>>

-----------------------------------------------------------------------------
(* The reload pipeline and the orchestrator, for whoever runs them. *)

\* ConfigCell::reload has the mutex: validate, then the plan against the cell.
ReloadRejected(a) ==
    /\ pc[a] = "queued" /\ lock = NoActor
    /\ new[a] \in Rejected
    /\ pc' = [pc EXCEPT ![a] = "idle"]
    /\ new' = [new EXCEPT ![a] = NoConfig]
    /\ Quiet
    /\ UNCHANGED <<file, watch, conf, orch, sig, work, drain, hist>>

\* The gate is looked at first, and nothing is validated behind it.
ReloadSkippedUnvalidated(a) ==
    /\ pc[a] = "queued" /\ lock = NoActor
    /\ gate
    /\ cell' = new[a]
    /\ pc' = [pc EXCEPT ![a] = "idle"]
    /\ new' = [new EXCEPT ![a] = NoConfig]
    /\ Quiet
    /\ UNCHANGED <<file, watch, lock, orch, sig, work, drain, hist>>

\* apply_with_auth skips the plan behind the gate, and the cell is swapped.
ReloadSkipped(a) ==
    /\ pc[a] = "queued" /\ lock = NoActor
    /\ new[a] \notin Rejected /\ gate
    /\ cell' = new[a]
    /\ pc' = [pc EXCEPT ![a] = "idle"]
    /\ new' = [new EXCEPT ![a] = NoConfig]
    /\ Quiet
    /\ UNCHANGED <<file, watch, lock, orch, sig, work, drain, hist>>

ReloadBegins(a) ==
    /\ pc[a] = "queued" /\ lock = NoActor
    /\ new[a] \notin Rejected /\ ~gate
    /\ lock' = a
    /\ todo' = [todo EXCEPT ![a] = Compute(cell, new[a])]
    /\ pc' = [pc EXCEPT ![a] = "working"]
    /\ Quiet
    /\ UNCHANGED <<file, watch, cell, orch, sig, new, cur, hold, drain, hist>>

\* The supervisor stays in the map while it is stopped.
TakeDownInPlace(a) ==
    /\ pc[a] = "working"
    /\ \E x \in NextSteps(todo[a]) :
         /\ x.act \in {"stop", "restart"}
         /\ cur' = [cur EXCEPT ![a] = x]
         /\ todo' = [todo EXCEPT ![a] = @ \ {x}]
         /\ hold' = [hold EXCEPT ![a] = map[x.name]]
         /\ task' = Told(task, {map[x.name]} \ {NoTask})
         /\ owner' = [owner EXCEPT ![x.name] = Who(a)]
         /\ failed' = IF x.act = "stop" THEN failed \ {x.name} ELSE failed
    /\ pc' = [pc EXCEPT ![a] = "stopping"]
    /\ Quiet
    /\ UNCHANGED <<file, watch, conf, map, gate, sig, new, drain>>

\* The task is joined and nobody has told it.
TakeDownUntold(a) ==
    /\ pc[a] = "working"
    /\ \E x \in NextSteps(todo[a]) :
         /\ x.act \in {"stop", "restart"}
         /\ cur' = [cur EXCEPT ![a] = x]
         /\ todo' = [todo EXCEPT ![a] = @ \ {x}]
         /\ hold' = [hold EXCEPT ![a] = map[x.name]]
         /\ map' = [map EXCEPT ![x.name] = NoTask]
         /\ owner' = [owner EXCEPT ![x.name] = Who(a)]
         /\ failed' = IF x.act = "stop" THEN failed \ {x.name} ELSE failed
    /\ pc' = [pc EXCEPT ![a] = "stopping"]
    /\ Quiet
    /\ UNCHANGED <<file, watch, conf, gate, task, sig, new, drain>>

\* stop_profile, also as the first half of restart_profile: the supervisor
\* leaves the map under the lock, and stop is awaited without it.
TakeDown(a) ==
    /\ pc[a] = "working"
    /\ \E x \in NextSteps(todo[a]) :
         /\ x.act \in {"stop", "restart"}
         /\ cur' = [cur EXCEPT ![a] = x]
         /\ todo' = [todo EXCEPT ![a] = @ \ {x}]
         /\ hold' = [hold EXCEPT ![a] = map[x.name]]
         /\ map' = [map EXCEPT ![x.name] = NoTask]
         /\ task' = Told(task, {map[x.name]} \ {NoTask})
         /\ owner' = [owner EXCEPT ![x.name] = Who(a)]
         /\ failed' = IF x.act = "stop" THEN failed \ {x.name} ELSE failed
    /\ pc' = [pc EXCEPT ![a] = "stopping"]
    /\ Quiet
    /\ UNCHANGED <<file, watch, conf, gate, sig, new, drain>>

\* The provider cannot build the profile: apply leaves it as it is.
BuildFails(a) ==
    /\ pc[a] = "working"
    /\ \E x \in NextSteps(todo[a]) :
         /\ x.act = "restart"
         /\ todo' = [todo EXCEPT ![a] = @ \ {x}]
         /\ failed' = failed \cup {x.name}
    /\ Quiet
    /\ UNCHANGED <<file, watch, conf, orch, sig, pc, new, cur, hold, drain, owner>>

\* stop returns: the task is joined.
TakenDown(a) ==
    /\ pc[a] = "stopping"
    /\ hold[a] # NoTask => task[hold[a]].st = "ended"
    /\ hold' = [hold EXCEPT ![a] = NoTask]
    /\ task' = Dropped(task, map, hold', drain)
    /\ pc' = [pc EXCEPT ![a] = IF cur[a].act = "stop" THEN "working" ELSE "starting"]
    /\ Quiet
    /\ UNCHANGED <<file, watch, conf, map, gate, sig, new, todo, cur, drain, hist>>

\* start_profile behind the gate.
StartRefused(a) ==
    /\ pc[a] = "starting" /\ gate
    /\ pc' = [pc EXCEPT ![a] = "working"]
    /\ Quiet
    /\ UNCHANGED <<file, watch, conf, orch, sig, new, work, drain, hist>>

\* start_profile: the old supervisor is removed and dropped, and unless the
\* profile is disabled a new one is spawned, up to the second lock of the map
\* in one step.
StartProfile(a) ==
    LET p == cur[a].name
        s == new[a][p]
    IN  /\ pc[a] = "starting" /\ ~gate
        /\ map' = [map EXCEPT ![p] = NoTask]
        /\ owner' = [owner EXCEPT ![p] = Who(a)]
        /\ \/ /\ Disabled(s)
              /\ task' = Dropped(task, map', hold, drain)
              /\ pc' = [pc EXCEPT ![a] = "working"]
              /\ UNCHANGED hold
           \/ /\ ~Disabled(s)
              /\ Free # {}
              /\ LET t == CHOOSE t \in Free : TRUE
                 IN  /\ hold' = [hold EXCEPT ![a] = t]
                     /\ task' = [Dropped(task, map', hold, drain)
                                   EXCEPT ![t] = Supervisor(p, s)]
              /\ pc' = [pc EXCEPT ![a] = "placing"]
        /\ Quiet
        /\ UNCHANGED <<file, watch, conf, gate, sig, new, todo, cur, drain, failed>>

\* Without the second look at the gate.
PlaceProfileUnchecked(a) ==
    LET p == cur[a].name
    IN  /\ pc[a] = "placing"
        /\ hold' = [hold EXCEPT ![a] = NoTask]
        /\ map' = [map EXCEPT ![p] = hold[a]]
        /\ task' = Dropped(task, map', hold', drain)
        /\ owner' = [owner EXCEPT ![p] = Who(a)]
        /\ failed' = IF lock = a THEN failed \ {p} ELSE failed
        /\ pc' = [pc EXCEPT ![a] = "working"]
        /\ Quiet
        /\ UNCHANGED <<file, watch, conf, gate, sig, new, todo, cur, drain>>

\* The authoritative look at the gate, under the lock of the map: what was
\* spawned is inserted, and drops what got there first, or is discarded.
PlaceProfile(a) ==
    LET p == cur[a].name
    IN  /\ pc[a] = "placing"
        /\ hold' = [hold EXCEPT ![a] = NoTask]
        /\ map' = IF gate THEN map ELSE [map EXCEPT ![p] = hold[a]]
        /\ task' = Dropped(task, map', hold', drain)
        /\ owner' = IF gate THEN owner ELSE [owner EXCEPT ![p] = Who(a)]
        /\ failed' = IF lock = a THEN failed \ {p} ELSE failed
        /\ pc' = [pc EXCEPT ![a] = "working"]
        /\ Quiet
        /\ UNCHANGED <<file, watch, conf, gate, sig, new, todo, cur, drain>>

\* The plan is done: ConfigCell::reload swaps the cell and lets go of it.
\* A single start or stop has neither.
Finish(a) ==
    /\ pc[a] = "working" /\ todo[a] = {}
    /\ IF lock = a THEN cell' = new[a] /\ lock' = NoActor ELSE UNCHANGED conf
    /\ pc' = [pc EXCEPT ![a] = "idle"]
    /\ new' = [new EXCEPT ![a] = NoConfig]
    /\ cur' = [cur EXCEPT ![a] = NoStep]
    /\ Quiet
    /\ UNCHANGED <<file, watch, orch, sig, todo, hold, drain, hist>>

-----------------------------------------------------------------------------
(* The other tools of the MCP server. *)

\* profile_stop.
ClientStop(c, p) ==
    /\ Ask
    /\ pc[c] = "idle"
    /\ todo' = [todo EXCEPT ![c] = {PlanStep(1, "stop", p)}]
    /\ pc' = [pc EXCEPT ![c] = "working"]
    /\ UNCHANGED <<file, watch, conf, orch, sig, new, cur, hold, drain, hist>>

\* profile_start: a snapshot of the cell, taken under its mutex and used
\* without it.  A client that still waits for the mutex is idle.
ClientStart(c, p) ==
    /\ Ask
    /\ pc[c] = "idle" /\ lock = NoActor
    /\ p \in DOMAIN cell
    /\ new' = [new EXCEPT ![c] = cell]
    /\ cur' = [cur EXCEPT ![c] = PlanStep(1, "start", p)]
    /\ pc' = [pc EXCEPT ![c] = "starting"]
    /\ UNCHANGED <<file, watch, conf, orch, sig, todo, hold, drain, hist>>

\* tunnel_failover, session_close, session_drain and benchmark_run: the
\* caller holds the supervisor until it is answered.  A drain tells the
\* task to leave, and leaves it in the map.
ClientCalls(c, p, drains) ==
    /\ Ask
    /\ pc[c] = "idle"
    /\ map[p] # NoTask
    /\ hold' = [hold EXCEPT ![c] = map[p]]
    /\ task' = IF drains THEN Told(task, {map[p]}) ELSE task
    /\ pc' = [pc EXCEPT ![c] = "calling"]
    /\ UNCHANGED <<file, watch, conf, map, gate, sig, new, todo, cur, drain, hist>>

ClientAnswered(c) ==
    /\ pc[c] = "calling"
    /\ hold' = [hold EXCEPT ![c] = NoTask]
    /\ task' = Dropped(task, map, hold', drain)
    /\ pc' = [pc EXCEPT ![c] = "idle"]
    /\ Quiet
    /\ UNCHANGED <<file, watch, conf, map, gate, sig, new, todo, cur, drain, hist>>

-----------------------------------------------------------------------------
(* The tasks. *)

\* A task gives up, is refused, or panics.
TaskFails(t) ==
    /\ task[t] # NoTask /\ task[t].st = "serving"
    /\ Ask
    /\ task' = Dropped([task EXCEPT ![t].st = "ended"], map, hold, drain)
    /\ UNCHANGED <<file, watch, conf, map, gate, sig, pc, new, work, drain, hist>>

TaskLeaves(t) ==
    /\ task[t] # NoTask /\ task[t].st = "told"
    /\ task' = Dropped([task EXCEPT ![t].st = "ended"], map, hold, drain)
    /\ Quiet
    /\ UNCHANGED <<file, watch, conf, map, gate, sig, pc, new, work, drain, hist>>

-----------------------------------------------------------------------------
(* The end of `tunnel run`. *)

MainStops ==
    /\ pc[Main] = "idle" /\ sig = "shutdown"
    /\ sig' = "none"
    /\ pc' = [pc EXCEPT ![Main] = "stopPoller"]
    /\ Quiet
    /\ UNCHANGED <<file, watch, conf, orch, new, work, drain, hist>>

\* A reload source takes the signal between two reloads, and Main joins it:
\* first the poller, then the watcher.
SourceStops(b) ==
    /\ pc[b] = "idle"
    /\ pc[Main] = IF b = Poller THEN "stopPoller" ELSE "stopWatcher"
    /\ pc' = [pc EXCEPT ![b] = "gone",
                        ![Main] = IF b = Poller THEN "stopWatcher" ELSE "drain"]
    /\ Quiet
    /\ UNCHANGED <<file, watch, conf, orch, sig, new, work, drain, hist>>

\* The tasks are joined and nobody has told them.
DrainUntold ==
    /\ pc[Main] = "drain"
    /\ gate' = TRUE
    /\ drain' = {map[p] : p \in Profiles} \ {NoTask}
    /\ map' = [p \in Profiles |-> NoTask]
    /\ pc' = [pc EXCEPT ![Main] = "joining"]
    /\ Quiet
    /\ UNCHANGED <<file, watch, conf, task, sig, new, work, hist>>

\* shutdown_deadline raises the gate and empties the map under one lock, and
\* stops all of them at the same time.
Drain ==
    /\ pc[Main] = "drain"
    /\ gate' = TRUE
    /\ drain' = {map[p] : p \in Profiles} \ {NoTask}
    /\ map' = [p \in Profiles |-> NoTask]
    /\ task' = Told(task, drain')
    /\ pc' = [pc EXCEPT ![Main] = "joining"]
    /\ Quiet
    /\ UNCHANGED <<file, watch, conf, sig, new, work, hist>>

Drained ==
    /\ pc[Main] = "joining"
    /\ \A t \in drain : task[t].st = "ended"
    /\ drain' = {}
    /\ task' = Dropped(task, map, hold, {})
    /\ pc' = [pc EXCEPT ![Main] = "gone"]
    /\ Quiet
    /\ UNCHANGED <<file, watch, conf, map, gate, sig, new, work, hist>>

\* The deadline of shutdown_within: the stops go on by themselves.
DrainAbandoned ==
    /\ pc[Main] = "joining"
    /\ \E t \in drain : task[t].st # "ended"
    /\ pc' = [pc EXCEPT ![Main] = "gone"]
    /\ Quiet
    /\ UNCHANGED <<file, watch, conf, orch, sig, new, work, drain, hist>>

\* Everybody is done and the process can exit.
Exited ==
    /\ pc[Main] = "gone"
    /\ \A a \in Actors : pc[a] \in {"idle", "gone"}
    /\ UNCHANGED vars

-----------------------------------------------------------------------------

\* What an actor does once it has started something.
Work(a) ==
    \/ Reads(a) \/ ReloadRejected(a) \/ ReloadSkipped(a) \/ ReloadBegins(a)
    \/ TakeDown(a) \/ BuildFails(a) \/ TakenDown(a)
    \/ StartRefused(a) \/ StartProfile(a) \/ PlaceProfile(a) \/ Finish(a)

Request(c) ==
    \/ ClientReload(c)
    \/ \E p \in Profiles :
         \/ ClientMutates(c, p) \/ ClientStop(c, p) \/ ClientStart(c, p)
         \/ \E drains \in BOOLEAN : ClientCalls(c, p, drains)

Next ==
    \/ EditDisk \/ Sighup \/ Terminate
    \/ MainReload \/ WatchNotice \/ WatchFire \/ PollerApplies
    \/ \E c \in Clients : Request(c) \/ ClientWrites(c) \/ ClientAnswered(c)
    \/ \E a \in Actors : Work(a) \/ FileFails(a)
    \/ \E t \in Tasks : TaskFails(t) \/ TaskLeaves(t)
    \/ MainStops \/ (\E b \in Background : SourceStops(b))
    \/ Drain \/ Drained \/ DrainAbandoned \/ Exited

Spec == Init /\ [][Next]_vars

(***************************************************************************)
(* What needs nobody from outside.  The runtime polls what can go on, a    *)
(* task that was told to leave does so (StopReturns of ProfileSupervisor), *)
(* and a stop of the profiles is awaited for as long as it takes.          *)
(***************************************************************************)
Progress ==
    \/ \E a \in Actors : Work(a)
    \/ \E c \in Clients : ClientWrites(c)
    \/ \E t \in Tasks : TaskLeaves(t)
    \/ MainReload \/ WatchNotice \/ WatchFire
    \/ MainStops \/ (\E b \in Background : SourceStops(b)) \/ Drain \/ Drained

FairSpec == Spec /\ WF_vars(Progress)

-----------------------------------------------------------------------------
(* Properties. *)

PcValues == {"idle", "writing", "reading", "queued", "working", "stopping", "starting",
             "placing", "calling", "stopPoller", "stopWatcher", "drain", "joining", "gone"}

Steps == [phase : 1..4, act : {"stop", "restart", "start"}, name : Profiles]

\* The types of the state: whatever is edited, sent and reloaded, the file holds
\* settings of profiles, the cell none that validation rejects, behind the gate
\* neither, and a supervisor runs some of them (Orchestrator, ConfigCell,
\* ConfigWatchHandle).
TypeOK ==
    /\ disk \in AllConfigs /\ cell \in AllConfigs \ Rejected
    /\ rev \in Nat /\ seen \in 0..rev /\ pend \in 0..rev
    /\ lock \in Actors \cup {NoActor}
    /\ map \in [Profiles -> Tasks \cup {NoTask}]
    /\ gate \in BOOLEAN
    /\ task \in [Tasks -> Supervisors \cup {NoTask}]
    /\ sig \in {"none", "reload", "shutdown"}
    /\ pc \in [Actors -> PcValues]
    /\ new \in [Actors -> AllConfigs]
    /\ todo \in [Actors -> SUBSET Steps]
    /\ cur \in [Actors -> Steps \cup {NoStep}]
    /\ hold \in [Actors -> Tasks \cup {NoTask}]
    /\ drain \subseteq Tasks
    /\ failed \subseteq Profiles
    /\ owner \in [Profiles -> {"config", "operator"}]

Hosts(p) == map[p] # NoTask

\* Between two reloads the daemon runs what the cell says it applied: a
\* profile whose slot no operator has touched since, and whose last build did
\* not fail, has a supervisor if and only if it is enabled, with the settings
\* of the cell (ReloadPlan::compute, Orchestrator::apply_with_auth,
\* ConfigCell::reload).
RunsWhatWasApplied ==
    lock = NoActor /\ ~gate =>
        \A p \in Profiles : owner[p] = "config" /\ p \notin failed =>
            /\ Hosts(p) <=> p \in Wanted(cell)
            /\ Hosts(p) => Agree(task[map[p]].run, cell[p])

\* The map hands out the supervisor of the profile it is asked for, and none
\* that somebody is stopping, or has spawned and may still discard: between
\* the unlock and the await it is in one place only (Orchestrator::profile,
\* stop_profile, start_profile_with_auth).
MapIsExact ==
    /\ \A p \in Profiles : Hosts(p) => task[map[p]] # NoTask /\ task[map[p]].profile = p
    /\ \A a \in Actors : pc[a] \in {"stopping", "placing"} /\ hold[a] # NoTask =>
         \A p \in Profiles : map[p] # hold[a]

\* Nothing is resurrected by a start or reload that races the shutdown: behind
\* the gate the map is empty, and whatever still serves is in the hands of a
\* connection of the MCP server, which is about to discard it or to be
\* answered (HC3 Finding 1, orchestrator.rs; the order of the teardown in
\* cli_dispatch.rs).
NothingIsResurrected ==
    gate =>
        /\ \A p \in Profiles : ~Hosts(p)
        /\ \A t \in Tasks : task[t] # NoTask /\ task[t].st = "serving" =>
             \E c \in Clients : hold[c] = t /\ pc[c] \in {"placing", "calling"}

\* Two tasks serve one profile at the same time only if a client had a hand in
\* it: it holds one of them, or changed the slot last.  Reloads alone never
\* overlap two (restart_profile_with_auth, and the abort by Drop).
OneServesPerProfile ==
    \A t, u \in Tasks :
        /\ t # u /\ task[t] # NoTask /\ task[u] # NoTask
        /\ task[t].profile = task[u].profile
        /\ task[t].st = "serving" /\ task[u].st = "serving"
        => \/ \E c \in Clients : hold[c] \in {t, u}
           \/ owner[task[t].profile] = "operator"

\* A shutdown gets through whatever is going on (the signal loop, the joins of
\* the reload sources and shutdown_within).
ShutdownCompletes == (sig = "shutdown") ~> (pc[Main] = "gone")

\* Nobody waits forever, for the cell, for a stop or for each other: once
\* nothing more is asked for, everyone is back (ConfigCell::reload,
\* stop_profile).
Settles ==
    <>[](lock = NoActor /\ \A a \in Actors : pc[a] \in {"idle", "calling", "gone"})
=============================================================================
