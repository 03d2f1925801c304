---------------------------- MODULE DaemonProofs ----------------------------
(***************************************************************************)
(* What Daemon guarantees for any profiles, configurations, clients and    *)
(* number of supervisors.                                                  *)
(***************************************************************************)
EXTENDS Daemon, TLAPS

\* Where an actor carries out a plan, and where Main has been told to leave.
Busy == {"working", "stopping", "starting", "placing"}
Leaving == {"stopPoller", "stopWatcher", "drain", "joining", "gone"}

\* Who is at work has the cell, unless it is a client; and the gate is raised
\* once the reload sources are gone.
PlaceInv ==
    /\ lock # NoActor => pc[lock] \in Busy
    /\ \A a \in Actors \ Clients : pc[a] \in Busy => lock = a
    /\ \A a \in Actors \ Clients : pc[a] # "calling"
    /\ \A c \in Clients : pc[c] \notin Leaving
    /\ pc[Main] \in {"stopWatcher", "drain", "joining", "gone"} => pc[Poller] = "gone"
    /\ pc[Main] \in {"drain", "joining", "gone"} => pc[Watcher] = "gone"
    /\ gate <=> pc[Main] \in {"joining", "gone"}
    /\ drain # {} => gate

\* A step of a plan starts what the new configuration wants, and a reload
\* stops only what it does not want.
StepFits(a, x) ==
    /\ x.act = "restart" => x.name \in Wanted(new[a])
    /\ x.act = "stop" /\ lock = a => x.name \notin Wanted(new[a])

PlanInv ==
    /\ lock # NoActor => new[lock] \notin Rejected
    /\ \A a \in Actors : pc[a] \notin Busy => todo[a] = {}
    /\ \A a \in Actors : \A x \in todo[a] : x.act # "start" /\ StepFits(a, x)
    /\ \A a \in Actors : pc[a] \in Busy \ {"working"} => cur[a] \in Steps /\ StepFits(a, cur[a])
    /\ \A a \in Actors : pc[a] = "stopping" => cur[a].act # "start"
    /\ \A a \in Actors : pc[a] \in {"starting", "placing"} =>
         /\ cur[a].act # "stop"
         /\ cur[a].name \in DOMAIN new[a]
         /\ lock = a => cur[a].act = "restart"

\* A handle is one of a supervisor that is there; whatever serves has one.
HandleInv ==
    /\ \A p \in Profiles : Hosts(p) => task[map[p]] # NoTask /\ task[map[p]].profile = p
    /\ \A a \in Actors : hold[a] # NoTask =>
         task[hold[a]] # NoTask /\ pc[a] \in {"stopping", "placing", "calling"}
    /\ \A t \in drain : task[t] # NoTask /\ task[t].st # "serving"
    /\ \A t \in Tasks : task[t] # NoTask /\ task[t].st = "serving" => t \in Handles(map, hold, drain)
    /\ gate => \A p \in Profiles : ~Hosts(p)

\* What is being stopped is out of the map and told to leave; what is to be
\* placed is out of everybody else's sight.
StopInv ==
    \A a \in Actors : pc[a] = "stopping" /\ hold[a] # NoTask =>
        task[hold[a]].st # "serving" /\ \A p \in Profiles : map[p] # hold[a]

SpawnInv ==
    \A a \in Actors : pc[a] = "placing" =>
        /\ hold[a] # NoTask
        /\ task[hold[a]].profile = cur[a].name
        /\ task[hold[a]].run = new[a][cur[a].name]
        /\ \A p \in Profiles : map[p] # hold[a]
        /\ \A b \in Actors \ {a} : hold[b] # hold[a]

\* Nobody but a client fills the slot a reload is at.
OwnerInv ==
    \A a \in Actors : pc[a] \in Busy \ {"working"} /\ lock = a /\ owner[cur[a].name] = "config" =>
        map[cur[a].name] = NoTask

\* The slot of p is what configuration c says.
Matches(p, c) ==
    /\ Hosts(p) <=> p \in Wanted(c)
    /\ Hosts(p) => Agree(task[map[p]].run, c[p])

\* The plan of a has nothing to do for p, or has done it.
Settled(a, p) ==
    /\ \A x \in todo[a] : x.name # p
    /\ pc[a] \in Busy \ {"working"} => cur[a].name # p

ReloadInv ==
    ~gate => \A p \in Profiles : owner[p] = "config" /\ p \notin failed =>
        /\ lock = NoActor => Matches(p, cell)
        /\ \A a \in Actors : lock = a /\ Settled(a, p) => Matches(p, new[a])

Inv == /\ TypeOK /\ PlaceInv /\ PlanInv
       /\ HandleInv /\ StopInv /\ SpawnInv /\ OwnerInv /\ ReloadInv

-----------------------------------------------------------------------------
(* Configurations and plans. *)

\* A configuration gives settings to some of the profiles.
LEMMA ConfigType ==
    \A c : c \in AllConfigs <=> DOMAIN c \subseteq Profiles /\ c \in [DOMAIN c -> Settings]
  BY DEF AllConfigs

\* The empty configuration of an idle actor is one too.
LEMMA NoConfigType == NoConfig \in AllConfigs
  BY ConfigType DEF NoConfig

\* What mutate_doc makes of a configuration is one.
LEMMA EditType ==
    ASSUME NEW c \in AllConfigs, NEW p \in DOMAIN c
    PROVE  [c EXCEPT ![p] = IF NewForward \in DOMAIN @.forwards
                            THEN WithoutForward(@) ELSE WithForward(@)] \in AllConfigs
<1>1. DOMAIN c \subseteq Profiles /\ c \in [DOMAIN c -> Settings]
  BY ConfigType
<1>2. WithForward(c[p]) \in Settings /\ WithoutForward(c[p]) \in Settings
  BY <1>1, DaemonAssumption
<1>3. [c EXCEPT ![p] = IF NewForward \in DOMAIN @.forwards
                       THEN WithoutForward(@) ELSE WithForward(@)] \in [DOMAIN c -> Settings]
  BY <1>1, <1>2
<1> QED BY <1>1, <1>3 DEF AllConfigs

\* Every step of a plan is one, and does what the new configuration wants.
LEMMA ComputeFits ==
    ASSUME NEW c \in AllConfigs, NEW k \in AllConfigs, NEW x \in Compute(c, k)
    PROVE  /\ x \in Steps /\ x.act # "start"
           /\ x.act = "restart" => x.name \in Wanted(k)
           /\ x.act = "stop" => x.name \notin Wanted(k)
<1>1. DOMAIN c \subseteq Profiles /\ DOMAIN k \subseteq Profiles
  BY ConfigType
<1>2. \E n \in Profiles, i \in 1..4 :
        \/ x = PlanStep(i, "restart", n) /\ n \in Wanted(k)
        \/ x = PlanStep(i, "stop", n) /\ n \notin Wanted(k)
  BY <1>1 DEF Compute, Wanted
<1> QED BY <1>2 DEF PlanStep, Steps

\* A profile without a step in the plan may stay as it is: ReloadPlan::compute
\* leaves out nothing that the two configurations disagree about.
THEOREM ComputeIsComplete ==
    ASSUME NEW c \in AllConfigs, NEW k \in AllConfigs, NEW p,
           \A x \in Compute(c, k) : x.name # p
    PROVE  /\ p \in Wanted(c) <=> p \in Wanted(k)
           /\ p \in Wanted(c) => Agree(c[p], k[p])
<1>0. /\ c \in [DOMAIN c -> Settings] /\ k \in [DOMAIN k -> Settings]
  BY ConfigType
<1> DEFINE both == DOMAIN c \cap DOMAIN k
           changed == {n \in both : ConnectionLevelChanged(c[n], k[n])}
           enabled == {n \in DOMAIN k : ~Disabled(k[n])}
<1>1. /\ p \notin DOMAIN c \ DOMAIN k
      /\ p \notin enabled \ DOMAIN c
      /\ ~(p \in both \ enabled /\ ~Disabled(c[p]))
      /\ p \notin changed \cap enabled
      /\ ~(p \in (both \cap enabled) \ changed /\ DiffForwards(c[p], k[p]) # {})
  <2>1. \A i \in 1..4 : PlanStep(i, "stop", p).name = p /\ PlanStep(i, "restart", p).name = p
    BY DEF PlanStep
  <2>2. /\ PlanStep(1, "stop", p) \notin Compute(c, k)
        /\ PlanStep(2, "restart", p) \notin Compute(c, k)
        /\ PlanStep(3, "stop", p) \notin Compute(c, k)
        /\ PlanStep(3, "restart", p) \notin Compute(c, k)
        /\ PlanStep(4, "restart", p) \notin Compute(c, k)
    BY <2>1
  <2> QED BY <2>2 DEF Compute
<1>2. p \in Wanted(c) => p \in enabled /\ p \in both /\ p \notin changed
  BY <1>1 DEF Wanted
<1>3. p \in Wanted(k) => p \in Wanted(c)
  BY <1>1 DEF Wanted, ConnectionLevelChanged, Disabled
<1>4. ASSUME p \in Wanted(c) PROVE Agree(c[p], k[p])
  <2>1. c[p] \in Settings /\ k[p] \in Settings
    BY <1>0, <1>2, <1>4
  <2>2. c[p].conn = k[p].conn /\ c[p].enabled = k[p].enabled
    BY <1>2, <1>4 DEF ConnectionLevelChanged
  <2>3. DiffForwards(c[p], k[p]) = {}
    BY <1>1, <1>2, <1>4
  <2>4. DOMAIN c[p].forwards = DOMAIN k[p].forwards
    BY <2>3 DEF DiffForwards
  <2>5. \A f \in DOMAIN c[p].forwards : c[p].forwards[f] = k[p].forwards[f]
    BY <2>3, <2>4 DEF DiffForwards
  <2>6. c[p].forwards = [f \in DOMAIN c[p].forwards |-> c[p].forwards[f]]
        /\ k[p].forwards = [f \in DOMAIN k[p].forwards |-> k[p].forwards[f]]
    BY <2>1, DaemonAssumption
  <2>7. c[p].forwards = k[p].forwards
    BY <2>4, <2>5, <2>6
  <2> QED BY <2>2, <2>7 DEF Agree
<1> QED BY <1>2, <1>3, <1>4 DEF Wanted

-----------------------------------------------------------------------------
(* Handles. *)

TaskMaps == [Tasks -> Supervisors \cup {NoTask}]

\* A supervisor is never mistaken for none.
LEMMA SupervisorIsThere ==
    ASSUME NEW p \in Profiles, NEW s \in Settings
    PROVE  /\ Supervisor(p, s) \in Supervisors
           /\ Supervisor(p, s) # NoTask
           /\ Supervisor(p, s).profile = p /\ Supervisor(p, s).run = s
           /\ Supervisor(p, s).st = "serving"
<1>1. Supervisor(p, s) \in Supervisors
  BY DEF Supervisor, Supervisors
<1> QED BY <1>1, DaemonAssumption DEF Supervisor

\* Same supervisor, though it may have been told to leave meanwhile.
Same(x, y) == x # NoTask /\ x.profile = y.profile /\ x.run = y.run
                /\ (x.st = "serving" => y.st = "serving")

\* A drop leaves alone what somebody holds.
LEMMA DroppedFacts ==
    ASSUME NEW ts \in TaskMaps, NEW m, NEW h, NEW d
    PROVE  /\ Dropped(ts, m, h, d) \in TaskMaps
           /\ \A t \in Tasks : t \in Handles(m, h, d) => Dropped(ts, m, h, d)[t] = ts[t]
           /\ \A t \in Tasks : Dropped(ts, m, h, d)[t] # NoTask =>
                ts[t] # NoTask /\ Same(Dropped(ts, m, h, d)[t], ts[t])
           /\ \A t \in Tasks : Dropped(ts, m, h, d)[t] # NoTask
                               /\ Dropped(ts, m, h, d)[t].st = "serving" => t \in Handles(m, h, d)
<1> DEFINE D == Dropped(ts, m, h, d)
<1>1. \A t \in Tasks : D[t] = IF ts[t] = NoTask \/ t \in Handles(m, h, d) THEN ts[t]
                              ELSE IF ts[t].st = "ended" THEN NoTask
                              ELSE [ts[t] EXCEPT !.st = "told"]
  BY DEF Dropped
<1>2. ASSUME NEW r \in Supervisors
      PROVE  /\ [r EXCEPT !.st = "told"] \in Supervisors
             /\ [r EXCEPT !.st = "told"].profile = r.profile
             /\ [r EXCEPT !.st = "told"].run = r.run
             /\ [r EXCEPT !.st = "told"].st = "told"
  BY DEF Supervisors
<1>3. D = [t \in Tasks |-> D[t]]
  BY DEF Dropped
<1>4. \A t \in Tasks : D[t] \in Supervisors \cup {NoTask}
  BY <1>1, <1>2 DEF TaskMaps
<1>5. D \in TaskMaps
  BY <1>3, <1>4 DEF TaskMaps
<1>6. ASSUME NEW t \in Tasks, D[t] # NoTask
      PROVE  ts[t] # NoTask /\ Same(D[t], ts[t]) /\ (D[t].st = "serving" => t \in Handles(m, h, d))
  <2>1. ts[t] # NoTask /\ ts[t] \in Supervisors
    BY <1>1, <1>6 DEF TaskMaps
  <2> QED BY <1>1, <1>2, <1>6, <2>1 DEF Same
<1> HIDE DEF D
<1> QED BY <1>1, <1>5, <1>6 DEF D

\* A Shutdown reaches those it is sent to, and nobody else.
LEMMA ToldFacts ==
    ASSUME NEW ts \in TaskMaps, NEW S \in SUBSET Tasks, \A t \in S : ts[t] # NoTask
    PROVE  /\ Told(ts, S) \in TaskMaps
           /\ \A t \in Tasks : ts[t] # NoTask => Same(Told(ts, S)[t], ts[t])
           /\ \A t \in Tasks : Told(ts, S)[t] # NoTask => ts[t] # NoTask
           /\ \A t \in Tasks \ S : Told(ts, S)[t] = ts[t]
           /\ \A t \in S : Told(ts, S)[t].st # "serving"
<1> DEFINE D == Told(ts, S)
<1>1. \A t \in Tasks : D[t] = IF t \in S /\ ts[t].st = "serving"
                              THEN [ts[t] EXCEPT !.st = "told"] ELSE ts[t]
  BY DEF Told
<1>2. ASSUME NEW r \in Supervisors
      PROVE  /\ [r EXCEPT !.st = "told"] \in Supervisors
             /\ [r EXCEPT !.st = "told"].profile = r.profile
             /\ [r EXCEPT !.st = "told"].run = r.run
             /\ [r EXCEPT !.st = "told"].st = "told"
             /\ [r EXCEPT !.st = "told"] # NoTask
  <2>1. [r EXCEPT !.st = "told"] \in Supervisors
    BY DEF Supervisors
  <2> QED BY <2>1, DaemonAssumption DEF Supervisors
<1>3. D = [t \in Tasks |-> D[t]]
  BY DEF Told
<1>4. \A t \in Tasks : D[t] \in Supervisors \cup {NoTask}
  BY <1>1, <1>2 DEF TaskMaps
<1>5. D \in TaskMaps
  BY <1>3, <1>4 DEF TaskMaps
<1>6. ASSUME NEW t \in Tasks, ts[t] # NoTask PROVE Same(D[t], ts[t])
  BY <1>1, <1>2, <1>6 DEF Same, TaskMaps
<1>7. \A t \in Tasks : D[t] # NoTask => ts[t] # NoTask
  BY <1>1
<1>8. \A t \in S : D[t].st # "serving"
  BY <1>1, <1>2 DEF TaskMaps
<1> HIDE DEF D
<1> QED BY <1>1, <1>5, <1>6, <1>7, <1>8 DEF D


-----------------------------------------------------------------------------
(* The types. *)

\* The boot loop starts with the right types.
LEMMA InitTyped ==
    ASSUME Init PROVE TypeOK
<1>1. Boot \in AllConfigs
  BY DaemonAssumption
<1>2. DOMAIN Boot \subseteq Profiles /\ \A p \in DOMAIN Boot : Boot[p] \in Settings
  BY <1>1, ConfigType
<1> DEFINE up == (Wanted(Boot) \cap Selected) \ failed
<1>3. up \subseteq DOMAIN Boot /\ up \subseteq Profiles
  BY <1>2 DEF Wanted
<1>4. map = [p \in Profiles |-> IF p \in up THEN BootTask[p] ELSE NoTask]
  BY DEF Init
<1>5. map \in [Profiles -> Tasks \cup {NoTask}]
  BY <1>4, DaemonAssumption
<1>6. task = [t \in Tasks |->
                IF \E p \in up : BootTask[p] = t
                THEN Supervisor(CHOOSE p \in up : BootTask[p] = t,
                                Boot[CHOOSE p \in up : BootTask[p] = t])
                ELSE NoTask]
  BY DEF Init
<1>7. ASSUME NEW t \in Tasks, \E p \in up : BootTask[p] = t
      PROVE  Supervisor(CHOOSE p \in up : BootTask[p] = t,
                        Boot[CHOOSE p \in up : BootTask[p] = t]) \in Supervisors
  <2> DEFINE q == CHOOSE p \in up : BootTask[p] = t
  <2>1. q \in up
    BY <1>7
  <2> HIDE DEF q
  <2>2. Supervisor(q, Boot[q]) \in Supervisors
    BY <1>2, <1>3, <2>1, SupervisorIsThere
  <2> QED BY <2>2 DEF q
<1>8. task \in TaskMaps
  <2> HIDE DEF up
  <2> QED BY <1>6, <1>7 DEF TaskMaps
<1>9. failed \subseteq Profiles
  BY <1>2 DEF Init, Wanted
<1>10. pc \in [Actors -> PcValues] /\ todo \in [Actors -> SUBSET Steps]
  BY DEF Init, PcValues
<1>11. new \in [Actors -> AllConfigs]
  BY NoConfigType DEF Init
<1>12. cur \in [Actors -> Steps \cup {NoStep}] /\ hold \in [Actors -> Tasks \cup {NoTask}]
  BY DEF Init
<1>13. owner \in [Profiles -> {"config", "operator"}]
  BY DEF Init
<1>14. /\ disk \in AllConfigs /\ cell \in AllConfigs \ Rejected
       /\ rev \in Nat /\ seen \in 0..rev /\ pend \in 0..rev
       /\ lock \in Actors \cup {NoActor} /\ gate \in BOOLEAN
       /\ sig \in {"none", "reload", "shutdown"} /\ drain \subseteq Tasks
  <2>1. /\ disk = Boot /\ cell = Boot /\ rev = 0 /\ seen = 0 /\ pend = 0
        /\ lock = NoActor /\ gate = FALSE /\ sig = "none" /\ drain = {}
    BY DEF Init
  <2>2. 0 \in Nat /\ 0 \in 0..0
    OBVIOUS
  <2> QED BY <1>1, <2>1, <2>2, DaemonAssumption
<1> QED BY <1>5, <1>8, <1>9, <1>10, <1>11, <1>12, <1>13, <1>14 DEF TypeOK, TaskMaps

\* The steps that leave the map, the supervisors and the plans alone.
Asking ==
    \/ EditDisk \/ Sighup \/ Terminate
    \/ MainReload \/ WatchNotice \/ WatchFire \/ PollerApplies
    \/ \E c \in Clients : \/ ClientReload(c) \/ ClientWrites(c)
                          \/ \E p \in Profiles : ClientMutates(c, p)
    \/ \E a \in Actors : Reads(a) \/ FileFails(a) \/ ReloadRejected(a) \/ ReloadSkipped(a)
    \/ MainStops \/ (\E b \in Background : SourceStops(b))
    \/ DrainAbandoned \/ Exited

\* Main, the watcher, the poller and the clients are different actors.
LEMMA ActorNames ==
    /\ Main \in Actors /\ Watcher \in Actors /\ Poller \in Actors
    /\ Main \notin Clients /\ Watcher \notin Clients /\ Poller \notin Clients
    /\ Main # Watcher /\ Main # Poller /\ Watcher # Poller
    /\ Clients \subseteq Actors /\ Background \subseteq Actors
    /\ Background = {Watcher, Poller} /\ NoActor \notin Actors
  BY DaemonAssumption DEF Actors, Background, Main, Watcher, Poller

\* An edit, a signal or a request leaves the types alone.
LEMMA AskingTyped ==
    ASSUME TypeOK, Asking PROVE TypeOK'
<1> USE ActorNames
<1>1. /\ disk \in AllConfigs /\ new \in [Actors -> AllConfigs]
      /\ cell \in AllConfigs \ Rejected
      /\ rev \in Nat /\ seen \in 0..rev /\ pend \in 0..rev
      /\ pc \in [Actors -> PcValues] /\ sig \in {"none", "reload", "shutdown"}
  BY DEF TypeOK
<1>2. disk' \in AllConfigs /\ cell' \in AllConfigs \ Rejected
  BY <1>1, DaemonAssumption
  DEF Asking, EditDisk, Sighup, Terminate, MainReload, WatchNotice, WatchFire, PollerApplies,
      ClientReload, ClientWrites, ClientMutates, Reads, FileFails, ReloadRejected, ReloadSkipped,
      MainStops, SourceStops, DrainAbandoned, Exited, file, conf, vars
<1>3. rev' \in Nat /\ seen' \in 0..rev' /\ pend' \in 0..rev'
  BY <1>1
  DEF Asking, EditDisk, Sighup, Terminate, MainReload, WatchNotice, WatchFire, PollerApplies,
      ClientReload, ClientWrites, ClientMutates, Reads, FileFails, ReloadRejected, ReloadSkipped,
      MainStops, SourceStops, DrainAbandoned, Exited, file, watch, vars
<1>4. new' \in [Actors -> AllConfigs]
  <2>1. \A c \in Clients, p \in Profiles : ClientMutates(c, p) => new' \in [Actors -> AllConfigs]
    BY <1>1, EditType DEF ClientMutates
  <2>2. (\E c \in Clients : \E p \in Profiles : ClientMutates(c, p)) \/ new' = new
        \/ (\E a \in Actors : \E k \in AllConfigs : new' = [new EXCEPT ![a] = k])
    BY <1>1, NoConfigType, DaemonAssumption
    DEF Asking, EditDisk, Sighup, Terminate, MainReload, WatchNotice, WatchFire, PollerApplies,
        ClientReload, ClientWrites, Reads, FileFails, ReloadRejected, ReloadSkipped,
        MainStops, SourceStops, DrainAbandoned, Exited, ReadDisk, vars
  <2> QED BY <1>1, <2>1, <2>2
<1>5. pc' \in [Actors -> PcValues]
  BY <1>1
  DEF Asking, EditDisk, Sighup, Terminate, MainReload, WatchNotice, WatchFire, PollerApplies,
      ClientReload, ClientWrites, ClientMutates, Reads, FileFails, ReloadRejected, ReloadSkipped,
      MainStops, SourceStops, DrainAbandoned, Exited, ReadDisk, PcValues, vars
<1>6. sig' \in {"none", "reload", "shutdown"}
  BY <1>1
  DEF Asking, EditDisk, Sighup, Terminate, MainReload, WatchNotice, WatchFire, PollerApplies,
      ClientReload, ClientWrites, ClientMutates, Reads, FileFails, ReloadRejected, ReloadSkipped,
      MainStops, SourceStops, DrainAbandoned, Exited, vars
<1>7. UNCHANGED <<lock, orch, work, drain, hist>>
  BY DEF Asking, EditDisk, Sighup, Terminate, MainReload, WatchNotice, WatchFire, PollerApplies,
      ClientReload, ClientWrites, ClientMutates, Reads, FileFails, ReloadRejected, ReloadSkipped,
      MainStops, SourceStops, DrainAbandoned, Exited, conf, orch, work, hist, vars
<1> QED BY <1>2, <1>3, <1>4, <1>5, <1>6, <1>7 DEF TypeOK, orch, work, hist

-----------------------------------------------------------------------------
(* Steps that ask for something, and the file. *)

Outside == {"idle", "writing", "reading", "queued"}

\* Nobody starts, leaves or goes on with a plan.
Calm ==
    /\ UNCHANGED <<lock, map, gate, task, todo, cur, hold, drain, failed, owner>>
    /\ cell' = cell \/ gate
    /\ \A a \in Actors :
         \/ pc'[a] = pc[a] /\ new'[a] = new[a]
         \/ pc[a] \in Outside /\ pc'[a] \in Outside
         \/ pc'[a] = pc[a] /\ pc[a] \in Outside
         \/ pc[a] \in Outside \cup Leaving /\ pc'[a] \in Leaving

\* None of those steps touches a plan, the map or a supervisor.
LEMMA AskingIsCalm ==
    ASSUME TypeOK, Asking PROVE Calm
<1> USE ActorNames
<1>1. pc \in [Actors -> PcValues] /\ new \in [Actors -> AllConfigs]
  BY DEF TypeOK
<1>2. UNCHANGED <<lock, map, gate, task, todo, cur, hold, drain, failed, owner>>
  BY DEF Asking, EditDisk, Sighup, Terminate, MainReload, WatchNotice, WatchFire, PollerApplies,
      ClientReload, ClientWrites, ClientMutates, Reads, FileFails, ReloadRejected, ReloadSkipped,
      MainStops, SourceStops, DrainAbandoned, Exited, conf, orch, work, hist, vars
<1>3. cell' = cell \/ gate
  BY DEF Asking, EditDisk, Sighup, Terminate, MainReload, WatchNotice, WatchFire, PollerApplies,
      ClientReload, ClientWrites, ClientMutates, Reads, FileFails, ReloadRejected, ReloadSkipped,
      MainStops, SourceStops, DrainAbandoned, Exited, conf, orch, vars
<1>4. \A a \in Actors :
         \/ pc'[a] = pc[a] /\ new'[a] = new[a]
         \/ pc[a] \in Outside /\ pc'[a] \in Outside
         \/ pc'[a] = pc[a] /\ pc[a] \in Outside
         \/ pc[a] \in Outside \cup Leaving /\ pc'[a] \in Leaving
  BY <1>1
  DEF Asking, EditDisk, Sighup, Terminate, MainReload, WatchNotice, WatchFire, PollerApplies,
      ClientReload, ClientWrites, ClientMutates, Reads, FileFails, ReloadRejected, ReloadSkipped,
      MainStops, SourceStops, DrainAbandoned, Exited, ReadDisk, Outside, Leaving, vars
<1> QED BY <1>2, <1>3, <1>4 DEF Calm

\* Nor do they let anybody past the mutex of the cell or the gate.
LEMMA AskingKeepsPlaces ==
    ASSUME TypeOK, PlaceInv, Asking PROVE PlaceInv'
<1> USE ActorNames
<1>1. pc \in [Actors -> PcValues] /\ lock \in Actors \cup {NoActor}
  BY DEF TypeOK
<1>2. Calm
  BY AskingIsCalm
<1>3. \A a \in Actors : pc'[a] \in Busy \cup {"calling"} \/ pc[a] \in Busy \cup {"calling"}
                        => pc'[a] = pc[a]
  BY <1>2 DEF Calm, Busy, Outside, Leaving
<1>4. /\ lock' # NoActor => pc'[lock'] \in Busy
      /\ \A a \in Actors \ Clients : pc'[a] \in Busy => lock' = a
      /\ \A a \in Actors \ Clients : pc'[a] # "calling"
  BY <1>1, <1>2, <1>3 DEF PlaceInv, Calm, Busy
<1>5. /\ \A c \in Clients : pc'[c] \notin Leaving
      /\ pc'[Main] \in {"stopWatcher", "drain", "joining", "gone"} => pc'[Poller] = "gone"
      /\ pc'[Main] \in {"drain", "joining", "gone"} => pc'[Watcher] = "gone"
      /\ gate <=> pc'[Main] \in {"joining", "gone"}
  BY <1>1
  DEF PlaceInv, Asking, EditDisk, Sighup, Terminate, MainReload, WatchNotice, WatchFire,
      PollerApplies, ClientReload, ClientWrites, ClientMutates, Reads, FileFails, ReloadRejected,
      ReloadSkipped, MainStops, SourceStops, DrainAbandoned, Exited, ReadDisk, Leaving, vars
<1> QED BY <1>2, <1>4, <1>5 DEF PlaceInv, Calm

\* So all of the invariant survives them.
LEMMA AskingKeepsInv ==
    ASSUME Inv, Asking PROVE Inv'
<1> USE ActorNames
<1>1. TypeOK' /\ PlaceInv' /\ Calm
  BY AskingTyped, AskingKeepsPlaces, AskingIsCalm DEF Inv
<1>2. UNCHANGED <<lock, map, gate, task, todo, cur, hold, drain, failed, owner>>
  BY <1>1 DEF Calm
<1>3. \A a \in Actors : \/ pc'[a] = pc[a] /\ new'[a] = new[a]
                        \/ /\ pc[a] \notin Busy \cup {"calling"}
                           /\ pc'[a] \notin Busy \cup {"calling"}
  BY <1>1 DEF Calm, Busy, Outside, Leaving
<1>4. lock \in Actors => pc'[lock] = pc[lock] /\ new'[lock] = new[lock]
  BY <1>3 DEF Inv, PlaceInv
<1>5. PlanInv'
  <2>1. \A a \in Actors : pc'[a] \notin Busy => todo'[a] = {}
    BY <1>2, <1>3 DEF Inv, PlanInv
  <2>2. \A a \in Actors : \A x \in todo'[a] : x.act # "start" /\ StepFits(a, x)'
    BY <1>2, <1>3, <2>1 DEF Inv, PlanInv, StepFits
  <2>3. \A a \in Actors : pc'[a] \in Busy \ {"working"} => cur'[a] \in Steps /\ StepFits(a, cur[a])'
    BY <1>2, <1>3 DEF Inv, PlanInv, StepFits
  <2>4. /\ \A a \in Actors : pc'[a] = "stopping" => cur'[a].act # "start"
        /\ \A a \in Actors : pc'[a] \in {"starting", "placing"} =>
             /\ cur'[a].act # "stop"
             /\ cur'[a].name \in DOMAIN new'[a]
             /\ lock' = a => cur'[a].act = "restart"
    BY <1>2, <1>3 DEF Inv, PlanInv, Busy
  <2>5. lock # NoActor => new'[lock] \notin Rejected
    BY <1>1, <1>4 DEF Inv, TypeOK, PlanInv
  <2> QED BY <1>2, <2>1, <2>2, <2>3, <2>4, <2>5 DEF PlanInv
<1>6. HandleInv'
  BY <1>2, <1>3 DEF Inv, HandleInv, Hosts, Busy, Handles
<1>7. StopInv' /\ SpawnInv' /\ OwnerInv'
  BY <1>2, <1>3 DEF Inv, StopInv, SpawnInv, OwnerInv, Busy
<1>8. ReloadInv'
  <2> SUFFICES ASSUME ~gate, NEW p \in Profiles, owner[p] = "config", p \notin failed
               PROVE  /\ lock = NoActor => Matches(p, cell)'
                      /\ \A a \in Actors : lock = a /\ Settled(a, p)' => Matches(p, new[a])'
    BY <1>2 DEF ReloadInv
  <2>1. cell' = cell
    BY <1>1 DEF Calm
  <2>2. lock = NoActor => Matches(p, cell)'
    BY <1>2, <2>1 DEF Inv, ReloadInv, Matches, Hosts
  <2>3. ASSUME NEW a \in Actors, lock = a, Settled(a, p)' PROVE Matches(p, new[a])'
    BY <1>2, <1>4, <2>3 DEF Inv, ReloadInv, Matches, Hosts, Settled
  <2> QED BY <2>2, <2>3
<1> QED BY <1>1, <1>5, <1>6, <1>7, <1>8 DEF Inv

-----------------------------------------------------------------------------
(* Steps of a plan. *)

\* Who goes on with a plan keeps the cell, if it has it.
LEMMA WorkKeepsPlaces ==
    ASSUME TypeOK, PlaceInv, NEW a \in Actors, pc[a] \in Busy, NEW v \in Busy,
           pc' = [pc EXCEPT ![a] = v], UNCHANGED <<lock, gate, drain>>
    PROVE  PlaceInv'
<1> USE ActorNames
<1>1. pc \in [Actors -> PcValues] /\ lock \in Actors \cup {NoActor}
  BY DEF TypeOK
<1>2. pc'[a] = v /\ \A b \in Actors \ {a} : pc'[b] = pc[b]
  BY <1>1
<1>3. /\ lock' # NoActor => pc'[lock'] \in Busy
      /\ \A b \in Actors \ Clients : pc'[b] \in Busy => lock' = b
      /\ \A b \in Actors \ Clients : pc'[b] # "calling"
  BY <1>1, <1>2 DEF PlaceInv, Busy
<1>4. /\ \A c \in Clients : pc'[c] \notin Leaving
      /\ pc'[Main] \in {"stopWatcher", "drain", "joining", "gone"} => pc'[Poller] = "gone"
      /\ pc'[Main] \in {"drain", "joining", "gone"} => pc'[Watcher] = "gone"
      /\ gate <=> pc'[Main] \in {"joining", "gone"}
  BY <1>2 DEF PlaceInv, Busy, Leaving
<1> QED BY <1>3, <1>4 DEF PlaceInv

\* Two slots of the map never share a supervisor.
LEMMA SlotsDiffer ==
    ASSUME HandleInv, NEW p \in Profiles, NEW q \in Profiles, Hosts(p), map[p] = map[q]
    PROVE  p = q
  BY DEF HandleInv, Hosts

\* stop_profile takes the supervisor out of the map and tells it to leave.
LEMMA TakeDownKeepsInv ==
    ASSUME Inv, NEW a \in Actors, TakeDown(a) PROVE Inv'
<1> USE ActorNames
<1>1. PICK x \in NextSteps(todo[a]) :
         /\ x.act \in {"stop", "restart"}
         /\ cur' = [cur EXCEPT ![a] = x]
         /\ todo' = [todo EXCEPT ![a] = @ \ {x}]
         /\ hold' = [hold EXCEPT ![a] = map[x.name]]
         /\ map' = [map EXCEPT ![x.name] = NoTask]
         /\ task' = Told(task, {map[x.name]} \ {NoTask})
         /\ owner' = [owner EXCEPT ![x.name] = Who(a)]
         /\ failed' = IF x.act = "stop" THEN failed \ {x.name} ELSE failed
  BY DEF TakeDown
<1>2. /\ TypeOK /\ PlaceInv /\ PlanInv /\ HandleInv /\ StopInv /\ SpawnInv /\ OwnerInv
      /\ ReloadInv
  BY DEF Inv
<1>3. /\ pc[a] = "working" /\ pc' = [pc EXCEPT ![a] = "stopping"]
      /\ UNCHANGED <<disk, rev, seen, pend, cell, lock, gate, sig, new, drain>>
  BY DEF TakeDown, file, watch, conf
<1>4. /\ map \in [Profiles -> Tasks \cup {NoTask}] /\ task \in TaskMaps
      /\ pc \in [Actors -> PcValues] /\ new \in [Actors -> AllConfigs]
      /\ todo \in [Actors -> SUBSET Steps] /\ cur \in [Actors -> Steps \cup {NoStep}]
      /\ hold \in [Actors -> Tasks \cup {NoTask}] /\ drain \subseteq Tasks
      /\ failed \subseteq Profiles /\ owner \in [Profiles -> {"config", "operator"}]
  BY <1>2 DEF TypeOK, TaskMaps
<1>5. x \in todo[a] /\ x \in Steps /\ x.name \in Profiles
  BY <1>1, <1>4 DEF NextSteps, Steps
<1> DEFINE h == map[x.name]
           S == {h} \ {NoTask}
<1>6. S \in SUBSET Tasks /\ \A t \in S : task[t] # NoTask
  BY <1>2, <1>4, <1>5 DEF HandleInv, Hosts
<1>7. /\ task' \in TaskMaps
      /\ \A t \in Tasks : task[t] # NoTask => Same(task'[t], task[t])
      /\ \A t \in Tasks : task'[t] # NoTask => task[t] # NoTask
      /\ \A t \in Tasks \ S : task'[t] = task[t]
      /\ \A t \in S : task'[t].st # "serving"
  BY <1>1, <1>4, <1>6, ToldFacts
<1>8. /\ pc'[a] = "stopping" /\ \A b \in Actors \ {a} : pc'[b] = pc[b]
      /\ cur'[a] = x /\ \A b \in Actors \ {a} : cur'[b] = cur[b]
      /\ todo'[a] = todo[a] \ {x} /\ \A b \in Actors \ {a} : todo'[b] = todo[b]
      /\ hold'[a] = h /\ \A b \in Actors \ {a} : hold'[b] = hold[b]
      /\ map'[x.name] = NoTask /\ \A p \in Profiles \ {x.name} : map'[p] = map[p]
      /\ owner'[x.name] = Who(a) /\ \A p \in Profiles \ {x.name} : owner'[p] = owner[p]
      /\ \A p \in Profiles \ {x.name} : p \in failed' <=> p \in failed
  BY <1>1, <1>3, <1>4, <1>5
<1>9. hold[a] = NoTask
  BY <1>2, <1>3 DEF HandleInv
<1>10. NoTask \notin Tasks
  BY DaemonAssumption
<1>11. TypeOK'
  <2>1. /\ map' \in [Profiles -> Tasks \cup {NoTask}] /\ pc' \in [Actors -> PcValues]
        /\ todo' \in [Actors -> SUBSET Steps] /\ cur' \in [Actors -> Steps \cup {NoStep}]
        /\ hold' \in [Actors -> Tasks \cup {NoTask}]
        /\ failed' \subseteq Profiles /\ owner' \in [Profiles -> {"config", "operator"}]
    BY <1>1, <1>3, <1>4, <1>5 DEF PcValues, Who
  <2> QED BY <1>2, <1>3, <1>7, <2>1 DEF TypeOK, TaskMaps
<1>12. PlaceInv'
  BY <1>2, <1>3, WorkKeepsPlaces DEF Busy
<1>13. PlanInv'
  <2>1. \A b \in Actors : pc'[b] \notin Busy => todo'[b] = {}
    BY <1>2, <1>8 DEF PlanInv, Busy
  <2>2. \A b \in Actors : \A y \in todo'[b] : y.act # "start" /\ StepFits(b, y)'
    BY <1>2, <1>3, <1>8 DEF PlanInv, StepFits
  <2>3. \A b \in Actors : pc'[b] \in Busy \ {"working"} => cur'[b] \in Steps /\ StepFits(b, cur[b])'
    BY <1>2, <1>3, <1>5, <1>8 DEF PlanInv, StepFits
  <2>4. /\ \A b \in Actors : pc'[b] = "stopping" => cur'[b].act # "start"
        /\ \A b \in Actors : pc'[b] \in {"starting", "placing"} =>
             /\ cur'[b].act # "stop"
             /\ cur'[b].name \in DOMAIN new'[b]
             /\ lock' = b => cur'[b].act = "restart"
    BY <1>1, <1>2, <1>3, <1>8 DEF PlanInv
  <2> QED BY <1>2, <1>3, <2>1, <2>2, <2>3, <2>4 DEF PlanInv
<1>14. HandleInv'
  <2>1. ASSUME NEW p \in Profiles, map'[p] # NoTask
        PROVE  task'[map'[p]] # NoTask /\ task'[map'[p]].profile = p
    <3>1. p # x.name /\ map'[p] = map[p] /\ map[p] \in Tasks
      BY <1>4, <1>8, <2>1
    <3>2. task[map[p]] # NoTask /\ task[map[p]].profile = p
      BY <1>2, <2>1, <3>1 DEF HandleInv, Hosts
    <3> QED BY <1>7, <3>1, <3>2 DEF Same
  <2>2. ASSUME NEW b \in Actors, hold'[b] # NoTask
        PROVE  task'[hold'[b]] # NoTask /\ pc'[b] \in {"stopping", "placing", "calling"}
    <3>1. CASE b = a
      BY <1>6, <1>7, <1>8, <2>2, <3>1 DEF Same
    <3>2. CASE b # a
      BY <1>2, <1>4, <1>7, <1>8, <2>2, <3>2 DEF HandleInv, Same
    <3> QED BY <3>1, <3>2
  <2>3. \A t \in drain' : task'[t] # NoTask /\ task'[t].st # "serving"
    BY <1>2, <1>3, <1>4, <1>7 DEF HandleInv, Same
  <2>4. ASSUME NEW t \in Tasks, task'[t] # NoTask, task'[t].st = "serving"
        PROVE  t \in Handles(map', hold', drain')
    <3>1. task[t] # NoTask /\ task[t].st = "serving" /\ t \notin S
      BY <1>7, <2>4 DEF Same
    <3>2. t \in Handles(map, hold, drain)
      BY <1>2, <3>1 DEF HandleInv
    <3> QED BY <1>3, <1>8, <1>9, <1>10, <3>1, <3>2 DEF Handles
  <2>5. gate' => \A p \in Profiles : map'[p] = NoTask
    BY <1>2, <1>3, <1>8 DEF HandleInv, Hosts
  <2> QED BY <2>1, <2>2, <2>3, <2>4, <2>5 DEF HandleInv, Hosts
<1>15. StopInv'
  <2> SUFFICES ASSUME NEW b \in Actors, pc'[b] = "stopping", hold'[b] # NoTask
               PROVE  task'[hold'[b]].st # "serving" /\ \A p \in Profiles : map'[p] # hold'[b]
    BY DEF StopInv
  <2>1. CASE b = a
    <3>1. \A p \in Profiles \ {x.name} : map[p] # h
      BY <1>2, <1>5, <1>8, <2>1, SlotsDiffer DEF Hosts
    <3> QED BY <1>7, <1>8, <2>1, <3>1
  <2>2. CASE b # a
    <3>1. hold[b] \in Tasks /\ task[hold[b]] # NoTask
      BY <1>2, <1>4, <1>8, <2>2 DEF HandleInv
    <3>2. task[hold[b]].st # "serving" /\ \A p \in Profiles : map[p] # hold[b]
      BY <1>2, <1>8, <2>2 DEF StopInv
    <3> QED BY <1>7, <1>8, <2>2, <3>1, <3>2 DEF Same
  <2> QED BY <2>1, <2>2
<1>16. SpawnInv'
  <2> SUFFICES ASSUME NEW b \in Actors, pc'[b] = "placing"
               PROVE  /\ hold'[b] # NoTask
                      /\ task'[hold'[b]].profile = cur'[b].name
                      /\ task'[hold'[b]].run = new'[b][cur'[b].name]
                      /\ \A p \in Profiles : map'[p] # hold'[b]
                      /\ \A c \in Actors \ {b} : hold'[c] # hold'[b]
    BY DEF SpawnInv
  <2>1. b # a /\ pc[b] = "placing" /\ hold'[b] = hold[b] /\ cur'[b] = cur[b] /\ new'[b] = new[b]
    BY <1>3, <1>8
  <2>2. /\ hold[b] # NoTask /\ task[hold[b]].profile = cur[b].name
        /\ task[hold[b]].run = new[b][cur[b].name]
        /\ \A p \in Profiles : map[p] # hold[b]
        /\ \A c \in Actors \ {b} : hold[c] # hold[b]
    BY <1>2, <2>1 DEF SpawnInv
  <2>3. Same(task'[hold[b]], task[hold[b]])
    BY <1>2, <1>4, <1>7, <2>2 DEF HandleInv
  <2>4. \A p \in Profiles : map'[p] # hold[b]
    BY <1>8, <2>2
  <2>5. \A c \in Actors \ {b} : hold'[c] # hold[b]
    BY <1>5, <1>8, <2>2
  <2> QED BY <2>1, <2>2, <2>3, <2>4, <2>5 DEF Same
<1>17. OwnerInv'
  <2> SUFFICES ASSUME NEW b \in Actors, pc'[b] \in Busy \ {"working"}, lock = b,
                      owner'[cur'[b].name] = "config"
               PROVE  map'[cur'[b].name] = NoTask
    BY <1>3 DEF OwnerInv
  <2>1. CASE b = a
    BY <1>8, <2>1
  <2>2. CASE b # a
    <3>1. cur'[b] = cur[b] /\ cur[b].name \in Profiles /\ cur[b].name # x.name
      BY <1>2, <1>8, <2>2 DEF PlanInv, Steps, Who
    <3> QED BY <1>2, <1>8, <2>2, <3>1 DEF OwnerInv
  <2> QED BY <2>1, <2>2
<1>18. ReloadInv'
  <2> SUFFICES ASSUME ~gate, NEW p \in Profiles, owner'[p] = "config", p \notin failed'
               PROVE  /\ lock = NoActor => Matches(p, cell)'
                      /\ \A b \in Actors : lock = b /\ Settled(b, p)' => Matches(p, new[b])'
    BY <1>3 DEF ReloadInv
  <2>1. CASE p = x.name
    <3>1. lock = a
      BY <1>8, <2>1 DEF Who
    <3>2. ~Settled(a, p)'
      BY <1>8, <2>1 DEF Settled, Busy
    <3> QED BY <3>1, <3>2
  <2>2. CASE p # x.name
    <3>1. map'[p] = map[p] /\ (Hosts(p) => Same(task'[map[p]], task[map[p]]))
      BY <1>2, <1>4, <1>7, <1>8, <2>2 DEF HandleInv, Hosts
    <3>2. owner[p] = "config" /\ p \notin failed
      BY <1>8, <2>2
    <3>3. \A b \in Actors : lock = b /\ Settled(b, p)' => Settled(b, p)
      BY <1>3, <1>8, <2>2 DEF Settled
    <3>4. /\ lock = NoActor => Matches(p, cell)
          /\ \A b \in Actors : lock = b /\ Settled(b, p)' => Matches(p, new[b])
      BY <1>2, <3>2, <3>3 DEF ReloadInv
    <3> QED BY <1>3, <3>1, <3>4 DEF Matches, Hosts, Same
  <2> QED BY <2>1, <2>2
<1> QED BY <1>11, <1>12, <1>13, <1>14, <1>15, <1>16, <1>17, <1>18 DEF Inv

\* A step that begins, shortens or ends a plan concerns no supervisor.
LEMMA PlansKeepHandles ==
    ASSUME Inv, NEW a \in Actors, pc[a] \notin {"stopping", "placing", "calling"},
           NEW v, v \notin {"stopping", "placing"}, pc' = [pc EXCEPT ![a] = v],
           \A b \in Actors \ {a} : cur'[b] = cur[b] /\ new'[b] = new[b],
           UNCHANGED <<map, gate, task, hold, drain>>
    PROVE  HandleInv' /\ StopInv' /\ SpawnInv'
<1>1. pc \in [Actors -> PcValues]
  BY DEF Inv, TypeOK
<1>2. pc'[a] = v /\ \A b \in Actors \ {a} : pc'[b] = pc[b]
  BY <1>1
<1>3. hold[a] = NoTask
  BY DEF Inv, HandleInv
<1>4. HandleInv'
  BY <1>2, <1>3 DEF Inv, HandleInv, Hosts, Handles
<1>5. StopInv'
  BY <1>2 DEF Inv, StopInv
<1>6. SpawnInv'
  BY <1>2 DEF Inv, SpawnInv
<1> QED BY <1>4, <1>5, <1>6

\* A reload takes the mutex and plans against the cell.
LEMMA ReloadBeginsKeepsInv ==
    ASSUME Inv, NEW a \in Actors, ReloadBegins(a) PROVE Inv'
<1> USE ActorNames
<1>1. /\ TypeOK /\ PlaceInv /\ PlanInv /\ OwnerInv /\ ReloadInv
  BY DEF Inv
<1>2. /\ pc[a] = "queued" /\ lock = NoActor /\ lock' = a /\ ~gate /\ new[a] \notin Rejected
      /\ todo' = [todo EXCEPT ![a] = Compute(cell, new[a])]
      /\ pc' = [pc EXCEPT ![a] = "working"]
      /\ UNCHANGED <<disk, rev, seen, pend, cell, map, gate, task, sig, new, cur, hold, drain,
                     failed, owner>>
  BY DEF ReloadBegins, file, watch, orch, hist
<1>3. /\ pc \in [Actors -> PcValues] /\ new \in [Actors -> AllConfigs] /\ cell \in AllConfigs
      /\ todo \in [Actors -> SUBSET Steps] /\ cur \in [Actors -> Steps \cup {NoStep}]
  BY <1>1 DEF TypeOK
<1>4. /\ pc'[a] = "working" /\ \A b \in Actors \ {a} : pc'[b] = pc[b]
      /\ todo'[a] = Compute(cell, new[a]) /\ \A b \in Actors \ {a} : todo'[b] = todo[b]
  BY <1>2, <1>3
<1>5. \A x \in todo'[a] : /\ x \in Steps /\ x.act # "start"
                          /\ x.act = "restart" => x.name \in Wanted(new[a])
                          /\ x.act = "stop" => x.name \notin Wanted(new[a])
  BY <1>3, <1>4, ComputeFits
<1>6. TypeOK'
  <2>1. pc' \in [Actors -> PcValues] /\ todo' \in [Actors -> SUBSET Steps]
    BY <1>2, <1>3, <1>4, <1>5 DEF PcValues
  <2> QED BY <1>1, <1>2, <2>1 DEF TypeOK
<1>7. PlaceInv'
  BY <1>1, <1>2, <1>4 DEF PlaceInv, Busy, Leaving
<1>8. PlanInv'
  BY <1>1, <1>2, <1>4, <1>5 DEF PlanInv, StepFits, Busy
<1>9. HandleInv' /\ StopInv' /\ SpawnInv'
  BY <1>2, PlansKeepHandles
<1>10. OwnerInv'
  BY <1>2, <1>4 DEF OwnerInv
<1>11. ReloadInv'
  <2> SUFFICES ASSUME NEW p \in Profiles, owner[p] = "config", p \notin failed, Settled(a, p)'
               PROVE  Matches(p, new[a])'
    BY <1>2 DEF ReloadInv
  <2>1. \A x \in Compute(cell, new[a]) : x.name # p
    BY <1>4 DEF Settled
  <2>2. /\ p \in Wanted(cell) <=> p \in Wanted(new[a])
        /\ p \in Wanted(cell) => Agree(cell[p], new[a][p])
    BY <1>3, <2>1, ComputeIsComplete
  <2>3. Matches(p, cell)
    BY <1>1, <1>2 DEF ReloadInv
  <2> QED BY <1>2, <2>2, <2>3 DEF Matches, Hosts, Agree
<1> QED BY <1>6, <1>7, <1>8, <1>9, <1>10, <1>11 DEF Inv

\* A profile that cannot be built is left as it is.
LEMMA BuildFailsKeepsInv ==
    ASSUME Inv, NEW a \in Actors, BuildFails(a) PROVE Inv'
<1> USE ActorNames
<1>1. /\ TypeOK /\ PlaceInv /\ PlanInv /\ OwnerInv /\ ReloadInv
  BY DEF Inv
<1>2. PICK x \in NextSteps(todo[a]) :
         /\ todo' = [todo EXCEPT ![a] = @ \ {x}]
         /\ failed' = failed \cup {x.name}
  BY DEF BuildFails
<1>3. /\ pc[a] = "working"
      /\ UNCHANGED <<disk, rev, seen, pend, cell, lock, map, gate, task, sig, pc, new, cur, hold,
                     drain, owner>>
  BY DEF BuildFails, file, watch, conf, orch
<1>4. pc \in [Actors -> PcValues] /\ todo \in [Actors -> SUBSET Steps]
  BY <1>1 DEF TypeOK
<1>5. x \in todo[a] /\ x.name \in Profiles
  BY <1>2, <1>4 DEF NextSteps, Steps
<1>6. todo'[a] = todo[a] \ {x} /\ \A b \in Actors \ {a} : todo'[b] = todo[b]
  BY <1>2, <1>4
<1>7. TypeOK'
  <2>1. todo' \in [Actors -> SUBSET Steps] /\ failed' \subseteq Profiles
    BY <1>1, <1>2, <1>4, <1>5 DEF TypeOK
  <2> QED BY <1>1, <1>3, <2>1 DEF TypeOK
<1>8. PlaceInv'
  BY <1>1, <1>3 DEF PlaceInv
<1>9. PlanInv'
  BY <1>1, <1>3, <1>6 DEF PlanInv, StepFits, Busy
<1>10. HandleInv' /\ StopInv' /\ SpawnInv'
  BY <1>3 DEF Inv, HandleInv, StopInv, SpawnInv, Hosts
<1>11. OwnerInv'
  BY <1>1, <1>3 DEF OwnerInv
<1>12. ReloadInv'
  <2> SUFFICES ASSUME ~gate, NEW p \in Profiles, owner[p] = "config", p \notin failed'
               PROVE  /\ lock = NoActor => Matches(p, cell)'
                      /\ \A b \in Actors : lock = b /\ Settled(b, p)' => Matches(p, new[b])'
    BY <1>3 DEF ReloadInv
  <2>1. p # x.name /\ p \notin failed
    BY <1>2
  <2>2. \A b \in Actors : Settled(b, p)' => Settled(b, p)
    BY <1>3, <1>6, <2>1 DEF Settled
  <2> QED BY <1>1, <1>3, <2>1, <2>2 DEF ReloadInv, Matches, Hosts
<1> QED BY <1>7, <1>8, <1>9, <1>10, <1>11, <1>12 DEF Inv

\* start_profile behind the gate does nothing.
LEMMA StartRefusedKeepsInv ==
    ASSUME Inv, NEW a \in Actors, StartRefused(a) PROVE Inv'
<1> USE ActorNames
<1>1. /\ TypeOK /\ PlaceInv /\ PlanInv /\ OwnerInv
  BY DEF Inv
<1>2. /\ pc[a] = "starting" /\ gate
      /\ pc' = [pc EXCEPT ![a] = "working"]
      /\ UNCHANGED <<disk, rev, seen, pend, cell, lock, map, gate, task, sig, new, todo, cur, hold,
                     drain, failed, owner>>
  BY DEF StartRefused, file, watch, conf, orch, work, hist
<1>3. pc \in [Actors -> PcValues]
  BY <1>1 DEF TypeOK
<1>4. pc'[a] = "working" /\ \A b \in Actors \ {a} : pc'[b] = pc[b]
  BY <1>2, <1>3
<1>5. TypeOK'
  BY <1>1, <1>2, <1>3 DEF TypeOK, PcValues
<1>6. PlaceInv'
  BY <1>1, <1>2, WorkKeepsPlaces DEF Busy
<1>7. PlanInv'
  BY <1>1, <1>2, <1>4 DEF PlanInv, StepFits, Busy
<1>8. HandleInv' /\ StopInv' /\ SpawnInv'
  BY <1>2, PlansKeepHandles
<1>9. OwnerInv'
  BY <1>1, <1>2, <1>4 DEF OwnerInv
<1>10. ReloadInv'
  BY <1>2 DEF ReloadInv
<1> QED BY <1>5, <1>6, <1>7, <1>8, <1>9, <1>10 DEF Inv

\* The end of a plan: what was settled for the new configuration is settled
\* for the cell.
LEMMA FinishKeepsInv ==
    ASSUME Inv, NEW a \in Actors, Finish(a) PROVE Inv'
<1> USE ActorNames
<1>1. /\ TypeOK /\ PlaceInv /\ PlanInv /\ OwnerInv /\ ReloadInv
  BY DEF Inv
<1>2. /\ pc[a] = "working" /\ todo[a] = {}
      /\ pc' = [pc EXCEPT ![a] = "idle"]
      /\ new' = [new EXCEPT ![a] = NoConfig]
      /\ cur' = [cur EXCEPT ![a] = NoStep]
      /\ UNCHANGED <<disk, rev, seen, pend, map, gate, task, sig, todo, hold, drain, failed, owner>>
  BY DEF Finish, file, watch, orch, hist
<1>3. /\ lock = a => cell' = new[a] /\ lock' = NoActor
      /\ lock # a => cell' = cell /\ lock' = lock
  BY DEF Finish, conf
<1>4. /\ pc \in [Actors -> PcValues] /\ new \in [Actors -> AllConfigs]
      /\ cur \in [Actors -> Steps \cup {NoStep}] /\ cell \in AllConfigs
      /\ lock \in Actors \cup {NoActor}
  BY <1>1 DEF TypeOK
<1>5. /\ pc'[a] = "idle" /\ \A b \in Actors \ {a} : pc'[b] = pc[b]
      /\ \A b \in Actors \ {a} : cur'[b] = cur[b] /\ new'[b] = new[b]
  BY <1>2, <1>4
<1>6. TypeOK'
  <2>1. /\ pc' \in [Actors -> PcValues] /\ new' \in [Actors -> AllConfigs]
        /\ cur' \in [Actors -> Steps \cup {NoStep}]
    BY <1>2, <1>4, NoConfigType DEF PcValues
  <2>2. cell' \in AllConfigs \ Rejected /\ lock' \in Actors \cup {NoActor}
    BY <1>1, <1>3, <1>4, ActorNames DEF TypeOK, PlanInv
  <2> QED BY <1>1, <1>2, <2>1, <2>2 DEF TypeOK
<1>7. PlaceInv'
  <2>1. /\ lock' # NoActor => pc'[lock'] \in Busy
        /\ \A b \in Actors \ Clients : pc'[b] \in Busy => lock' = b
        /\ \A b \in Actors \ Clients : pc'[b] # "calling"
    BY <1>1, <1>3, <1>4, <1>5 DEF PlaceInv, Busy
  <2> QED BY <1>1, <1>2, <1>5, <2>1 DEF PlaceInv, Leaving
<1>8. PlanInv'
  BY <1>1, <1>2, <1>3, <1>5 DEF PlanInv, StepFits, Busy
<1>9. HandleInv' /\ StopInv' /\ SpawnInv'
  BY <1>2, <1>5, PlansKeepHandles
<1>10. OwnerInv'
  BY <1>1, <1>2, <1>3, <1>5 DEF OwnerInv, Busy
<1>11. ReloadInv'
  <2> SUFFICES ASSUME ~gate, NEW p \in Profiles, owner[p] = "config", p \notin failed
               PROVE  /\ lock' = NoActor => Matches(p, cell)'
                      /\ \A b \in Actors : lock' = b /\ Settled(b, p)' => Matches(p, new[b])'
    BY <1>2 DEF ReloadInv
  <2>1. CASE lock = a
    <3>1. Settled(a, p)
      BY <1>2 DEF Settled
    <3>2. Matches(p, new[a])
      BY <1>1, <2>1, <3>1 DEF ReloadInv
    <3> QED BY <1>2, <1>3, <2>1, <3>2 DEF Matches, Hosts
  <2>2. CASE lock # a
    <3>1. \A b \in Actors : lock = b /\ Settled(b, p)' => Settled(b, p)
      BY <1>2, <1>5, <2>2 DEF Settled
    <3>2. /\ lock = NoActor => Matches(p, cell)
          /\ \A b \in Actors : lock = b /\ Settled(b, p)' => Matches(p, new[b])
      BY <1>1, <3>1 DEF ReloadInv
    <3> QED BY <1>2, <1>3, <1>5, <2>2, <3>2 DEF Matches, Hosts
  <2> QED BY <2>1, <2>2
<1> QED BY <1>6, <1>7, <1>8, <1>9, <1>10, <1>11 DEF Inv

\* profile_stop.
LEMMA ClientStopKeepsInv ==
    ASSUME Inv, NEW c \in Clients, NEW q \in Profiles, ClientStop(c, q) PROVE Inv'
<1> USE ActorNames
<1>1. /\ TypeOK /\ PlaceInv /\ PlanInv /\ OwnerInv /\ ReloadInv
  BY DEF Inv
<1>2. /\ pc[c] = "idle"
      /\ todo' = [todo EXCEPT ![c] = {PlanStep(1, "stop", q)}]
      /\ pc' = [pc EXCEPT ![c] = "working"]
      /\ UNCHANGED <<disk, rev, seen, pend, cell, lock, map, gate, task, sig, new, cur, hold,
                     drain, failed, owner>>
  BY DEF ClientStop, file, watch, conf, orch, hist
<1>3. /\ pc \in [Actors -> PcValues] /\ todo \in [Actors -> SUBSET Steps]
      /\ lock \in Actors \cup {NoActor}
  BY <1>1 DEF TypeOK
<1>4. /\ pc'[c] = "working" /\ \A b \in Actors \ {c} : pc'[b] = pc[b]
      /\ todo'[c] = {PlanStep(1, "stop", q)} /\ \A b \in Actors \ {c} : todo'[b] = todo[b]
  BY <1>2, <1>3
<1>5. lock # c
  BY <1>1, <1>2 DEF PlaceInv, Busy
<1>6. PlanStep(1, "stop", q) \in Steps /\ PlanStep(1, "stop", q).act = "stop"
  BY DEF PlanStep, Steps
<1>7. TypeOK'
  <2>1. pc' \in [Actors -> PcValues] /\ todo' \in [Actors -> SUBSET Steps]
    BY <1>2, <1>3, <1>6 DEF PcValues
  <2> QED BY <1>1, <1>2, <2>1 DEF TypeOK
<1>8. PlaceInv'
  BY <1>1, <1>2, <1>3, <1>4, <1>5 DEF PlaceInv, Busy, Leaving
<1>9. PlanInv'
  BY <1>1, <1>2, <1>4, <1>5, <1>6 DEF PlanInv, StepFits, Busy
<1>10. HandleInv' /\ StopInv' /\ SpawnInv'
  BY <1>2, PlansKeepHandles
<1>11. OwnerInv'
  BY <1>1, <1>2, <1>4 DEF OwnerInv
<1>12. ReloadInv'
  <2>1. \A b \in Actors, p \in Profiles : lock = b /\ Settled(b, p)' => Settled(b, p)
    BY <1>2, <1>4, <1>5 DEF Settled
  <2> QED BY <1>1, <1>2, <2>1 DEF ReloadInv, Matches, Hosts
<1> QED BY <1>7, <1>8, <1>9, <1>10, <1>11, <1>12 DEF Inv

\* profile_start, with a snapshot of the cell.
LEMMA ClientStartKeepsInv ==
    ASSUME Inv, NEW c \in Clients, NEW q \in Profiles, ClientStart(c, q) PROVE Inv'
<1> USE ActorNames
<1>1. /\ TypeOK /\ PlaceInv /\ PlanInv /\ OwnerInv /\ ReloadInv
  BY DEF Inv
<1>2. /\ pc[c] = "idle" /\ lock = NoActor /\ q \in DOMAIN cell
      /\ new' = [new EXCEPT ![c] = cell]
      /\ cur' = [cur EXCEPT ![c] = PlanStep(1, "start", q)]
      /\ pc' = [pc EXCEPT ![c] = "starting"]
      /\ UNCHANGED <<disk, rev, seen, pend, cell, lock, map, gate, task, sig, todo, hold,
                     drain, failed, owner>>
  BY DEF ClientStart, file, watch, conf, orch, hist
<1>3. /\ pc \in [Actors -> PcValues] /\ new \in [Actors -> AllConfigs] /\ cell \in AllConfigs
      /\ cur \in [Actors -> Steps \cup {NoStep}]
  BY <1>1 DEF TypeOK
<1>4. /\ pc'[c] = "starting" /\ \A b \in Actors \ {c} : pc'[b] = pc[b]
      /\ cur'[c] = PlanStep(1, "start", q) /\ \A b \in Actors \ {c} : cur'[b] = cur[b]
      /\ new'[c] = cell /\ \A b \in Actors \ {c} : new'[b] = new[b]
  BY <1>2, <1>3
<1>5. /\ PlanStep(1, "start", q) \in Steps /\ PlanStep(1, "start", q).act = "start"
      /\ PlanStep(1, "start", q).name = q
  BY DEF PlanStep, Steps
<1>6. todo[c] = {}
  BY <1>1, <1>2 DEF PlanInv, Busy
<1>7. TypeOK'
  <2>1. /\ pc' \in [Actors -> PcValues] /\ new' \in [Actors -> AllConfigs]
        /\ cur' \in [Actors -> Steps \cup {NoStep}]
    BY <1>2, <1>3, <1>5 DEF PcValues
  <2> QED BY <1>1, <1>2, <2>1 DEF TypeOK
<1>8. PlaceInv'
  BY <1>1, <1>2, <1>4 DEF PlaceInv, Busy, Leaving
<1>9. PlanInv'
  BY <1>1, <1>2, <1>4, <1>5, <1>6 DEF PlanInv, StepFits, Busy
<1>10. HandleInv' /\ StopInv' /\ SpawnInv'
  BY <1>2, <1>4, PlansKeepHandles
<1>11. OwnerInv'
  BY <1>2 DEF OwnerInv
<1>12. ReloadInv'
  BY <1>1, <1>2 DEF ReloadInv, Matches, Hosts
<1> QED BY <1>7, <1>8, <1>9, <1>10, <1>11, <1>12 DEF Inv

-----------------------------------------------------------------------------
(* Steps that end or drop supervisors. *)

\* ts holds the supervisors of task, some of them told to leave or ended.
Aged(ts) == /\ ts \in TaskMaps
            /\ \A t \in Tasks : task[t] # NoTask => Same(ts[t], task[t])

\* A step that tells nobody to leave.
LEMMA TaskIsAged == ASSUME TypeOK PROVE Aged(task)
  BY DEF TypeOK, Aged, TaskMaps, Same

\* A task that ends is still the same supervisor.
LEMMA EndedIsAged ==
    ASSUME TypeOK, NEW t \in Tasks, task[t] # NoTask
    PROVE  Aged([task EXCEPT ![t].st = "ended"])
<1> DEFINE r == [task[t] EXCEPT !.st = "ended"]
           ts == [task EXCEPT ![t] = r]
<1>1. task \in TaskMaps /\ task[t] \in Supervisors
  BY DEF TypeOK, TaskMaps
<1>2. r \in Supervisors /\ r.profile = task[t].profile /\ r.run = task[t].run /\ r.st = "ended"
  BY <1>1 DEF Supervisors
<1>3. r # NoTask
  BY <1>2, DaemonAssumption
<1> HIDE DEF r
<1>4. ts \in TaskMaps /\ ts[t] = r /\ \A u \in Tasks \ {t} : ts[u] = task[u]
  BY <1>1, <1>2 DEF TaskMaps
<1>5. Aged(ts)
  BY <1>2, <1>3, <1>4 DEF Aged, Same
<1> QED BY <1>5 DEF r

\* No handle is made, and nobody else takes one over: what is left of them
\* still refers to the supervisors it did.
LEMMA DropKeepsHandles ==
    ASSUME Inv, NEW ts, Aged(ts), task' = Dropped(ts, map', hold', drain'),
           map' \in [Profiles -> Tasks \cup {NoTask}], hold' \in [Actors -> Tasks \cup {NoTask}],
           \A p \in Profiles : map'[p] \in {map[p], NoTask},
           \A b \in Actors : \/ hold'[b] = NoTask /\ pc'[b] # "placing"
                             \/ /\ hold'[b] = hold[b] /\ pc'[b] = pc[b]
                                /\ cur'[b] = cur[b] /\ new'[b] = new[b],
           drain' \subseteq drain, gate' = gate
    PROVE  /\ task' \in TaskMaps
           /\ HandleInv' /\ StopInv' /\ SpawnInv'
           /\ \A p \in Profiles : map'[p] # NoTask => Same(task'[map'[p]], task[map'[p]])
<1>1. /\ ts \in TaskMaps /\ \A t \in Tasks : task[t] # NoTask => Same(ts[t], task[t])
      /\ drain \subseteq Tasks /\ HandleInv /\ StopInv /\ SpawnInv /\ NoTask \notin Tasks
  BY DaemonAssumption DEF Aged, Inv, TypeOK
<1>2. /\ task' \in TaskMaps
      /\ \A t \in Tasks : t \in Handles(map', hold', drain') => task'[t] = ts[t]
      /\ \A t \in Tasks : task'[t] # NoTask /\ task'[t].st = "serving"
                          => t \in Handles(map', hold', drain')
  BY <1>1, DroppedFacts
<1>3. \A t \in Tasks : t \in Handles(map', hold', drain') /\ task[t] # NoTask =>
        task'[t] # NoTask /\ Same(task'[t], task[t])
  BY <1>1, <1>2 DEF Same
<1>4. ASSUME NEW p \in Profiles, map'[p] # NoTask
      PROVE  /\ map'[p] = map[p] /\ map'[p] \in Tasks /\ task[map'[p]] # NoTask
             /\ task[map'[p]].profile = p /\ Same(task'[map'[p]], task[map'[p]])
  <2>1. map'[p] = map[p] /\ map'[p] \in Tasks /\ map'[p] \in Handles(map', hold', drain')
    BY <1>4 DEF Handles
  <2> QED BY <1>1, <1>3, <1>4, <2>1 DEF HandleInv, Hosts
<1>5. ASSUME NEW b \in Actors, hold'[b] # NoTask
      PROVE  /\ hold'[b] = hold[b] /\ hold[b] \in Tasks /\ task[hold[b]] # NoTask
             /\ pc'[b] = pc[b] /\ pc[b] \in {"stopping", "placing", "calling"}
             /\ Same(task'[hold[b]], task[hold[b]])
  <2>1. hold'[b] = hold[b] /\ hold'[b] \in Tasks /\ hold'[b] \in Handles(map', hold', drain')
    BY <1>5 DEF Handles
  <2> QED BY <1>1, <1>3, <1>5, <2>1 DEF HandleInv
<1>6. HandleInv'
  <2>1. \A p \in Profiles : map'[p] # NoTask =>
          task'[map'[p]] # NoTask /\ task'[map'[p]].profile = p
    BY <1>4 DEF Same
  <2>2. \A b \in Actors : hold'[b] # NoTask =>
          task'[hold'[b]] # NoTask /\ pc'[b] \in {"stopping", "placing", "calling"}
    BY <1>5 DEF Same
  <2>3. ASSUME NEW t \in drain' PROVE task'[t] # NoTask /\ task'[t].st # "serving"
    <3>1. t \in Tasks /\ t \in Handles(map', hold', drain') /\ task[t] # NoTask
          /\ task[t].st # "serving"
      BY <1>1 DEF Handles, HandleInv
    <3> QED BY <1>3, <3>1 DEF Same
  <2>4. gate' => \A p \in Profiles : map'[p] = NoTask
    BY <1>1 DEF HandleInv, Hosts
  <2> QED BY <1>2, <2>1, <2>2, <2>3, <2>4 DEF HandleInv, Hosts
<1>7. StopInv'
  <2> SUFFICES ASSUME NEW b \in Actors, pc'[b] = "stopping", hold'[b] # NoTask
               PROVE  task'[hold'[b]].st # "serving" /\ \A p \in Profiles : map'[p] # hold'[b]
    BY DEF StopInv
  <2>1. task[hold[b]].st # "serving" /\ \A p \in Profiles : map[p] # hold[b]
    BY <1>1, <1>5 DEF StopInv
  <2> QED BY <1>5, <2>1 DEF Same
<1>8. SpawnInv'
  <2> SUFFICES ASSUME NEW b \in Actors, pc'[b] = "placing"
               PROVE  /\ hold'[b] # NoTask
                      /\ task'[hold'[b]].profile = cur'[b].name
                      /\ task'[hold'[b]].run = new'[b][cur'[b].name]
                      /\ \A p \in Profiles : map'[p] # hold'[b]
                      /\ \A c \in Actors \ {b} : hold'[c] # hold'[b]
    BY DEF SpawnInv
  <2>1. /\ hold'[b] = hold[b] /\ pc[b] = "placing" /\ cur'[b] = cur[b] /\ new'[b] = new[b]
    OBVIOUS
  <2>2. /\ hold[b] # NoTask /\ task[hold[b]].profile = cur[b].name
        /\ task[hold[b]].run = new[b][cur[b].name]
        /\ \A p \in Profiles : map[p] # hold[b]
        /\ \A c \in Actors \ {b} : hold[c] # hold[b]
    BY <1>1, <2>1 DEF SpawnInv
  <2>3. Same(task'[hold[b]], task[hold[b]])
    BY <1>5, <2>1, <2>2
  <2>4. \A p \in Profiles : map'[p] # hold[b]
    BY <2>2
  <2>5. \A c \in Actors \ {b} : hold'[c] # hold[b]
    BY <2>2
  <2> QED BY <2>1, <2>2, <2>3, <2>4, <2>5 DEF Same
<1> QED BY <1>2, <1>4, <1>6, <1>7, <1>8

\* A task that gives up or leaves keeps its handles.
LEMMA TasksEnd ==
    ASSUME Inv, NEW t \in Tasks, TaskFails(t) \/ TaskLeaves(t) PROVE Inv'
<1>1. /\ task[t] # NoTask
      /\ task' = Dropped([task EXCEPT ![t].st = "ended"], map, hold, drain)
      /\ UNCHANGED <<disk, rev, seen, pend, cell, lock, map, gate, sig, pc, new, todo, cur, hold,
                     drain, failed, owner>>
  BY DEF TaskFails, TaskLeaves, file, watch, conf, work, hist
<1>2. Aged([task EXCEPT ![t].st = "ended"])
  BY <1>1, EndedIsAged DEF Inv
<1>3. /\ map \in [Profiles -> Tasks \cup {NoTask}] /\ hold \in [Actors -> Tasks \cup {NoTask}]
  BY DEF Inv, TypeOK
<1>4. /\ task' \in TaskMaps /\ HandleInv' /\ StopInv' /\ SpawnInv'
      /\ \A p \in Profiles : map'[p] # NoTask => Same(task'[map'[p]], task[map'[p]])
  <2> DEFINE ts == [task EXCEPT ![t].st = "ended"]
  <2>1. Aged(ts) /\ task' = Dropped(ts, map', hold', drain')
    BY <1>1, <1>2
  <2> HIDE DEF ts
  <2> QED BY <1>1, <1>3, <2>1, DropKeepsHandles
<1>5. TypeOK'
  BY <1>1, <1>4 DEF Inv, TypeOK, TaskMaps
<1>6. PlaceInv' /\ OwnerInv'
  BY <1>1 DEF Inv, PlaceInv, OwnerInv
<1>7. PlanInv'
  BY <1>1 DEF Inv, PlanInv, StepFits
<1>8. ReloadInv'
  BY <1>1, <1>4 DEF Inv, ReloadInv, Matches, Hosts, Settled, Same
<1> QED BY <1>4, <1>5, <1>6, <1>7, <1>8 DEF Inv

\* stop has joined the task: a plain stop is done, a restart goes on.
LEMMA TakenDownKeepsInv ==
    ASSUME Inv, NEW a \in Actors, TakenDown(a) PROVE Inv'
<1> USE ActorNames
<1>1. /\ TypeOK /\ PlaceInv /\ PlanInv /\ OwnerInv /\ ReloadInv
  BY DEF Inv
<1> DEFINE v == IF cur[a].act = "stop" THEN "working" ELSE "starting"
<1>2. /\ pc[a] = "stopping" /\ pc' = [pc EXCEPT ![a] = v]
      /\ hold' = [hold EXCEPT ![a] = NoTask] /\ task' = Dropped(task, map, hold', drain)
      /\ UNCHANGED <<disk, rev, seen, pend, cell, lock, map, gate, sig, new, todo, cur, drain,
                     failed, owner>>
  BY DEF TakenDown, file, watch, conf, hist
<1>3. /\ pc \in [Actors -> PcValues] /\ map \in [Profiles -> Tasks \cup {NoTask}]
      /\ hold \in [Actors -> Tasks \cup {NoTask}]
  BY <1>1 DEF TypeOK
<1>4. /\ pc'[a] = v /\ \A b \in Actors \ {a} : pc'[b] = pc[b]
      /\ hold'[a] = NoTask /\ \A b \in Actors \ {a} : hold'[b] = hold[b]
      /\ v \in {"working", "starting"} /\ v \in Busy /\ v # "placing"
      /\ hold' \in [Actors -> Tasks \cup {NoTask}]
  BY <1>2, <1>3 DEF Busy
<1>5. v = "working" <=> cur[a].act = "stop"
  OBVIOUS
<1> HIDE DEF v
<1>6. /\ task' \in TaskMaps /\ HandleInv' /\ StopInv' /\ SpawnInv'
      /\ \A p \in Profiles : map'[p] # NoTask => Same(task'[map'[p]], task[map'[p]])
  BY <1>1, <1>2, <1>3, <1>4, TaskIsAged, DropKeepsHandles
<1>7. TypeOK'
  <2>1. pc' \in [Actors -> PcValues]
    BY <1>2, <1>3, <1>4 DEF PcValues
  <2> QED BY <1>1, <1>2, <1>4, <1>6, <2>1 DEF TypeOK, TaskMaps
<1>8. PlaceInv'
  BY <1>1, <1>2, <1>4, WorkKeepsPlaces DEF Busy
<1>9. cur[a] \in Steps /\ StepFits(a, cur[a]) /\ cur[a].act # "start" /\ cur[a].name \in Profiles
  BY <1>1, <1>2 DEF PlanInv, Busy, Steps
<1>10. cur[a].act \in {"stop", "restart"}
  BY <1>9 DEF Steps
<1>11. PlanInv'
  <2>1. \A b \in Actors : pc'[b] \notin Busy => todo'[b] = {}
    BY <1>1, <1>2, <1>4 DEF PlanInv
  <2>2. \A b \in Actors : \A y \in todo'[b] : y.act # "start" /\ StepFits(b, y)'
    BY <1>1, <1>2 DEF PlanInv, StepFits
  <2>3. \A b \in Actors : pc'[b] \in Busy \ {"working"} => cur'[b] \in Steps /\ StepFits(b, cur[b])'
    BY <1>1, <1>2, <1>4, <1>9 DEF PlanInv, StepFits
  <2>4. /\ \A b \in Actors : pc'[b] = "stopping" => cur'[b].act # "start"
        /\ \A b \in Actors : pc'[b] \in {"starting", "placing"} =>
             /\ cur'[b].act # "stop"
             /\ cur'[b].name \in DOMAIN new'[b]
             /\ lock' = b => cur'[b].act = "restart"
    BY <1>1, <1>2, <1>4, <1>5, <1>9, <1>10 DEF PlanInv, StepFits, Wanted
  <2> QED BY <1>1, <1>2, <2>1, <2>2, <2>3, <2>4 DEF PlanInv
<1>12. OwnerInv'
  BY <1>1, <1>2, <1>4 DEF OwnerInv, Busy
<1>13. ReloadInv'
  <2> SUFFICES ASSUME ~gate, NEW p \in Profiles, owner[p] = "config", p \notin failed
               PROVE  /\ lock = NoActor => Matches(p, cell)'
                      /\ \A b \in Actors : lock = b /\ Settled(b, p)' => Matches(p, new[b])'
    BY <1>2 DEF ReloadInv
  <2>1. lock = NoActor => Matches(p, cell)'
    BY <1>1, <1>2, <1>6 DEF ReloadInv, Matches, Hosts, Same
  <2>2. ASSUME NEW b \in Actors, lock = b, Settled(b, p)', Settled(b, p) PROVE Matches(p, new[b])'
    <3>1. Matches(p, new[b])
      BY <1>1, <2>2 DEF ReloadInv
    <3> QED BY <1>2, <1>6, <3>1 DEF Matches, Hosts, Same
  <2>3. ASSUME NEW b \in Actors, lock = b, Settled(b, p)', ~Settled(b, p) PROVE Matches(p, new[b])'
    <3>1. b = a /\ cur[a].name = p /\ v = "working"
      BY <1>2, <1>4, <2>3 DEF Settled, Busy
    <3>2. map[p] = NoTask
      BY <1>1, <1>2, <2>3, <3>1 DEF OwnerInv, Busy
    <3>3. p \notin Wanted(new[a])
      BY <1>5, <1>9, <2>3, <3>1 DEF StepFits
    <3> QED BY <1>2, <3>1, <3>2, <3>3 DEF Matches, Hosts
  <2> QED BY <2>1, <2>2, <2>3
<1> QED BY <1>6, <1>7, <1>8, <1>11, <1>12, <1>13 DEF Inv

\* An answered caller lets go of the supervisor.
LEMMA ClientAnsweredKeepsInv ==
    ASSUME Inv, NEW c \in Clients, ClientAnswered(c) PROVE Inv'
<1> USE ActorNames
<1>1. /\ TypeOK /\ PlaceInv /\ PlanInv /\ OwnerInv /\ ReloadInv
  BY DEF Inv
<1>2. /\ pc[c] = "calling" /\ pc' = [pc EXCEPT ![c] = "idle"]
      /\ hold' = [hold EXCEPT ![c] = NoTask] /\ task' = Dropped(task, map, hold', drain)
      /\ UNCHANGED <<disk, rev, seen, pend, cell, lock, map, gate, sig, new, todo, cur, drain,
                     failed, owner>>
  BY DEF ClientAnswered, file, watch, conf, hist
<1>3. /\ pc \in [Actors -> PcValues] /\ map \in [Profiles -> Tasks \cup {NoTask}]
      /\ hold \in [Actors -> Tasks \cup {NoTask}] /\ lock \in Actors \cup {NoActor}
  BY <1>1 DEF TypeOK
<1>4. /\ pc'[c] = "idle" /\ \A b \in Actors \ {c} : pc'[b] = pc[b]
      /\ hold'[c] = NoTask /\ \A b \in Actors \ {c} : hold'[b] = hold[b]
      /\ hold' \in [Actors -> Tasks \cup {NoTask}]
  BY <1>2, <1>3
<1>5. lock # c
  BY <1>1, <1>2 DEF PlaceInv, Busy
<1>6. /\ task' \in TaskMaps /\ HandleInv' /\ StopInv' /\ SpawnInv'
      /\ \A p \in Profiles : map'[p] # NoTask => Same(task'[map'[p]], task[map'[p]])
  BY <1>1, <1>2, <1>3, <1>4, TaskIsAged, DropKeepsHandles
<1>7. TypeOK'
  <2>1. pc' \in [Actors -> PcValues]
    BY <1>2, <1>3 DEF PcValues
  <2> QED BY <1>1, <1>2, <1>4, <1>6, <2>1 DEF TypeOK, TaskMaps
<1>8. PlaceInv'
  BY <1>1, <1>2, <1>3, <1>4, <1>5 DEF PlaceInv, Busy, Leaving
<1>9. PlanInv'
  BY <1>1, <1>2, <1>4, <1>5 DEF PlanInv, StepFits, Busy
<1>10. OwnerInv'
  BY <1>1, <1>2, <1>4, <1>5 DEF OwnerInv
<1>11. ReloadInv'
  <2>1. \A b \in Actors, p \in Profiles : lock = b /\ Settled(b, p)' => Settled(b, p)
    BY <1>2, <1>4, <1>5 DEF Settled
  <2> QED BY <1>1, <1>2, <1>6, <2>1 DEF ReloadInv, Matches, Hosts, Same
<1> QED BY <1>6, <1>7, <1>8, <1>9, <1>10, <1>11 DEF Inv

\* A caller gets a second handle of what the map holds.
LEMMA ClientCallsKeepsInv ==
    ASSUME Inv, NEW c \in Clients, NEW q \in Profiles, NEW drains \in BOOLEAN,
           ClientCalls(c, q, drains)
    PROVE  Inv'
<1> USE ActorNames
<1>1. /\ TypeOK /\ PlaceInv /\ PlanInv /\ HandleInv /\ StopInv /\ SpawnInv /\ OwnerInv
      /\ ReloadInv
  BY DEF Inv
<1>2. /\ pc[c] = "idle" /\ pc' = [pc EXCEPT ![c] = "calling"] /\ map[q] # NoTask
      /\ hold' = [hold EXCEPT ![c] = map[q]]
      /\ task' = Told(task, {map[q]}) \/ task' = task
      /\ UNCHANGED <<disk, rev, seen, pend, cell, lock, map, gate, sig, new, todo, cur, drain,
                     failed, owner>>
  BY DEF ClientCalls, file, watch, conf, hist
<1>3. /\ pc \in [Actors -> PcValues] /\ map \in [Profiles -> Tasks \cup {NoTask}]
      /\ hold \in [Actors -> Tasks \cup {NoTask}] /\ lock \in Actors \cup {NoActor}
      /\ task \in TaskMaps /\ drain \subseteq Tasks
  BY <1>1 DEF TypeOK, TaskMaps
<1>4. /\ pc'[c] = "calling" /\ \A b \in Actors \ {c} : pc'[b] = pc[b]
      /\ hold'[c] = map[q] /\ \A b \in Actors \ {c} : hold'[b] = hold[b]
      /\ hold' \in [Actors -> Tasks \cup {NoTask}] /\ map[q] \in Tasks
  BY <1>2, <1>3
<1>5. lock # c /\ hold[c] = NoTask /\ NoTask \notin Tasks
  BY <1>1, <1>2, DaemonAssumption DEF PlaceInv, HandleInv, Busy
<1>6. task[map[q]] # NoTask
  BY <1>1, <1>2 DEF HandleInv, Hosts
<1>7. /\ task' \in TaskMaps
      /\ \A t \in Tasks : task[t] # NoTask => Same(task'[t], task[t])
      /\ \A t \in Tasks : task'[t] # NoTask => task[t] # NoTask
  <2>1. {map[q]} \in SUBSET Tasks /\ \A t \in {map[q]} : task[t] # NoTask
    BY <1>4, <1>6
  <2>2. CASE task' = task
    BY <1>3, <2>2 DEF Same
  <2>3. CASE task' = Told(task, {map[q]})
    BY <1>3, <2>1, <2>3, ToldFacts
  <2> QED BY <1>2, <2>2, <2>3
<1>8. TypeOK'
  <2>1. pc' \in [Actors -> PcValues]
    BY <1>2, <1>3 DEF PcValues
  <2> QED BY <1>1, <1>2, <1>4, <1>7, <2>1 DEF TypeOK, TaskMaps
<1>9. PlaceInv'
  BY <1>1, <1>2, <1>3, <1>4, <1>5 DEF PlaceInv, Busy, Leaving
<1>10. PlanInv'
  BY <1>1, <1>2, <1>4, <1>5 DEF PlanInv, StepFits, Busy
<1>11. HandleInv'
  <2>1. \A p \in Profiles : map'[p] # NoTask =>
          task'[map'[p]] # NoTask /\ task'[map'[p]].profile = p
    BY <1>1, <1>2, <1>3, <1>7 DEF HandleInv, Hosts, Same
  <2>2. \A b \in Actors : hold'[b] # NoTask =>
          task'[hold'[b]] # NoTask /\ pc'[b] \in {"stopping", "placing", "calling"}
    BY <1>1, <1>3, <1>4, <1>6, <1>7 DEF HandleInv, Same
  <2>3. \A t \in drain' : task'[t] # NoTask /\ task'[t].st # "serving"
    BY <1>1, <1>2, <1>3, <1>7 DEF HandleInv, Same
  <2>4. ASSUME NEW t \in Tasks, task'[t] # NoTask, task'[t].st = "serving"
        PROVE  t \in Handles(map', hold', drain')
    <3>1. t \in Handles(map, hold, drain)
      BY <1>1, <1>7, <2>4 DEF HandleInv, Same
    <3> QED BY <1>2, <1>4, <1>5, <3>1 DEF Handles
  <2>5. gate' => \A p \in Profiles : map'[p] = NoTask
    BY <1>1, <1>2 DEF HandleInv, Hosts
  <2> QED BY <2>1, <2>2, <2>3, <2>4, <2>5 DEF HandleInv, Hosts
<1>12. StopInv'
  BY <1>1, <1>2, <1>3, <1>4, <1>7 DEF StopInv, HandleInv, Same
<1>13. SpawnInv'
  <2> SUFFICES ASSUME NEW b \in Actors, pc'[b] = "placing"
               PROVE  /\ hold'[b] # NoTask
                      /\ task'[hold'[b]].profile = cur[b].name
                      /\ task'[hold'[b]].run = new[b][cur[b].name]
                      /\ \A p \in Profiles : map[p] # hold'[b]
                      /\ \A e \in Actors \ {b} : hold'[e] # hold'[b]
    BY <1>2 DEF SpawnInv
  <2>1. b # c /\ pc[b] = "placing" /\ hold'[b] = hold[b]
    BY <1>4
  <2>2. /\ hold[b] # NoTask /\ task[hold[b]].profile = cur[b].name
        /\ task[hold[b]].run = new[b][cur[b].name]
        /\ \A p \in Profiles : map[p] # hold[b]
        /\ \A e \in Actors \ {b} : hold[e] # hold[b]
    BY <1>1, <2>1 DEF SpawnInv
  <2>3. Same(task'[hold[b]], task[hold[b]])
    BY <1>1, <1>3, <1>7, <2>2 DEF HandleInv
  <2>4. \A e \in Actors \ {b} : hold'[e] # hold[b]
    BY <1>4, <2>2
  <2> QED BY <2>1, <2>2, <2>3, <2>4 DEF Same
<1>14. OwnerInv'
  BY <1>1, <1>2, <1>4, <1>5 DEF OwnerInv
<1>15. ReloadInv'
  <2>1. \A b \in Actors, p \in Profiles : lock = b /\ Settled(b, p)' => Settled(b, p)
    BY <1>2, <1>4, <1>5 DEF Settled
  <2>2. \A p \in Profiles : Hosts(p) => Same(task'[map[p]], task[map[p]])
    BY <1>1, <1>3, <1>7 DEF HandleInv, Hosts
  <2> QED BY <1>1, <1>2, <2>1, <2>2 DEF ReloadInv, Matches, Hosts, Same
<1> QED BY <1>8, <1>9, <1>10, <1>11, <1>12, <1>13, <1>14, <1>15 DEF Inv

\* All the stops of shutdown_deadline have returned.
LEMMA DrainedKeepsInv ==
    ASSUME Inv, Drained PROVE Inv'
<1> USE ActorNames
<1>1. /\ TypeOK /\ PlaceInv /\ PlanInv /\ OwnerInv /\ ReloadInv
  BY DEF Inv
<1>2. /\ pc[Main] = "joining" /\ pc' = [pc EXCEPT ![Main] = "gone"] /\ drain' = {}
      /\ task' = Dropped(task, map, hold, drain')
      /\ UNCHANGED <<disk, rev, seen, pend, cell, lock, map, gate, sig, new, todo, cur, hold,
                     failed, owner>>
  BY DEF Drained, file, watch, conf, work, hist
<1>3. /\ pc \in [Actors -> PcValues] /\ map \in [Profiles -> Tasks \cup {NoTask}]
      /\ hold \in [Actors -> Tasks \cup {NoTask}] /\ lock \in Actors \cup {NoActor}
  BY <1>1 DEF TypeOK
<1>4. pc'[Main] = "gone" /\ \A b \in Actors \ {Main} : pc'[b] = pc[b]
  BY <1>2, <1>3
<1>5. lock # Main /\ hold[Main] = NoTask /\ gate
  BY <1>1, <1>2 DEF PlaceInv, Busy, Inv, HandleInv
<1>6. task' \in TaskMaps /\ HandleInv' /\ StopInv' /\ SpawnInv'
  BY <1>1, <1>2, <1>3, <1>4, <1>5, TaskIsAged, DropKeepsHandles
<1>7. TypeOK'
  <2>1. pc' \in [Actors -> PcValues]
    BY <1>2, <1>3 DEF PcValues
  <2> QED BY <1>1, <1>2, <1>6, <2>1 DEF TypeOK, TaskMaps
<1>8. PlaceInv'
  BY <1>1, <1>2, <1>3, <1>4, <1>5 DEF PlaceInv, Busy, Leaving
<1>9. PlanInv'
  BY <1>1, <1>2, <1>4, <1>5 DEF PlanInv, StepFits, Busy
<1>10. OwnerInv'
  BY <1>1, <1>2, <1>4, <1>5 DEF OwnerInv
<1>11. ReloadInv'
  BY <1>2, <1>5 DEF ReloadInv
<1> QED BY <1>6, <1>7, <1>8, <1>9, <1>10, <1>11 DEF Inv

\* shutdown_deadline raises the gate and empties the map in one step.
LEMMA DrainKeepsInv ==
    ASSUME Inv, Drain PROVE Inv'
<1> USE ActorNames
<1>1. /\ TypeOK /\ PlaceInv /\ PlanInv /\ HandleInv /\ StopInv /\ SpawnInv /\ OwnerInv
  BY DEF Inv
<1>2. /\ pc[Main] = "drain" /\ pc' = [pc EXCEPT ![Main] = "joining"] /\ gate' = TRUE
      /\ drain' = {map[p] : p \in Profiles} \ {NoTask}
      /\ map' = [p \in Profiles |-> NoTask]
      /\ task' = Told(task, drain')
      /\ UNCHANGED <<disk, rev, seen, pend, cell, lock, sig, new, todo, cur, hold, failed, owner>>
  BY DEF Drain, file, watch, conf, work, hist
<1>3. /\ pc \in [Actors -> PcValues] /\ map \in [Profiles -> Tasks \cup {NoTask}]
      /\ hold \in [Actors -> Tasks \cup {NoTask}] /\ lock \in Actors \cup {NoActor}
      /\ task \in TaskMaps
  BY <1>1 DEF TypeOK, TaskMaps
<1>4. pc'[Main] = "joining" /\ \A b \in Actors \ {Main} : pc'[b] = pc[b]
  BY <1>2, <1>3
<1>5. /\ lock # Main /\ hold[Main] = NoTask /\ drain = {}
      /\ pc[Poller] = "gone" /\ pc[Watcher] = "gone"
  BY <1>1, <1>2 DEF PlaceInv, HandleInv, Busy
<1>6. drain' \in SUBSET Tasks /\ \A t \in drain' : task[t] # NoTask
  BY <1>1, <1>2, <1>3 DEF HandleInv, Hosts
<1>7. /\ task' \in TaskMaps
      /\ \A t \in Tasks : task[t] # NoTask => Same(task'[t], task[t])
      /\ \A t \in Tasks : task'[t] # NoTask => task[t] # NoTask
      /\ \A t \in drain' : task'[t].st # "serving"
  BY <1>2, <1>3, <1>6, ToldFacts
<1>8. TypeOK'
  <2>1. pc' \in [Actors -> PcValues] /\ map' \in [Profiles -> Tasks \cup {NoTask}]
    BY <1>2, <1>3 DEF PcValues
  <2> QED BY <1>1, <1>2, <1>6, <1>7, <2>1 DEF TypeOK, TaskMaps
<1>9. PlaceInv'
  BY <1>1, <1>2, <1>3, <1>4, <1>5 DEF PlaceInv, Busy, Leaving
<1>10. PlanInv'
  BY <1>1, <1>2, <1>4, <1>5 DEF PlanInv, StepFits, Busy
<1>11. HandleInv'
  <2>1. \A p \in Profiles : map'[p] = NoTask
    BY <1>2
  <2>2. \A b \in Actors : hold'[b] # NoTask =>
          task'[hold'[b]] # NoTask /\ pc'[b] \in {"stopping", "placing", "calling"}
    BY <1>1, <1>2, <1>3, <1>4, <1>5, <1>7 DEF HandleInv, Same
  <2>3. \A t \in drain' : task'[t] # NoTask /\ task'[t].st # "serving"
    BY <1>6, <1>7 DEF Same
  <2>4. ASSUME NEW t \in Tasks, task'[t] # NoTask, task'[t].st = "serving"
        PROVE  t \in Handles(map', hold', drain')
    <3>1. t \in Handles(map, hold, drain) /\ t \notin drain' /\ t # NoTask
      BY <1>1, <1>7, <2>4, DaemonAssumption DEF HandleInv, Same
    <3> QED BY <1>2, <1>5, <3>1 DEF Handles
  <2> QED BY <2>1, <2>2, <2>3, <2>4 DEF HandleInv, Hosts
<1>12. StopInv'
  BY <1>1, <1>2, <1>3, <1>4, <1>7 DEF StopInv, HandleInv, Same
<1>13. SpawnInv'
  <2> SUFFICES ASSUME NEW b \in Actors, pc'[b] = "placing"
               PROVE  /\ hold[b] # NoTask
                      /\ task'[hold[b]].profile = cur[b].name
                      /\ task'[hold[b]].run = new[b][cur[b].name]
                      /\ \A p \in Profiles : map'[p] # hold[b]
                      /\ \A e \in Actors \ {b} : hold[e] # hold[b]
    BY <1>2 DEF SpawnInv
  <2>1. pc[b] = "placing"
    BY <1>4
  <2>2. /\ hold[b] # NoTask /\ task[hold[b]].profile = cur[b].name
        /\ task[hold[b]].run = new[b][cur[b].name]
        /\ \A e \in Actors \ {b} : hold[e] # hold[b]
    BY <1>1, <2>1 DEF SpawnInv
  <2>3. Same(task'[hold[b]], task[hold[b]])
    BY <1>1, <1>3, <1>7, <2>2 DEF HandleInv
  <2> QED BY <1>2, <2>2, <2>3 DEF Same
<1>14. OwnerInv'
  <2>1. \A b \in Actors : pc'[b] \in Busy => pc[b] = pc'[b]
    BY <1>4 DEF Busy
  <2> QED BY <1>1, <1>2, <2>1 DEF OwnerInv, PlanInv, Steps
<1>15. ReloadInv'
  BY <1>2 DEF ReloadInv
<1> QED BY <1>8, <1>9, <1>10, <1>11, <1>12, <1>13, <1>14, <1>15 DEF Inv

-----------------------------------------------------------------------------
(* Steps that fill a slot of the map. *)

\* start_profile of a disabled profile, which no reload asks for.
LEMMA StartDisabledKeepsInv ==
    ASSUME Inv, NEW a \in Actors, StartProfile(a), Disabled(new[a][cur[a].name]) PROVE Inv'
<1> USE ActorNames
<1>1. /\ TypeOK /\ PlaceInv /\ PlanInv /\ OwnerInv /\ ReloadInv
  BY DEF Inv
<1> DEFINE p == cur[a].name
<1>2. /\ pc[a] = "starting" /\ ~gate /\ map' = [map EXCEPT ![p] = NoTask]
      /\ owner' = [owner EXCEPT ![p] = Who(a)]
      /\ task' = Dropped(task, map', hold, drain)
      /\ pc' = [pc EXCEPT ![a] = "working"]
      /\ UNCHANGED <<disk, rev, seen, pend, cell, lock, gate, sig, new, todo, cur, hold, drain,
                     failed>>
  BY DEF StartProfile, file, watch, conf
<1>3. /\ pc \in [Actors -> PcValues] /\ map \in [Profiles -> Tasks \cup {NoTask}]
      /\ hold \in [Actors -> Tasks \cup {NoTask}] /\ owner \in [Profiles -> {"config", "operator"}]
      /\ new \in [Actors -> AllConfigs]
  BY <1>1 DEF TypeOK
<1>4. /\ p \in Profiles /\ StepFits(a, cur[a]) /\ p \in DOMAIN new[a]
      /\ lock = a => cur[a].act = "restart"
  BY <1>1, <1>2 DEF PlanInv, Busy, Steps
<1>5. lock # a
  BY <1>4 DEF StepFits, Wanted
<1> HIDE DEF p
<1>6. /\ pc'[a] = "working" /\ \A b \in Actors \ {a} : pc'[b] = pc[b]
      /\ map'[p] = NoTask /\ \A q \in Profiles \ {p} : map'[q] = map[q]
      /\ owner'[p] = "operator" /\ \A q \in Profiles \ {p} : owner'[q] = owner[q]
      /\ map' \in [Profiles -> Tasks \cup {NoTask}]
  BY <1>2, <1>3, <1>4, <1>5 DEF Who
<1>7. hold[a] = NoTask
  BY <1>2 DEF Inv, HandleInv
<1>8. /\ task' \in TaskMaps /\ HandleInv' /\ StopInv' /\ SpawnInv'
      /\ \A q \in Profiles : map'[q] # NoTask => Same(task'[map'[q]], task[map'[q]])
  BY <1>1, <1>2, <1>3, <1>6, <1>7, TaskIsAged, DropKeepsHandles
<1>9. TypeOK'
  <2>1. pc' \in [Actors -> PcValues] /\ owner' \in [Profiles -> {"config", "operator"}]
    BY <1>2, <1>3 DEF PcValues, Who
  <2> QED BY <1>1, <1>2, <1>6, <1>8, <2>1 DEF TypeOK, TaskMaps
<1>10. PlaceInv'
  BY <1>1, <1>2, WorkKeepsPlaces DEF Busy
<1>11. PlanInv'
  BY <1>1, <1>2, <1>6 DEF PlanInv, StepFits, Busy
<1>12. OwnerInv'
  <2> SUFFICES ASSUME NEW b \in Actors, pc'[b] \in Busy \ {"working"}, lock = b,
                      owner'[cur[b].name] = "config"
               PROVE  map'[cur[b].name] = NoTask
    BY <1>2 DEF OwnerInv
  <2>1. b # a /\ pc[b] = pc'[b] /\ cur[b].name \in Profiles /\ cur[b].name # p
    BY <1>1, <1>5, <1>6 DEF PlanInv, Steps
  <2> QED BY <1>1, <1>6, <2>1 DEF OwnerInv
<1>13. ReloadInv'
  <2> SUFFICES ASSUME ~gate, NEW q \in Profiles, owner'[q] = "config", q \notin failed
               PROVE  /\ lock = NoActor => Matches(q, cell)'
                      /\ \A b \in Actors : lock = b /\ Settled(b, q)' => Matches(q, new[b])'
    BY <1>2 DEF ReloadInv
  <2>1. q # p /\ map'[q] = map[q] /\ owner[q] = "config"
    BY <1>6
  <2>2. \A b \in Actors : lock = b /\ Settled(b, q)' => Settled(b, q)
    BY <1>2, <1>5, <1>6 DEF Settled
  <2>3. /\ lock = NoActor => Matches(q, cell)
        /\ \A b \in Actors : lock = b /\ Settled(b, q)' => Matches(q, new[b])
    BY <1>1, <2>1, <2>2 DEF ReloadInv
  <2> QED BY <1>2, <1>8, <2>1, <2>3 DEF Matches, Hosts, Same
<1> QED BY <1>8, <1>9, <1>10, <1>11, <1>12, <1>13 DEF Inv

\* start_profile spawns a supervisor that nobody else has a handle of.
LEMMA StartEnabledKeepsInv ==
    ASSUME Inv, NEW a \in Actors, StartProfile(a), ~Disabled(new[a][cur[a].name]) PROVE Inv'
<1> USE ActorNames
<1>1. /\ TypeOK /\ PlaceInv /\ PlanInv /\ HandleInv /\ StopInv /\ SpawnInv /\ OwnerInv
      /\ ReloadInv
  BY DEF Inv
<1> DEFINE p == cur[a].name
           s == new[a][p]
           t == CHOOSE t \in Free : TRUE
           D == Dropped(task, map', hold, drain)
<1>2. /\ pc[a] = "starting" /\ ~gate /\ map' = [map EXCEPT ![p] = NoTask]
      /\ owner' = [owner EXCEPT ![p] = Who(a)]
      /\ Free # {} /\ hold' = [hold EXCEPT ![a] = t]
      /\ task' = [D EXCEPT ![t] = Supervisor(p, s)]
      /\ pc' = [pc EXCEPT ![a] = "placing"]
      /\ UNCHANGED <<disk, rev, seen, pend, cell, lock, gate, sig, new, todo, cur, drain, failed>>
  BY DEF StartProfile, file, watch, conf
<1>3. /\ pc \in [Actors -> PcValues] /\ map \in [Profiles -> Tasks \cup {NoTask}]
      /\ hold \in [Actors -> Tasks \cup {NoTask}] /\ owner \in [Profiles -> {"config", "operator"}]
      /\ new \in [Actors -> AllConfigs] /\ task \in TaskMaps /\ drain \subseteq Tasks
  BY <1>1 DEF TypeOK, TaskMaps
<1>4. /\ p \in Profiles /\ cur[a] \in Steps /\ StepFits(a, cur[a]) /\ p \in DOMAIN new[a]
      /\ cur[a].act # "stop" /\ (lock = a => cur[a].act = "restart")
  BY <1>1, <1>2 DEF PlanInv, Busy, Steps
<1>5. s \in Settings
  BY <1>3, <1>4, ConfigType
<1>6. t \in Tasks /\ task[t] = NoTask
  BY <1>2 DEF Free
<1> HIDE DEF p, s, t, D
<1>7. /\ Supervisor(p, s) \in Supervisors /\ Supervisor(p, s) # NoTask
      /\ Supervisor(p, s).profile = p /\ Supervisor(p, s).run = s
  BY <1>4, <1>5, SupervisorIsThere
<1>8. /\ D \in TaskMaps
      /\ \A u \in Tasks : u \in Handles(map', hold, drain) => D[u] = task[u]
      /\ \A u \in Tasks : D[u] # NoTask /\ D[u].st = "serving" => u \in Handles(map', hold, drain)
  BY <1>3, DroppedFacts DEF D
<1>9. /\ task' \in TaskMaps /\ task'[t] = Supervisor(p, s)
      /\ \A u \in Tasks \ {t} : task'[u] = D[u]
  BY <1>2, <1>6, <1>7, <1>8 DEF TaskMaps
<1>10. /\ pc'[a] = "placing" /\ \A b \in Actors \ {a} : pc'[b] = pc[b]
       /\ hold'[a] = t /\ \A b \in Actors \ {a} : hold'[b] = hold[b]
       /\ map'[p] = NoTask /\ \A q \in Profiles \ {p} : map'[q] = map[q]
       /\ owner'[p] = Who(a) /\ \A q \in Profiles \ {p} : owner'[q] = owner[q]
  BY <1>2, <1>3, <1>4
<1>11. hold[a] = NoTask /\ NoTask \notin Tasks
  BY <1>1, <1>2, DaemonAssumption DEF HandleInv
<1>12. /\ \A q \in Profiles : map[q] # t
       /\ \A b \in Actors : hold[b] # t
       /\ t \notin drain
  BY <1>1, <1>6, <1>11 DEF HandleInv, Hosts
<1>13. /\ \A q \in Profiles : map'[q] # NoTask => map'[q] = map[q] /\ task'[map[q]] = task[map[q]]
       /\ \A b \in Actors \ {a} : hold[b] # NoTask => task'[hold[b]] = task[hold[b]]
       /\ \A u \in drain : task'[u] = task[u]
  <2>1. ASSUME NEW u \in Tasks, u \in Handles(map', hold, drain), u # t PROVE task'[u] = task[u]
    BY <1>8, <1>9, <2>1
  <2>2. \A q \in Profiles : map'[q] # NoTask =>
          map'[q] = map[q] /\ map[q] \in Tasks /\ map[q] \in Handles(map', hold, drain)
    BY <1>3, <1>10 DEF Handles
  <2>3. \A b \in Actors : hold[b] # NoTask =>
          hold[b] \in Tasks /\ hold[b] \in Handles(map', hold, drain)
    BY <1>3 DEF Handles
  <2>4. \A u \in drain : u \in Tasks /\ u \in Handles(map', hold, drain)
    BY <1>3 DEF Handles
  <2> QED BY <1>12, <2>1, <2>2, <2>3, <2>4
<1>14. TypeOK'
  <2>1. pc' \in [Actors -> PcValues] /\ owner' \in [Profiles -> {"config", "operator"}]
    BY <1>2, <1>3 DEF PcValues, Who
  <2>2. map' \in [Profiles -> Tasks \cup {NoTask}] /\ hold' \in [Actors -> Tasks \cup {NoTask}]
    BY <1>2, <1>3, <1>6
  <2> QED BY <1>1, <1>2, <1>9, <2>1, <2>2 DEF TypeOK, TaskMaps
<1>15. PlaceInv'
  BY <1>1, <1>2, WorkKeepsPlaces DEF Busy
<1>16. PlanInv'
  <2>1. \A b \in Actors : pc'[b] \notin Busy => todo'[b] = {}
    BY <1>1, <1>2, <1>10 DEF PlanInv, Busy
  <2>2. \A b \in Actors : \A y \in todo'[b] : y.act # "start" /\ StepFits(b, y)'
    BY <1>1, <1>2 DEF PlanInv, StepFits
  <2>3. \A b \in Actors : pc'[b] \in Busy \ {"working"} => cur'[b] \in Steps /\ StepFits(b, cur[b])'
    BY <1>1, <1>2, <1>4, <1>10 DEF PlanInv, StepFits
  <2>4. /\ \A b \in Actors : pc'[b] = "stopping" => cur'[b].act # "start"
        /\ \A b \in Actors : pc'[b] \in {"starting", "placing"} =>
             /\ cur'[b].act # "stop"
             /\ cur'[b].name \in DOMAIN new'[b]
             /\ lock' = b => cur'[b].act = "restart"
    BY <1>1, <1>2, <1>4, <1>10 DEF PlanInv, p
  <2> QED BY <1>1, <1>2, <2>1, <2>2, <2>3, <2>4 DEF PlanInv
<1>17. HandleInv'
  <2>1. \A q \in Profiles : map'[q] # NoTask =>
          task'[map'[q]] # NoTask /\ task'[map'[q]].profile = q
    BY <1>1, <1>13 DEF HandleInv, Hosts
  <2>2. \A b \in Actors : hold'[b] # NoTask =>
          task'[hold'[b]] # NoTask /\ pc'[b] \in {"stopping", "placing", "calling"}
    BY <1>1, <1>7, <1>9, <1>10, <1>13 DEF HandleInv
  <2>3. \A u \in drain' : task'[u] # NoTask /\ task'[u].st # "serving"
    BY <1>1, <1>2, <1>13 DEF HandleInv
  <2>4. ASSUME NEW u \in Tasks, task'[u] # NoTask, task'[u].st = "serving"
        PROVE  u \in Handles(map', hold', drain')
    <3>1. CASE u = t
      BY <1>10, <3>1 DEF Handles
    <3>2. CASE u # t
      <4>1. u \in Handles(map', hold, drain)
        BY <1>8, <1>9, <2>4, <3>2
      <4> QED BY <1>2, <1>10, <1>11, <4>1 DEF Handles
    <3> QED BY <3>1, <3>2
  <2> QED BY <1>2, <2>1, <2>2, <2>3, <2>4 DEF HandleInv, Hosts
<1>18. StopInv'
  <2> SUFFICES ASSUME NEW b \in Actors, pc'[b] = "stopping", hold'[b] # NoTask
               PROVE  task'[hold'[b]].st # "serving" /\ \A q \in Profiles : map'[q] # hold'[b]
    BY DEF StopInv
  <2>1. b # a /\ pc[b] = "stopping" /\ hold'[b] = hold[b]
    BY <1>10
  <2>2. task[hold[b]].st # "serving" /\ \A q \in Profiles : map[q] # hold[b]
    BY <1>1, <2>1 DEF StopInv
  <2>3. \A q \in Profiles : map'[q] # hold[b]
    BY <1>10, <2>1, <2>2
  <2> QED BY <1>13, <2>1, <2>2, <2>3
<1>19. SpawnInv'
  <2> SUFFICES ASSUME NEW b \in Actors, pc'[b] = "placing"
               PROVE  /\ hold'[b] # NoTask
                      /\ task'[hold'[b]].profile = cur[b].name
                      /\ task'[hold'[b]].run = new[b][cur[b].name]
                      /\ \A q \in Profiles : map'[q] # hold'[b]
                      /\ \A c \in Actors \ {b} : hold'[c] # hold'[b]
    BY <1>2 DEF SpawnInv
  <2>1. CASE b = a
    BY <1>6, <1>7, <1>9, <1>10, <1>11, <1>12, <2>1 DEF p, s
  <2>2. CASE b # a
    <3>1. /\ pc[b] = "placing" /\ hold'[b] = hold[b]
      BY <1>10, <2>2
    <3>2. /\ hold[b] # NoTask /\ task[hold[b]].profile = cur[b].name
          /\ task[hold[b]].run = new[b][cur[b].name]
          /\ \A q \in Profiles : map[q] # hold[b]
          /\ \A c \in Actors \ {b} : hold[c] # hold[b]
      BY <1>1, <3>1 DEF SpawnInv
    <3>3. \A q \in Profiles : map'[q] # hold[b]
      BY <1>10, <3>2
    <3>4. \A c \in Actors \ {b} : hold'[c] # hold[b]
      BY <1>10, <1>12, <3>2
    <3> QED BY <1>13, <2>2, <3>1, <3>2, <3>3, <3>4
  <2> QED BY <2>1, <2>2
<1>20. OwnerInv'
  <2> SUFFICES ASSUME NEW b \in Actors, pc'[b] \in Busy \ {"working"}, lock = b,
                      owner'[cur[b].name] = "config"
               PROVE  map'[cur[b].name] = NoTask
    BY <1>2 DEF OwnerInv
  <2>1. CASE b = a
    BY <1>10, <2>1 DEF p
  <2>2. CASE b # a
    <3>1. pc[b] = pc'[b] /\ cur[b].name \in Profiles /\ cur[b].name # p
      BY <1>1, <1>10, <2>2 DEF PlanInv, Steps, Who
    <3> QED BY <1>1, <1>10, <3>1 DEF OwnerInv
  <2> QED BY <2>1, <2>2
<1>21. ReloadInv'
  <2> SUFFICES ASSUME ~gate, NEW q \in Profiles, owner'[q] = "config", q \notin failed
               PROVE  /\ lock = NoActor => Matches(q, cell)'
                      /\ \A b \in Actors : lock = b /\ Settled(b, q)' => Matches(q, new[b])'
    BY <1>2 DEF ReloadInv
  <2>1. CASE q = p
    <3>1. lock = a
      BY <1>10, <2>1 DEF Who
    <3>2. ~Settled(a, q)'
      BY <1>2, <1>10, <2>1 DEF Settled, Busy, p
    <3> QED BY <3>1, <3>2
  <2>2. CASE q # p
    <3>1. map'[q] = map[q] /\ owner[q] = "config" /\ (Hosts(q) => task'[map[q]] = task[map[q]])
      BY <1>10, <1>13, <2>2 DEF Hosts
    <3>2. \A b \in Actors : lock = b /\ Settled(b, q)' => Settled(b, q)
      BY <1>2, <1>10, <2>2 DEF Settled, Busy, p
    <3>3. /\ lock = NoActor => Matches(q, cell)
          /\ \A b \in Actors : lock = b /\ Settled(b, q)' => Matches(q, new[b])
      BY <1>1, <3>1, <3>2 DEF ReloadInv
    <3> QED BY <1>2, <3>1, <3>3 DEF Matches, Hosts
  <2> QED BY <2>1, <2>2
<1> QED BY <1>14, <1>15, <1>16, <1>17, <1>18, <1>19, <1>20, <1>21 DEF Inv

\* The second look at the gate finds it raised: the spawned one is dropped.
LEMMA DiscardKeepsInv ==
    ASSUME Inv, NEW a \in Actors, PlaceProfile(a), gate PROVE Inv'
<1> USE ActorNames
<1>1. /\ TypeOK /\ PlaceInv /\ PlanInv /\ OwnerInv
  BY DEF Inv
<1>2. /\ pc[a] = "placing" /\ pc' = [pc EXCEPT ![a] = "working"]
      /\ hold' = [hold EXCEPT ![a] = NoTask] /\ task' = Dropped(task, map', hold', drain)
      /\ failed' \subseteq failed
      /\ UNCHANGED <<disk, rev, seen, pend, cell, lock, map, gate, sig, new, todo, cur, drain,
                     owner>>
  BY DEF PlaceProfile, file, watch, conf
<1>3. /\ pc \in [Actors -> PcValues] /\ map \in [Profiles -> Tasks \cup {NoTask}]
      /\ hold \in [Actors -> Tasks \cup {NoTask}]
  BY <1>1 DEF TypeOK
<1>4. /\ pc'[a] = "working" /\ \A b \in Actors \ {a} : pc'[b] = pc[b]
      /\ hold'[a] = NoTask /\ \A b \in Actors \ {a} : hold'[b] = hold[b]
      /\ hold' \in [Actors -> Tasks \cup {NoTask}]
  BY <1>2, <1>3
<1>5. task' \in TaskMaps /\ HandleInv' /\ StopInv' /\ SpawnInv'
  BY <1>1, <1>2, <1>3, <1>4, TaskIsAged, DropKeepsHandles
<1>6. TypeOK'
  <2>1. pc' \in [Actors -> PcValues]
    BY <1>2, <1>3 DEF PcValues
  <2> QED BY <1>1, <1>2, <1>4, <1>5, <2>1 DEF TypeOK, TaskMaps
<1>7. PlaceInv'
  BY <1>1, <1>2, WorkKeepsPlaces DEF Busy
<1>8. PlanInv'
  BY <1>1, <1>2, <1>4 DEF PlanInv, StepFits, Busy
<1>9. OwnerInv'
  BY <1>1, <1>2, <1>4 DEF OwnerInv
<1>10. ReloadInv'
  BY <1>2 DEF ReloadInv
<1> QED BY <1>5, <1>6, <1>7, <1>8, <1>9, <1>10 DEF Inv

\* The spawned supervisor moves into the map.
LEMMA InsertKeepsInv ==
    ASSUME Inv, NEW a \in Actors, PlaceProfile(a), ~gate PROVE Inv'
<1> USE ActorNames
<1>1. /\ TypeOK /\ PlaceInv /\ PlanInv /\ HandleInv /\ StopInv /\ SpawnInv /\ OwnerInv
      /\ ReloadInv
  BY DEF Inv
<1> DEFINE p == cur[a].name
           h == hold[a]
<1>2. /\ pc[a] = "placing" /\ pc' = [pc EXCEPT ![a] = "working"]
      /\ hold' = [hold EXCEPT ![a] = NoTask] /\ map' = [map EXCEPT ![p] = h]
      /\ task' = Dropped(task, map', hold', drain)
      /\ owner' = [owner EXCEPT ![p] = Who(a)]
      /\ failed' = IF lock = a THEN failed \ {p} ELSE failed
      /\ UNCHANGED <<disk, rev, seen, pend, cell, lock, gate, sig, new, todo, cur, drain>>
  BY DEF PlaceProfile, file, watch, conf
<1>3. /\ pc \in [Actors -> PcValues] /\ map \in [Profiles -> Tasks \cup {NoTask}]
      /\ hold \in [Actors -> Tasks \cup {NoTask}] /\ owner \in [Profiles -> {"config", "operator"}]
      /\ task \in TaskMaps /\ drain \subseteq Tasks
  BY <1>1 DEF TypeOK, TaskMaps
<1>4. /\ p \in Profiles /\ StepFits(a, cur[a]) /\ (lock = a => cur[a].act = "restart")
  BY <1>1, <1>2 DEF PlanInv, Busy, Steps
<1>5. /\ h # NoTask /\ h \in Tasks /\ task[h] # NoTask
      /\ task[h].profile = p /\ task[h].run = new[a][p]
      /\ \A q \in Profiles : map[q] # h
      /\ \A b \in Actors \ {a} : hold[b] # h
  BY <1>1, <1>2, <1>3 DEF SpawnInv, HandleInv
<1>6. lock = a => p \in Wanted(new[a])
  BY <1>4 DEF StepFits
<1> HIDE DEF p, h
<1>7. /\ pc'[a] = "working" /\ \A b \in Actors \ {a} : pc'[b] = pc[b]
      /\ hold'[a] = NoTask /\ \A b \in Actors \ {a} : hold'[b] = hold[b]
      /\ map'[p] = h /\ \A q \in Profiles \ {p} : map'[q] = map[q]
      /\ owner'[p] = Who(a) /\ \A q \in Profiles \ {p} : owner'[q] = owner[q]
      /\ \A q \in Profiles \ {p} : q \in failed' <=> q \in failed
  BY <1>2, <1>3, <1>4
<1>8. /\ map' \in [Profiles -> Tasks \cup {NoTask}] /\ hold' \in [Actors -> Tasks \cup {NoTask}]
  BY <1>2, <1>3, <1>5
<1>9. /\ task' \in TaskMaps
      /\ \A u \in Tasks : u \in Handles(map', hold', drain) => task'[u] = task[u]
      /\ \A u \in Tasks : task'[u] # NoTask /\ task'[u].st = "serving"
                          => u \in Handles(map', hold', drain)
  BY <1>2, <1>3, DroppedFacts
<1>10. /\ \A q \in Profiles : map'[q] # NoTask => task'[map'[q]] = task[map'[q]]
       /\ \A b \in Actors : hold'[b] # NoTask => task'[hold'[b]] = task[hold'[b]]
       /\ \A u \in drain : task'[u] = task[u]
  <2>1. \A q \in Profiles : map'[q] # NoTask =>
          map'[q] \in Tasks /\ map'[q] \in Handles(map', hold', drain)
    BY <1>8 DEF Handles
  <2>2. \A b \in Actors : hold'[b] # NoTask =>
          hold'[b] \in Tasks /\ hold'[b] \in Handles(map', hold', drain)
    BY <1>8 DEF Handles
  <2>3. \A u \in drain : u \in Tasks /\ u \in Handles(map', hold', drain)
    BY <1>3 DEF Handles
  <2> QED BY <1>9, <2>1, <2>2, <2>3
<1>11. TypeOK'
  <2>1. pc' \in [Actors -> PcValues] /\ owner' \in [Profiles -> {"config", "operator"}]
        /\ failed' \subseteq failed
    BY <1>2, <1>3 DEF PcValues, Who
  <2> QED BY <1>1, <1>2, <1>8, <1>9, <2>1 DEF TypeOK, TaskMaps
<1>12. PlaceInv'
  BY <1>1, <1>2, WorkKeepsPlaces DEF Busy
<1>13. PlanInv'
  BY <1>1, <1>2, <1>7 DEF PlanInv, StepFits, Busy
<1>14. HandleInv'
  <2>1. \A q \in Profiles : map'[q] # NoTask =>
          task'[map'[q]] # NoTask /\ task'[map'[q]].profile = q
    BY <1>1, <1>5, <1>7, <1>10 DEF HandleInv, Hosts
  <2>2. \A b \in Actors : hold'[b] # NoTask =>
          task'[hold'[b]] # NoTask /\ pc'[b] \in {"stopping", "placing", "calling"}
    BY <1>1, <1>7, <1>10 DEF HandleInv
  <2>3. ASSUME NEW u \in drain' PROVE task'[u] # NoTask /\ task'[u].st # "serving"
    <3>1. u \in drain /\ task'[u] = task[u]
      BY <1>2, <1>10
    <3> QED BY <1>1, <3>1 DEF HandleInv
  <2> QED BY <1>2, <1>9, <2>1, <2>2, <2>3 DEF HandleInv, Hosts
<1>15. StopInv'
  <2> SUFFICES ASSUME NEW b \in Actors, pc'[b] = "stopping", hold'[b] # NoTask
               PROVE  task'[hold'[b]].st # "serving" /\ \A q \in Profiles : map'[q] # hold'[b]
    BY DEF StopInv
  <2>1. b # a /\ pc[b] = "stopping" /\ hold'[b] = hold[b]
    BY <1>7
  <2>2. task[hold[b]].st # "serving" /\ \A q \in Profiles : map[q] # hold[b]
    BY <1>1, <2>1 DEF StopInv
  <2>3. \A q \in Profiles : map'[q] # hold[b]
    BY <1>5, <1>7, <2>1, <2>2
  <2> QED BY <1>10, <2>1, <2>2, <2>3
<1>16. SpawnInv'
  <2> SUFFICES ASSUME NEW b \in Actors, pc'[b] = "placing"
               PROVE  /\ hold'[b] # NoTask
                      /\ task'[hold'[b]].profile = cur[b].name
                      /\ task'[hold'[b]].run = new[b][cur[b].name]
                      /\ \A q \in Profiles : map'[q] # hold'[b]
                      /\ \A c \in Actors \ {b} : hold'[c] # hold'[b]
    BY <1>2 DEF SpawnInv
  <2>1. b # a /\ pc[b] = "placing" /\ hold'[b] = hold[b]
    BY <1>7
  <2>2. /\ hold[b] # NoTask /\ task[hold[b]].profile = cur[b].name
        /\ task[hold[b]].run = new[b][cur[b].name]
        /\ \A q \in Profiles : map[q] # hold[b]
        /\ \A c \in Actors \ {b} : hold[c] # hold[b]
    BY <1>1, <2>1 DEF SpawnInv
  <2>3. \A q \in Profiles : map'[q] # hold[b]
    BY <1>5, <1>7, <2>1, <2>2
  <2>4. \A c \in Actors \ {b} : hold'[c] # hold[b]
    BY <1>7, <2>2
  <2> QED BY <1>10, <2>1, <2>2, <2>3, <2>4
<1>17. OwnerInv'
  <2> SUFFICES ASSUME NEW b \in Actors, pc'[b] \in Busy \ {"working"}, lock = b,
                      owner'[cur[b].name] = "config"
               PROVE  map'[cur[b].name] = NoTask
    BY <1>2 DEF OwnerInv
  <2>1. b # a /\ pc[b] = pc'[b] /\ cur[b].name \in Profiles /\ cur[b].name # p
    BY <1>1, <1>7 DEF PlanInv, Steps, Who
  <2> QED BY <1>1, <1>7, <2>1 DEF OwnerInv
<1>18. ReloadInv'
  <2> SUFFICES ASSUME NEW q \in Profiles, owner'[q] = "config", q \notin failed'
               PROVE  /\ lock = NoActor => Matches(q, cell)'
                      /\ \A b \in Actors : lock = b /\ Settled(b, q)' => Matches(q, new[b])'
    BY <1>2 DEF ReloadInv
  <2>1. CASE q = p
    <3>1. lock = a
      BY <1>7, <2>1 DEF Who
    <3>2. Matches(q, new[a])'
      <4>1. map'[q] # NoTask /\ q \in Wanted(new'[a])
        BY <1>2, <1>5, <1>6, <1>7, <2>1, <3>1
      <4>2. task'[map'[q]].run = new'[a][q]
        <5>1. map'[q] = h /\ h # NoTask
          BY <1>5, <1>7, <2>1
        <5>2. task'[h] = task[h]
          BY <1>10, <5>1
        <5>3. new' = new
          BY <1>2
        <5> QED BY <1>5, <2>1, <5>1, <5>2, <5>3
      <4> QED BY <4>1, <4>2 DEF Matches, Hosts, Agree
    <3> QED BY <3>1, <3>2
  <2>2. CASE q # p
    <3>1. /\ map'[q] = map[q] /\ owner[q] = "config" /\ q \notin failed
          /\ Hosts(q) => task'[map[q]] = task[map[q]]
      BY <1>7, <1>10, <2>2 DEF Hosts
    <3>2. \A b \in Actors : lock = b /\ Settled(b, q)' => Settled(b, q)
      BY <1>2, <1>7, <2>2 DEF Settled, p
    <3>3. /\ lock = NoActor => Matches(q, cell)
          /\ \A b \in Actors : lock = b /\ Settled(b, q)' => Matches(q, new[b])
      BY <1>1, <3>1, <3>2 DEF ReloadInv
    <3> QED BY <1>2, <3>1, <3>3 DEF Matches, Hosts
  <2> QED BY <2>1, <2>2
<1> QED BY <1>11, <1>12, <1>13, <1>14, <1>15, <1>16, <1>17, <1>18 DEF Inv

-----------------------------------------------------------------------------
(* The boot. *)

\* The invariant holds after the boot loop.
LEMMA InitInv ==
    ASSUME Init PROVE Inv
<1> USE ActorNames
<1>1. TypeOK
  BY InitTyped
<1>2. /\ cell = Boot /\ lock = NoActor /\ gate = FALSE /\ drain = {}
      /\ pc = [a \in Actors |-> "idle"] /\ todo = [a \in Actors |-> {}]
      /\ hold = [a \in Actors |-> NoTask]
      /\ owner = [p \in Profiles |-> IF p \in Selected THEN "config" ELSE "operator"]
  BY DEF Init
<1>3. \A a \in Actors : pc[a] = "idle" /\ todo[a] = {} /\ hold[a] = NoTask
  BY <1>2
<1> DEFINE up == (Wanted(Boot) \cap Selected) \ failed
<1>4. map = [p \in Profiles |-> IF p \in up THEN BootTask[p] ELSE NoTask]
  BY DEF Init
<1>5. task = [t \in Tasks |->
                IF \E p \in up : BootTask[p] = t
                THEN Supervisor(CHOOSE p \in up : BootTask[p] = t,
                                Boot[CHOOSE p \in up : BootTask[p] = t])
                ELSE NoTask]
  BY DEF Init
<1>6. DOMAIN Boot \subseteq Profiles /\ \A p \in DOMAIN Boot : Boot[p] \in Settings
  BY ConfigType, DaemonAssumption
<1>7. up \subseteq DOMAIN Boot /\ up \subseteq Profiles
  BY <1>6 DEF Wanted
<1>8. \A p \in up : Boot[p] \in Settings
  BY <1>6, <1>7
<1> HIDE DEF up
<1>9. /\ \A p \in Profiles : Hosts(p) <=> p \in up
      /\ \A p \in up : map[p] = BootTask[p] /\ map[p] \in Tasks
  <2>1. \A p \in Profiles : BootTask[p] \in Tasks /\ BootTask[p] # NoTask
    BY DaemonAssumption
  <2> QED BY <1>4, <1>7, <2>1 DEF Hosts
<1>10. ASSUME NEW q \in up PROVE task[BootTask[q]] = Supervisor(q, Boot[q])
  <2>1. (CHOOSE p \in up : BootTask[p] = BootTask[q]) = q
    BY <1>7, DaemonAssumption
  <2>2. BootTask[q] \in Tasks /\ \E p \in up : BootTask[p] = BootTask[q]
    BY <1>9
  <2>3. task[BootTask[q]] = Supervisor(CHOOSE p \in up : BootTask[p] = BootTask[q],
                                       Boot[CHOOSE p \in up : BootTask[p] = BootTask[q]])
    BY <1>5, <2>2
  <2> QED BY <2>1, <2>3
<1>11. ASSUME NEW q \in up
       PROVE  /\ task[map[q]] # NoTask /\ task[map[q]].profile = q /\ task[map[q]].run = Boot[q]
  BY <1>7, <1>8, <1>9, <1>10, SupervisorIsThere
<1>12. PlaceInv
  BY <1>2, <1>3 DEF PlaceInv, Busy, Leaving
<1>13. PlanInv
  BY <1>3 DEF PlanInv, Busy, Init
<1>14. HandleInv
  <2>1. ASSUME NEW t \in Tasks, task[t] # NoTask PROVE t \in Handles(map, hold, drain)
    <3>1. \E p \in up : BootTask[p] = t
      BY <1>5, <2>1
    <3> QED BY <1>7, <1>9, <3>1 DEF Handles
  <2> QED BY <1>2, <1>3, <1>9, <1>11, <2>1 DEF HandleInv
<1>15. StopInv /\ SpawnInv /\ OwnerInv
  BY <1>2, <1>3 DEF StopInv, SpawnInv, OwnerInv, Busy
<1>16. ReloadInv
  <2> SUFFICES ASSUME NEW p \in Profiles, owner[p] = "config", p \notin failed
               PROVE  Matches(p, cell)
    BY <1>2 DEF ReloadInv
  <2>1. p \in up <=> p \in Wanted(Boot)
    BY <1>2 DEF up
  <2>2. p \in up => Agree(task[map[p]].run, Boot[p])
    BY <1>11 DEF Agree
  <2> QED BY <1>2, <1>9, <2>1, <2>2 DEF Matches
<1> QED BY <1>1, <1>12, <1>13, <1>14, <1>15, <1>16 DEF Inv

-----------------------------------------------------------------------------
(* The theorems. *)

\* The steps of whoever runs the reload pipeline or the orchestrator.
LEMMA WorkKeepsInv ==
    ASSUME Inv, NEW a \in Actors, Work(a) PROVE Inv'
<1>1. CASE Reads(a) \/ ReloadRejected(a) \/ ReloadSkipped(a)
  BY <1>1, AskingKeepsInv DEF Asking
<1>2. CASE ReloadBegins(a)
  BY <1>2, ReloadBeginsKeepsInv
<1>3. CASE TakeDown(a)
  BY <1>3, TakeDownKeepsInv
<1>4. CASE BuildFails(a)
  BY <1>4, BuildFailsKeepsInv
<1>5. CASE TakenDown(a)
  BY <1>5, TakenDownKeepsInv
<1>6. CASE StartRefused(a)
  BY <1>6, StartRefusedKeepsInv
<1>7. CASE StartProfile(a)
  BY <1>7, StartDisabledKeepsInv, StartEnabledKeepsInv
<1>8. CASE PlaceProfile(a)
  BY <1>8, DiscardKeepsInv, InsertKeepsInv
<1>9. CASE Finish(a)
  BY <1>9, FinishKeepsInv
<1> QED BY <1>1, <1>2, <1>3, <1>4, <1>5, <1>6, <1>7, <1>8, <1>9 DEF Work

\* The requests of the MCP server.
LEMMA RequestKeepsInv ==
    ASSUME Inv, NEW c \in Clients, Request(c) PROVE Inv'
<1>1. CASE ClientReload(c) \/ \E p \in Profiles : ClientMutates(c, p)
  BY <1>1, AskingKeepsInv DEF Asking
<1>2. CASE \E p \in Profiles : ClientStop(c, p)
  BY <1>2, ClientStopKeepsInv
<1>3. CASE \E p \in Profiles : ClientStart(c, p)
  BY <1>3, ClientStartKeepsInv
<1>4. CASE \E p \in Profiles : \E drains \in BOOLEAN : ClientCalls(c, p, drains)
  BY <1>4, ClientCallsKeepsInv
<1> QED BY <1>1, <1>2, <1>3, <1>4 DEF Request

\* Steps that change nothing.
LEMMA StutterKeepsInv ==
    ASSUME Inv, UNCHANGED vars PROVE Inv'
<1>1. TypeOK'
  BY DEF vars, Inv, TypeOK
<1>2. PlaceInv' /\ OwnerInv' /\ StopInv' /\ SpawnInv'
  BY DEF vars, Inv, PlaceInv, OwnerInv, StopInv, SpawnInv
<1>3. PlanInv'
  BY DEF vars, Inv, PlanInv, StepFits
<1>4. HandleInv' /\ ReloadInv'
  BY DEF vars, Inv, HandleInv, ReloadInv, Hosts, Matches, Settled
<1> QED BY <1>1, <1>2, <1>3, <1>4 DEF Inv

\* Every step.
LEMMA NextKeepsInv ==
    ASSUME Inv, [Next]_vars PROVE Inv'
<1>1. CASE \/ EditDisk \/ Sighup \/ Terminate
           \/ MainReload \/ WatchNotice \/ WatchFire \/ PollerApplies
           \/ \E c \in Clients : ClientWrites(c)
           \/ \E a \in Actors : FileFails(a)
           \/ MainStops \/ (\E b \in Background : SourceStops(b))
           \/ DrainAbandoned \/ Exited
  BY <1>1, AskingKeepsInv DEF Asking
<1>2. CASE \E c \in Clients : Request(c)
  BY <1>2, RequestKeepsInv
<1>3. CASE \E c \in Clients : ClientAnswered(c)
  BY <1>3, ClientAnsweredKeepsInv
<1>4. CASE \E a \in Actors : Work(a)
  BY <1>4, WorkKeepsInv
<1>5. CASE \E t \in Tasks : TaskFails(t) \/ TaskLeaves(t)
  BY <1>5, TasksEnd
<1>6. CASE Drain
  BY <1>6, DrainKeepsInv
<1>7. CASE Drained
  BY <1>7, DrainedKeepsInv
<1>8. CASE UNCHANGED vars
  BY <1>8, StutterKeepsInv
<1> QED BY <1>1, <1>2, <1>3, <1>4, <1>5, <1>6, <1>7, <1>8 DEF Next

\* Whatever edits, signals, requests, failures and reloads follow each other,
\* the handles, the plans and the map of the orchestrator fit together.
THEOREM Invariance == Spec => []Inv
<1>1. Init => Inv
  BY InitInv
<1>2. Inv /\ [Next]_vars => Inv'
  BY NextKeepsInv
<1> QED BY <1>1, <1>2, PTL DEF Spec

\* The types of the daemon's state (Orchestrator, ConfigCell).
THEOREM Typed == Spec => []TypeOK
<1>1. Inv => TypeOK
  BY DEF Inv
<1> QED BY <1>1, Invariance, PTL

\* The map hands out the supervisor of the profile it is asked for, and never
\* one that is being stopped or is not placed yet (Orchestrator::profile).
THEOREM MapStaysExact == Spec => []MapIsExact
<1>1. Inv => MapIsExact
  BY DEF Inv, HandleInv, StopInv, SpawnInv, MapIsExact
<1> QED BY <1>1, Invariance, PTL

\* No start and no reload that races the shutdown brings a profile back
\* (shutdown_deadline and the two looks at the gate of start_profile).
THEOREM NoResurrection == Spec => []NothingIsResurrected
<1>1. ASSUME Inv, gate PROVE \A p \in Profiles : ~Hosts(p)
  BY <1>1 DEF Inv, HandleInv
<1>2. ASSUME Inv, gate, NEW t \in Tasks, task[t] # NoTask, task[t].st = "serving"
      PROVE  \E c \in Clients : hold[c] = t /\ pc[c] \in {"placing", "calling"}
  <2>1. /\ HandleInv /\ PlaceInv /\ StopInv /\ NoTask \notin Tasks
    BY <1>2, DaemonAssumption DEF Inv
  <2>2. t \in Handles(map, hold, drain) /\ t \notin drain /\ \A p \in Profiles : map[p] # t
    BY <1>1, <1>2, <2>1 DEF HandleInv, Hosts
  <2>3. PICK a \in Actors : hold[a] = t
    BY <2>2 DEF Handles
  <2>4. pc[a] \in {"placing", "calling"}
    BY <1>2, <2>1, <2>3 DEF HandleInv, StopInv
  <2>5. pc[Main] \in {"joining", "gone"} /\ pc[Poller] = "gone" /\ pc[Watcher] = "gone"
    BY <1>2, <2>1 DEF PlaceInv
  <2>6. a \in Clients
    BY <2>4, <2>5 DEF Actors, Background
  <2> QED BY <2>3, <2>4, <2>6
<1>3. Inv => NothingIsResurrected
  BY <1>1, <1>2 DEF NothingIsResurrected
<1> QED BY <1>3, Invariance, PTL

\* Two tasks serve one profile only if a client had a hand in it: reloads
\* stop, join and start (restart_profile_with_auth).
THEOREM ReloadsNeverOverlap == Spec => []OneServesPerProfile
<1>1. ASSUME Inv, NEW t \in Tasks, NEW u \in Tasks, t # u, task[t] # NoTask, task[u] # NoTask,
             task[t].profile = task[u].profile, task[t].st = "serving", task[u].st = "serving",
             \A c \in Clients : hold[c] \notin {t, u}
      PROVE  owner[task[t].profile] = "operator"
  <2> DEFINE p == task[t].profile
  <2>1. /\ HandleInv /\ PlaceInv /\ StopInv /\ SpawnInv /\ OwnerInv /\ NoTask \notin Tasks
    BY <1>1, DaemonAssumption DEF Inv
  <2>2. p \in Profiles /\ owner[p] \in {"config", "operator"}
    BY <1>1 DEF Inv, TypeOK, Supervisors
  <2>3. ASSUME NEW v \in {t, u}
        PROVE  \/ map[p] = v
               \/ hold[lock] = v /\ lock \in Actors /\ pc[lock] = "placing" /\ cur[lock].name = p
    <3>1. v \in Tasks /\ task[v] # NoTask /\ task[v].profile = p /\ task[v].st = "serving"
      BY <1>1
    <3>2. v \in Handles(map, hold, drain) /\ v \notin drain
      BY <2>1, <3>1 DEF HandleInv
    <3>3. ASSUME NEW q \in Profiles, map[q] = v PROVE map[p] = v
      BY <2>1, <3>1, <3>3 DEF HandleInv, Hosts
    <3>4. ASSUME NEW a \in Actors, hold[a] = v
          PROVE  lock = a /\ pc[a] = "placing" /\ cur[a].name = p
      <4>1. a \notin Clients
        BY <1>1, <3>4
      <4>2. pc[a] = "placing"
        BY <2>1, <3>1, <3>4, <4>1 DEF HandleInv, StopInv, PlaceInv
      <4> QED BY <2>1, <3>1, <3>4, <4>1, <4>2 DEF PlaceInv, SpawnInv, Busy
    <3> QED BY <3>2, <3>3, <3>4 DEF Handles
  <2>4. /\ map[p] \in {t, u}
        /\ lock \in Actors /\ pc[lock] = "placing" /\ cur[lock].name = p
    BY <1>1, <2>3
  <2>5. owner[p] # "config"
    BY <1>1, <2>1, <2>4 DEF OwnerInv, Busy
  <2> QED BY <2>2, <2>5
<1>2. Inv => OneServesPerProfile
  BY <1>1 DEF OneServesPerProfile
<1> QED BY <1>2, Invariance, PTL

\* Between two reloads the daemon runs what the cell says it applied, but for
\* what an operator changed and what could not be built (ReloadPlan::compute,
\* Orchestrator::apply_with_auth, ConfigCell::reload).
THEOREM AppliedIsRun == Spec => []RunsWhatWasApplied
<1>1. Inv => RunsWhatWasApplied
  BY DEF Inv, ReloadInv, RunsWhatWasApplied, Matches
<1> QED BY <1>1, Invariance, PTL
=============================================================================
