# A verification of ssh-perma-tunnel

`spt` keeps SSH tunnels up. Each configured *profile* is a supervised task that
picks an endpoint, connects, opens the profile's forwards, probes the session,
and reconnects with backoff when something fails. A daemon runs the profiles,
reloads their configuration from a file, a remote server or a management
connection, and tells sinks what happens. This directory models these tasks and
what they share, checks the models with TLC and proves the main properties with
TLAPS for every value of their constants.

## Inventory

The core logic of the program is in `spt-supervisor`, in the daemon part of
`spt-bin`, and in the tasks of `spt-ssh2`, `spt-forward`, `spt-events`, `spt-state`
and `spt-remote-config`. The other crates are wire protocols, parsing and
validation, platform I/O, front ends and sinks.

| part | state | operations | hard because |
|---|---|---|---|
| profile task and handle (`profile.rs`, `control.rs`) | the state machine, the session, its forwards, the control channel, the replies owed | `run`, `run_active`, `sleep_or_control`, `failover`, `close_session`, `drain`, `open_bench_forward`, `stop`, `Drop` | requests, probes, forward changes and timers race at every await |
| state machine (`state_machine.rs`) | one of 13 states | `step` | an event with no arm is silently ignored by `fire` |
| backoff (`reconnect.rs`) | attempt counter | `next_delay`, `exhausted`, `reset` | reset after stable uptime, saturation |
| instability detector (`instability.rs`) | disconnect window, latency window, misses, latch, clean clock | `record_disconnect`, `record_probe`, `tick_healthy` | three trip conditions share one latch and one clock |
| endpoint selector (`failover.rs`) | cooldown and failures per endpoint, manual override | `pick`, `record_success`, `record_failure`, `set_manual` | cooldown, priority, pin and fallback overlap |
| session registry (`session.rs`) | one row per live session | insert, remove | published and removed on different paths |
| orchestrator, reload plan (`orchestrator.rs`, `reload.rs`) | map of supervisors, shutdown gate | start, stop, restart, apply, shutdown | locks are released around awaits; a handle is shared by Arc |
| daemon (`cli_dispatch.rs`, `controller.rs`, `config_watcher.rs`, `signals.rs`) | the applied configuration and its mutex, the file, the debouncer | SIGHUP and SIGTERM, file changes, remote bodies, MCP calls | five kinds of actors reload, start and stop at the same time |
| remote configuration (`spt-remote-config`) | two cache files, the digest last applied | poll, fetch, save, apply | kills between two files, 304 answers, a pin that changes |
| events (`spt-events`) and spool (`spool.rs` of `spt-state`) | broadcast channel, dedupe and throttle maps, one directory of files per sink | emit, dispatch, spool, retry, shutdown | two tasks share a spool; caps evict; restarts |
| SSH2 forwards (`russh_backend.rs`), copy (`bidir.rs`), limits (`limits.rs`) | the handle's mutex, the routes, a queue and a count per forward, a beacon per connection | open, admit, bridge, copy, probe, close | the task of the session calls our handler and answers our requests |
| policy selectors (`round_robin.rs`) | cursor, sticky pin | `pick`, cooldown | second cooldown rule beside the selector's |
| updater (`spt-updater`), state lock (`spt-state`), SSH3 | last good version, lock file, QUIC streams | swap, acquire, forward | crashes between two renames |

A profile's task owns its state machine, backoff and detector; the selector is
shared behind a mutex that is never held across an await, so it is part of the
task's steps. Callers reach the task only through a bounded channel (16 slots)
with a oneshot per reply; the outside sees the state through a watch channel and
the session through the registry. The orchestrator keeps the tasks in a map
behind a mutex, and everything that changes the map goes through it: the reload
pipeline under the mutex of the config cell, the MCP calls without it. A session
is one task of the SSH library, which the forwards, the probe and the close reach
through one handle behind a mutex. `PROJECT.json` lists every part, modelled or
not, and the hazards at their lines.

## Modules

| module | models |
|---|---|
| `ProfileStateMachine` | `state_machine.rs`: `Step(s, e)`, arm by arm; an event without an arm leaves the state |
| `U32`, `Backoff` | `reconnect.rs`: saturating counter, exhaustion, ceiling, range of the jitter |
| `InstabilityDetector` | `instability.rs`: a record of ages; `RecordDisconnect`, `RecordProbe`, `RecordMiss`, `TickHealthy` and their return values `...Trips`, `HealthyClears` |
| `EndpointSelector` | `failover.rs`: `Pick` is the set of endpoints `pick` can return |
| `ProfileSupervisor` | `profile.rs`: the task, the callers, the forwards, the clock |
| `TunnelContract` | what a profile promises, without any of its mechanism |
| `ReloadPlan` | `reload.rs`: the difference of two configurations as a sequence of steps |
| `Daemon` | `orchestrator.rs`, `controller.rs`, the signal loop, the watcher, the poller's callback, MCP connections; a profile's task is reduced to what the supervisor model promises of it |
| `RemoteConfig` | `poll.rs`, `fetch.rs`, `cache.rs`; its `Applied` and `ApplyFails` are the outcomes of the pipeline in `Daemon` |
| `EventPipeline` | `bus.rs`, `dispatcher.rs`, `binding.rs`, `spool.rs` |
| `Ssh2Forwards` | the TCP forwards of `russh_backend.rs`, `bidir.rs`, and the supervisor's stop, probe and close |
| `ProfileHistory` | `ProfileSupervisor` with two clocks the code does not have, to judge its timers by |
| `EndpointSelectorProofs`, `InstabilityDetectorProofs`, `ProfileSupervisorProofs`, `ProfileHistoryProofs`, `DaemonProofs`, `RemoteConfigProofs`, `EventPipelineProofs`, `Ssh2ForwardsProofs` | the theorems |
| `MCProfileSupervisor`, `MCProfileHistory`, `MCDaemon`, `MCRemoteConfig`, `MCEvents`, `MCSsh2` | constants for TLC |
| `MCProfileLiveness` | bounds faults and requests, for liveness |

### State and steps of `ProfileSupervisor`

`pc` is the await the task is at. A step is everything the code does from one
of these to the next. Awaits at which the task listens to nobody and whose outcome
is all that matters are folded into the step that leads there: the open of a bench
forward (`profile.rs:981`), the keepalive with its timeout (`1015`-`1046`), the reopen of
forwards (`1147`, `1255`), and the reply of a close with the removal of the row
(`1188`, `853`).

| `pc` | await in the code | steps that leave it |
|---|---|---|
| `spawned` | the task has not been polled | `Start` |
| `loop` | head of the loop of `run` (`try_recv`) | `ServeAtLoopHead`, `GiveUp`, `BeginConnect`, `NoEndpointToPick` |
| `connecting` | `select!` around `connect` | `ServeWhileConnecting`, `Connected`, `ConnectFails`, `ConnectRefused`, `AuthRejected` |
| `opening` | `open_forwards` | `ForwardsOpened`, `ForwardsRefused` |
| `abandoning` | closing a session whose required forward failed | `Abandoned` |
| `active` | the `select!` of `run_active` | `ServeBench`, `ServeExit`, `ServeFailover`, `ServeClose`, `ProbeSucceeds`, `ProbeReplaces`, `ProbeFails`, `NoticeForward`, `ReopenForwards` |
| `closing` | stopping the runners and closing the session | `ClosedForExit`, `ClosedForRetry`, `ClosedAfterLoss` |
| `sleeping` | `sleep_or_control` | `ServeWhileSleeping`, `SleepEnds` |
| `done`, `aborted` | the task has returned; it was aborted or panicked | |

`sm` is the state machine and what the watch shows: `fire` sends on the watch in
the step that moves the machine. `row` is the endpoint of the session row in the
registry. `fwd` is, for each forward, what its watch has shown since the slot's
receiver was created: `fresh` (no change), `live` (changed, healthy), `down`.
The distinction between `fresh` and `live` matters, because `run_active` clones
the receivers on every pass and never marks a change as seen. `rep` is what
each caller knows; a caller has one request under way at a time, from the moment
the channel has room for it. Instants are
ages (or ticks left) that settle where every comparison of the code has, and
`Tick` moves all of them at once.

A panic of `attempt() + 1` ends the task here; a release build aborts the process
with it (`Cargo.toml:399`).

Abstracted: names and addresses (model values), the text of errors (their
class: retryable, terminal, authentication), RTT samples (above the ceiling or
not), weights (a weighted roll can land on every member of the cohort). Left out:
events, metrics and logs, which nothing reads back.

`TunnelContract` has one variable for the session, one for the end of the task
and one for the callers that wait. `ProfileSupervisor` implements it with the
mapping `via <- row, ended <- pc = "done", outstanding <-` the callers that wait
or join.

### State and steps of `Daemon`

`pc` is the await each actor is at: Main (the signal loop), the watcher, the
poller and the connections of the MCP server.

| `pc` | await in the code | steps that leave it |
|---|---|---|
| `idle` | waiting for a signal, a tick, a body or a request | `MainReload`, `MainStops`, `WatchFire`, `PollerApplies`, `ClientReload`, `ClientMutates`, `ClientStop`, `ClientStart`, `ClientCalls` |
| `writing` | between `Document::read` and `write_atomic` | `ClientWrites` |
| `reading` | before `spt_config::load` | `Reads`, `FileFails` |
| `queued` | the mutex of the config cell | `ReloadRejected`, `ReloadSkipped`, `ReloadBegins` |
| `working` | between two steps of the plan | `Work`: the next step, `BuildFails`, `Finish` |
| `stopping` | `stop` of a supervisor that was taken out of the map | `TakenDown` |
| `starting`, `placing` | before and after the spawn of a supervisor | `StartRefused`, `StartProfile`; `PlaceProfile` |
| `calling` | a reply of a supervisor whose Arc the actor holds | `ClientAnswered` |
| `stopPoller`, `stopWatcher`, `drain`, `joining`, `gone` | the teardown of Main | `SourceStops`, `Drain`, `Drained`, `DrainAbandoned`, `Exited` |

A task is `serving`, `told` to leave or `ended`; it is told when the last handle
is dropped, and who holds one (the map, an actor, the drain) is state. `owner`
and `failed` are history: who changed a slot last, and whose build failed.
A configuration is a function from profiles to `enabled`, the connection-level
settings, the forwards, and the tuning that no plan step is about; `Settings` is
what a profile can have, `AllConfigs` the configurations over it. The connection-level
settings are by definition the ones `reload.rs:143` compares, so that a field forgotten
there cannot be found missing.

Simplified: `StartProfile` takes the first look at the gate, the removal of the old
instance and the spawn together; a change of the file always changes its signature,
and the state in which the file cannot be looked at, which resets the debouncer
(`config_watcher.rs:78`), is left out; `ClientStart` does not wait for the mutex of the
cell at a place of its own (`controller.rs:408`), since it holds nothing then.

### State and steps of `RemoteConfig`

`pc` is `sleeping`, `fetching`, `saving` (the body is written, the sidecar is
not), `applying` or `down` (killed). A body stands for its bytes and its digest,
a tag for the body it belongs to. `changes` bounds edits of the server, failed
writes, failed applies and kills together. `config pull` (`cli_dispatch.rs:445`) and the
fetch of `--config-url` at boot (`:89`) write the same cache outside the loop and are left
out.

### State and steps of `EventPipeline`

The dispatcher is `receiving`, `matching` (at binding `bi`), `sending` (to sink
`si` of it) or `ended`; the retry task `waiting`, `choosing` a spool, `peeking`,
`delivering`, `removing` or `ended`. A file is its number and its event or
`Poison`, one this build cannot decode; a file in `bad` cannot be read, for as long as
it is there. A sink accepts, fails or rejects at will, and one of `Hanging` may never
answer. A binding may name a sink that does not exist. `left`, `due` and `settled` are
history: they say where each event went. The copy of an event for the persistent ring
and the ring's own drain are left out.

### State and steps of `Ssh2Forwards`

`loop` is where a forward is: `absent`, then for a remote one `registered`,
`requesting` and, if the server chooses the port, `rekeying`; `running`, or `refusing`
while it awaits the close of a channel it did not admit; after the forward's close
`leaving` and `cancelling`; `stopped`. `at` is where a connection is:
`held` by the handler, `queued`, `dialing`, `asking` (proxy handshake), `waiting`
for the handle, `requesting` a channel, `copying`. `russh` is the session's task,
external code: `idle`, `down`, or the connection its handler is stuck with, and then
it answers nobody. From `src/` this follows because the handler is an async
method the library awaits, and because the calls on the handle return the
server's answer; `disconnect` is only handed over. `copy` holds the two directions
and the watchdog; `quiet` is history. The token bucket and the rate gate are the
outcomes they can have: any delay, any refusal. No two forwards share a port, so the
lookup by the port alone that follows a failed one (`russh_backend.rs:155`) finds nothing
else. A bridge ends by a return: on a panic the permit of `remote_loop` would still be
given back and the plain decrement of the other loops not, as `russh_backend.rs:2595` says.

## Runs

Passing runs; sizes are distinct states.

| run | checks | instance |
|---|---|---|
| `failover` (870 000) | `TypeOK`, `TaskInv`, `RegistryListsSession`, `PinIsConsumed`, `AttemptsAreBounded`, `NoReplyForgotten`, `FailoverPrefersHealthy`, `KeepsContract` | two endpoints by priority, two callers with every request (unknown and malformed keys too), a channel of two, `max_attempts` 2 |
| `forwards` (345 000) | `WatchTellsTheTruth`, `TaskInv`, `DegradedIsBeingRepaired` | two forwards, one required; the detector with all its conditions and action `RestartSession`; unlimited attempts with a counter that overflows at 2; the handle may be dropped |
| `timers` (395 000) | `ClearsOnlyAfterCalm`, `RemediesAreSpaced` | all trip conditions, action `Failover`, `clear_after` 2, a latency window of 2, a storm guard of 3, longer than `clear_after`; any valid request |
| `recovery` (105 000) | `Recovers` | two endpoints by weight, two forwards, the detector; two faults and one request at any time |
| `requests` | `RequestsAreAnswered`, `StopReturns` | two callers, three requests, one fault, a connect that may never return |
| `daemon` (553 000) | `TypeOK`, `RunsWhatWasApplied`, `MapIsExact`, `NothingIsResurrected`, `OneServesPerProfile`, `ShutdownCompletes`, `Settles` | two profiles, four configurations (one rejected, one that the remote server sends too), all five kinds of actors with two MCP connections; two edits, signals or requests after boot |
| `remote` (1 800) | `TypeOK`, `OnlyPinnedRuns`, `PinnedBodyIsCached`, `UntaggedIsApplied` | three bodies, two of them with an ETag; any pin at every start; five changes, failures or kills |
| `events` (473 000) | `TypeOK`, `SpoolIsFifo`, `NothingVanishes`, `SpoolDrains`, `OnlyDeliveryHindersShutdown` | two sinks, one that heals and one that may hang; two bindings, one of which names a sink that does not exist, with dedupe and throttle; two events, a channel of one, spools of two files; one failed write, bad file or restart |
| `ssh2` (194 000) | `TypeOK`, `SlotsAreExact`, `RoutesAreRead`, `IdleCloseIsGenuine`, `OnlyHandlerHindersClose`, `SilentIsClosed`, `ChannelsAreServed` | a remote forward with two connections and a port of the server's choice, a dynamic one with one connection; a queue of one and one slot per forward; bytes flow on one connection |

The bounds are the smallest at which every case happens: two endpoints give a
healthy and a cooling one, two callers fill the channel behind each other and
stop concurrently, two forwards let one hide the other, a window of two samples
lets a latency percentile trip and recover, `U32Max` 2 reaches saturation. In
`daemon` two requests are enough for every pair of operations to overlap, and four
task identities for two generations of both profiles. In `events` a channel of one
overflows with the second event, and a spool that already holds a file evicts. In
`ssh2` a queue of one and two connections give a handler that waits, and one slot a
channel that is queued behind a bridge; with 64 it takes 65 connections at once. Every constant is a bound by name in the `.cfg`
files. Deadlock is checked except in `events`, where everything may have been
delivered, and `ssh2`, where the tasks really can block each other for good
(`claim_wedge`).

### What the code does not keep

Each of these runs checks one sentence of a comment, and TLC shows the behaviour
of the code that breaks it (`findings` in `PROJECT.json` quotes the lines).

| run | the code |
|---|---|
| `claim_reopen` | never notices a forward that fails behind one whose watch has changed |
| `claim_retry` | does not offer a remote body with an ETag again after its apply failed: the next poll is answered 304 |
| `claim_wedge` | leaves a remote forward that is told to close, the session's task and its transport blocked for good if the queue is full and one more channel has arrived: the loop awaits `cancel_tcpip_forward`, the handler awaits room in the queue the loop reads no more |

Three more can be reproduced with a configuration of their own, which is not among
the runs:

* `ClaimShutdown.cfg` (module `MCEvents`, `ShutdownNeverHangs`): "a slow/black-holed sink
  can never hang shutdown" (`dispatcher.rs:30`). The budget covers the drain of the
  channel only. A delivery that was under way when the stop signal came, in the
  dispatcher (`:284`) or the retry task (`:343`), is joined without a bound (`:224`, `:228`).
  `OnlyDeliveryHindersShutdown`, which holds, says that there is no other way to hang.
* `ClaimBacklog.cfg` (`MCEvents`, `BacklogIsRedelivered`): "A sink that has healed
  redelivers its backlog" (`dispatcher.rs:172`). A front file that cannot be read ends every
  drain of its spool (`:327`) and stays, until the cap evicts it. `SpoolDrains`, which
  holds, names this and a redelivery to another sink that never returns as the only
  hindrances.
* `ClaimTorn.cfg` (`MCRemoteConfig`, `NotModifiedIsCurrent`): "Atomically save a fetched body
  and its associated `ETag`" (`cache.rs:44`) and "304 Not Modified — body is the cached one"
  (`fetch.rs:60`). Body and sidecar are two writes, and nobody compares the recorded digest:
  if the second fails or the process dies before it, the server's 304 for the old tag is
  taken for the new body. The check against the pin still decides what is run.

`MCChannels.cfg` (module `MCSsh2`, 33 000 states) is a further instance of
`ChannelsAreServed`: one remote forward with three connections, so that one can be in the
slot, or refused and not closed yet, while another is queued and the third is held by
the handler. It passes.

Smaller disagreements between the text and the code, all visible in the model but
without a configuration of their own:

* `failover()` accepts an override that names no endpoint (`control.rs:55` says
  `Err`); every pick then fails until another override replaces it.
* `FailingOver` is never reached: `FailoverPick` is fired after `enter_resolving`
  has left `Reconnecting` (`profile.rs:663`, `669`).
* A trip by disconnects happens in `Reconnecting`, where `InstabilityHit` has no
  arm, so the profile is not shown as `Unstable` (`resilience.md:72`). It also arms
  the storm guard although nothing live is torn down (`profile.rs:490`, `1413`).
* `InstabilityClear` shows `Active` while a forward is known to be down
  (`profile.rs:930`, `1087`), and a profile that came up without one of its
  forwards shows `Active` too (`state_machine.rs:14`).
* A required forward that dies leads to `Degraded` like any other
  (`resilience.md:25`).
* The second of two concurrent `stop()` calls does not join the task
  (`profile.rs:427`).
* With unlimited attempts `attempt() + 1` panics at `u32::MAX` (`profile.rs:1641`;
  overflow checks are on in every build). 2^32 attempts are out of reach unless
  the delay is zero.
* An authentication failure ends the task unless `retry_auth_failures`, which
  `resilience.md:54` still calls not wired.
* With `fail_after` above 1 the endpoint that was rotated away from is picked
  again at once (`profile.rs:1216`, `resilience.md:97`).
* Time after a manual failover or close counts as uptime, since
  `session_up_since` is not cleared there, and can reset the backoff
  (`profile.rs:1182`).
* An aborted task leaves its session row in the registry, and the teardown by
  `drop(displaced)` is not "immediate, synchronous" (`orchestrator.rs:245`) while a
  caller holds another Arc of the supervisor.
* The cell is swapped although a profile could not be built and its old instance
  runs on, and although the gate was up and nothing was applied ("Failures leave
  the cached config untouched", `controller.rs:42`).
* An MCP reload can be under way during the drain ("a reload can no longer be
  in-flight", `cli_dispatch.rs:1562`), and a profile that an MCP stop or restart
  has taken out of the map is not awaited by the shutdown. A SIGHUP reload runs
  in the signal loop, so a SIGTERM behind it waits.
* A profile that `--profile` left out at boot is started by a later reload that
  changes it. The debouncer counts a change as applied when it fires, whatever
  the reload returns.
* After a restart with a cached ETag the polls are answered 304 and the cached body
  is not applied by the poller of that process until the server changes it or a
  request fails and falls back to the cache.
* One dedupe map serves all bindings (`docs/events.md:96`: "Per-binding dedupe"), a
  key is recorded before throttle and delivery, and the drain budget can cut off
  a delivery that is then neither delivered nor spooled (`dispatcher.rs:146`). Retries
  come at a fixed interval (`docs/events.md:125`: "exponential backoff").
* `copy_bidirectional_throttled` waits for both directions although its comment
  says it returns when "an error surfaces on either side" (`bidir.rs:87`). Bridges
  outlive the loop of their forward. A bridge holds the handle while the server
  dials, so a slow target can make the keepalive of a live session time out.

### Fairness

`TaskFairness`: the runtime polls a task that can go on, sleeps end, closes are
bounded by `close_session_bounded` and `stop_runners_bounded`, and an arm of a
`select!` that stays ready is taken, since tokio polls the arms in random order.
That `open_forwards` returns is an assumption: the code awaits it without a
timeout. The outcome of `connect` is left open in `requests`. `RecoverySpec` adds
what a calm network does: connects succeed, probes are answered, noticed changes
and reopen ticks are acted on. Faults and requests are bounded in these runs, not
fair; after them the network is calm.

`Daemon`: weak fairness of `Progress`, everything that needs nobody from outside;
that a task that was told to leave does is `StopReturns` of the supervisor.
`RemoteConfig`: the loop is polled, its sleeps and requests end. `EventPipeline`:
weak fairness of both tasks and of the timer of the drain budget. A delivery
returns if its sink has a timeout of its own; for the sinks of `Hanging` nothing is
assumed, since the dispatcher sets none and the e-mail sink neither
(`email.rs:121`). Strong fairness of redelivery for the sinks that heal.
`Ssh2Forwards`: requests are answered while the session's task is free to (the server
answers, which is an assumption; the supervisor's timeouts expire), the handler goes
on when there is room, a loop serves what is queued and sees its close, time passes,
watchdogs are polled. The close of a refused channel returns for certain only while
the session's task goes on. The mutex is tokio's, which is fair, hence strong fairness
of taking it to cancel a forward. Bridges need not end.

## Proofs

All of them hold for every set of endpoints, forwards and callers, every
configuration and every channel capacity, from the named assumptions on the
constants (`U32Assumption`, `BackoffAssumption`, `DetectorAssumption`,
`SelectorAssumption`, `SupervisorAssumption`, `DaemonAssumption`,
`RemoteAssumption`, `EventAssumption`, `ForwardsAssumption`: types, distinct
positions and boot identities, and model values outside the sets they are the
absence of).

* `EndpointSelectorProofs`: `PickPrefersHealthy` and `PickNeverStrands`. Both rest
  on the fact that a function into the naturals has a least value on a set that
  is not empty (`LeastExists`, from the well-foundedness of `<`), so that `CHOOSE`
  in `First`, the least bad endpoint and the cohort choose something.
* `InstabilityDetectorProofs`: the operations keep the detector in its type.
* `ProfileSupervisorProofs`: `Invariance`, `Spec => []Inv`, and from it
  `TypeCorrect`, `RegistryIsExact`, `WatchIsTruthful`, `RepliesAreKept`,
  `PinLastsOneReconnect`, `AttemptsStayBounded`, `PlacesFit`, `DegradedIsRepaired`,
  the action property `AttemptsPreferHealthy`, and the refinement
  `ProfileKeepsContract`.
* `ProfileHistoryProofs`: `ClocksAreHonest`, and from it the action properties
  `ClearsAfterCalm` and `RemediesSpaced`.
* `DaemonProofs`: `ComputeIsComplete`, `Invariance`, and from it `Typed`,
  `MapStaysExact`, `NoResurrection`, `ReloadsNeverOverlap` and `AppliedIsRun`.
* `RemoteConfigProofs`, `EventPipelineProofs`, `Ssh2ForwardsProofs`: below.

None of the safety properties is inductive alone. `Inv` adds `TaskInv`, which says
for each await which states the machine may be in, whether there is a target and
a row and that they agree, and whether a decision is being carried out and a
caller held for it. The registry property needs it because a row is removed on
the way out of `closing` and `opening` only; the watch property because `fire`
ignores an event that does not suit the state, so one must know that every event
is fired where it does something; and the reply property because a caller is
taken off the channel long before it is answered. `TaskInv` is also an invariant
of the runs `failover` and `forwards`. Typing needs it as well: an endpoint is
charged only where the task has a target. `DegradedIsRepaired` needs `RepairFits`: the
local flags `degraded` and `reopen_at` of `run_active` are set and cleared together
with what is down, and a trip of the detector may hide `Degraded` but never shows it
anew.

`ProfileHistoryProofs` reasons about the code's ages against the two clocks of
`ProfileHistory`. `ClearsOnlyAfterCalm` follows if the clean-window clock of a tripped
detector is never older than the calm (`CalmInv`). That is not quite an invariant: a
failed probe that does not trip ends the calm and leaves the clock running until the
lost session is closed and charged. So `CalmInv` makes an exception for that await and
for a task that has ended, and the proof shows that no probe can clear the detector
there. It also needs that a disabled detector never trips. `RemediesAreSpaced` follows
if the storm guard was armed no earlier than the last remedy (`GuardInv`): a trip
without a remedy may only move it forward.

`DaemonProofs` needs the most. `Inv` is `TypeOK` and seven parts:

* `PlaceInv`: whoever has the mutex of the cell carries out a plan, everybody but a
  client carries one out only with the mutex, and the gate is raised exactly when
  Main is past the drain, with the poller and the watcher gone.
* `PlanInv`: what is left of a plan fits the configuration it was made for: a restart
  is of a profile that is wanted, a stop by a reload of one that is not. Nobody who
  holds the mutex carries a configuration that validation rejects, which is why the cell
  never does.
* `HandleInv`: every handle is of a supervisor that is there, the map's of the profile
  it is filed under, and whatever serves has one. Hence a new supervisor has no handle
  but its creator's.
* `StopInv`, `SpawnInv`: what is being stopped is out of the map and told to leave; what
  was spawned and not placed yet is in nobody else's hands.
* `OwnerInv`: the slot that a reload is at is empty unless an operator has filled it.
* `ReloadInv`: a slot that is the configuration's own matches the cell between reloads
  and, during one, the new configuration as soon as the plan has nothing left to do
  for it. `ReloadBegins` needs `ComputeIsComplete` here, the other steps `PlanInv` and
  `OwnerInv`.

`MapIsExact` is `HandleInv`, `StopInv` and `SpawnInv`. `NothingIsResurrected` adds
`PlaceInv`: with the reload sources gone only a client is left to hold anything.
`OneServesPerProfile` holds because a second supervisor would be one that a reload has
spawned for a slot that `OwnerInv` says is empty. `DaemonAssumption` asks of `Settings`
that the edits `forward_add` and `forward_remove` make stay inside, and nothing of the
number of profiles, clients or supervisors.

`ProfileKeepsContract` assumes `MaxAttempts # 0` and `MaxAttempts <= U32Max`.
Without them the counter can overflow (`CounterOverflows`) and the panic leaves the
row behind. It does not assume that the handle is kept: an aborted task stutters.

`RemoteConfigProofs` proves `TypeOK`, `OnlyPinnedRuns` and `PinnedBodyIsCached`. The invariant is `TypeOK` with `LoopInv`, which says that
the body under way is the pinned one and already in the cache, and that what runs
is too; `FallBack` needs the check against the pin there.

`EventPipelineProofs` proves `TypeOK`, `SpoolIsFifo` and `NothingVanishes` for any
bindings, capacity and cap. `SpoolIsFifo` needs that what is in the hands of the
dispatcher and in the channel is newer than all that was spooled, and that the
peeked file is below all others of its spool; `NothingVanishes` needs that a file is
removed only after it was settled or could not be decoded.

`Ssh2ForwardsProofs` proves, for any forwards, connections, queue, limit and idle timeout,
`TypeOK` (whoever awaits a request holds the handle, alone), `SlotsAreExact`,
`RoutesAreRead` and `IdleCloseIsGenuine`. Its `Inv` has one part for each. The count of
the slots needs `QueueInv`: what `Serve` takes off a queue is a connection that waits
there, for this forward, and is in the queue once, so that its admission adds one bridge
and its removal leaves the rest queued. `RouteInv` needs that a connection is queued or
held only for a forward that is past its opening, so that an open that fails strands
nobody; that in turn needs that the route of a forward that awaits its port is not bound
before the loop runs. It does not say that the loop will read the queue: a loop on its
way out does not, and `ChannelsAreServed` and `claim_wedge` are about that. An idle close is genuine because of `ClockInv`: the timer of the watchdog is never older than
the last move unless `moved` says so, which is lost if a sample resets one without the
other.

Only model-checked: liveness (`Recovers`, `RequestsAreAnswered`, `StopReturns`,
`ShutdownCompletes`, `Settles`, `UntaggedIsApplied`, `SpoolDrains`,
`OnlyDeliveryHindersShutdown`, `OnlyHandlerHindersClose`, `ChannelsAreServed`,
`SilentIsClosed`; fairness is out of the prover's reach).
Every invariant and every action property of a passing run is a theorem too. What
`Backoff` computes (powers of two) is checked by the runs only, since it takes
induction over data.

## Not modelled, and the plan

1. Proofs: an abstract specification of the orchestrator (profiles that are started,
   stopped and finally closed for good) and its refinement by `Daemon`.
2. `PolicySelector`: round robin, sticky and weighted policies with their own
   cooldown, as a second implementation of `Pick`, and fairness of round robin.
3. The updater's swap and rollback, and the single-instance lock of `spt-state`.
4. Unix-socket and UDP forwards and the SSH3 backend, whose loops have the shape
   of the ones in `Ssh2Forwards`.

What makes up most of the repository has no state machine to model: validation and
parsing of the configuration, command line and terminal screens, wire formats,
cryptography, platform I/O. Their outcomes are nondeterministic here (a connect
fails or is refused, a configuration is rejected, a sink fails). The `checked_sub`
fallback of `record_disconnect` on a clock younger than the window is left out,
since instants are ages.
