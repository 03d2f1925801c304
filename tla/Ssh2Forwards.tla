---------------------------- MODULE Ssh2Forwards ----------------------------
(***************************************************************************)
(* The forwards of one SSH2 session (russh_backend.rs of spt-ssh2, with    *)
(* bidir.rs of spt-forward): a loop per forward that admits connections, a *)
(* bridge per connection that opens its other side and copies bytes with   *)
(* an idle watchdog, and the supervisor that opens, probes, stops and      *)
(* closes them all.                                                        *)
(*                                                                         *)
(* They share two things.  The mutex of the russh handle is held across    *)
(* the await of every request.  The task of russh that runs the session    *)
(* (external) answers these requests, and calls the handlers of            *)
(* ClientHandler itself: while a handler waits it answers nobody.          *)
(***************************************************************************)
EXTENDS Integers, Sequences, FiniteSets

CONSTANTS
    Remote,          \* the remote forwards: the server listens
    Local,           \* the local forwards: a listener of ours
    Dynamic,         \* the local ones that ask the client for the target
    Ephemeral,       \* the remote ones that leave the port to the server
    Conns,           \* the connections somebody makes
    Of,              \* the forward each of them belongs to
    Talks,           \* the connections bytes are sent on: the rest stay silent
    QueueCap,        \* the channel from handler to loop (64 in the code)
    MaxConnections,  \* of a forward, at the same time
    Idle,            \* idle_timeout, in ticks
    NoOne

Forwards == Remote \cup Local
Prober == "probe"
Closer == "close"
Dirs == {"in", "out"}   \* from the tunnel, to the tunnel

ASSUME ForwardsAssumption ==
    /\ Remote \cap Local = {} /\ Dynamic \subseteq Local /\ Ephemeral \subseteq Remote
    /\ IsFiniteSet(Conns)
    /\ Of \in [Conns -> Forwards] /\ Talks \subseteq Conns
    /\ QueueCap \in Nat \ {0} /\ MaxConnections \in Nat /\ Idle \in Nat \ {0}
    /\ NoOne \notin Forwards \cup Conns \cup {Prober, Closer}
    /\ Forwards \cap Conns = {} /\ {Prober, Closer} \cap (Forwards \cup Conns) = {}
    /\ {"idle", "down"} \cap Conns = {}

VARIABLES
    russh,    \* the session's task: idle, down, or the connection its handler holds
    lock,     \* who holds the handle
    route,    \* remote_forwards: none, requested (port 0) or bound
    queue,    \* the channels on their way to each loop
    loop,     \* where the loop of each forward is
    closing,  \* the forwards whose close_tx was used or dropped
    active,   \* the count of the connections of each forward
    at,       \* where each connection is
    copy,     \* the copy of each connection
    probe,    \* the keepalive of the supervisor
    sess      \* the session, as the supervisor sees it

vars == <<russh, lock, route, queue, loop, closing, active, at, copy, probe, sess>>

-----------------------------------------------------------------------------
(* One copy: both directions, the beacon and the watchdog.                   *)

\* `moved`: the generation differs from last_seen.  `timer`: the sleep of the
\* watchdog.  `quiet`: ticks since a byte moved, which the code does not keep.
NewCopy == [dir |-> [d \in Dirs |-> "reading"], moved |-> FALSE, timer |-> 0, quiet |-> 0]

Busy(k) == \E d \in Dirs : k.dir[d] = "draining"

Moves(k, d, place) == [k EXCEPT !.dir[d] = place, !.moved = TRUE, !.quiet = 0]

Older(n) == IF n < Idle THEN n + 1 ELSE n
Aged(k) == [k EXCEPT !.timer = Older(@), !.quiet = Older(@)]

\* The watchdog as it was before throttled transfers counted.
IsIdleUnlessMoved(k) == ~k.moved

\* Nothing moved since the last sample, and nothing is in flight.
IsIdle(k) == ~k.moved /\ ~Busy(k)

-----------------------------------------------------------------------------

Init ==
    /\ russh = "idle" /\ lock = NoOne
    /\ route = [f \in Remote |-> "none"]
    /\ queue = [f \in Remote |-> <<>>]
    /\ loop = [f \in Forwards |-> "absent"]
    /\ closing = {}
    /\ active = [f \in Forwards |-> 0]
    /\ at = [c \in Conns |-> "new"]
    /\ copy = [c \in Conns |-> NewCopy]
    /\ probe = "idle"
    /\ sess = "opening"

\* The loop is in its cycle, maybe at the await of a channel it refuses.
Cycling(f) == loop[f] \in {"running", "refusing"}

\* A request is answered, by the server or because the session is gone.
Answers == russh \in {"idle", "down"}

Lock(x) == lock = NoOne /\ lock' = x
Unlock(x) == lock = x /\ lock' = NoOne

\* The supervisor opens one forward after the other.
Opening(f) ==
    /\ sess = "opening" /\ loop[f] = "absent"
    /\ \A g \in Forwards : loop[g] \notin {"registered", "requesting", "rekeying"}

-----------------------------------------------------------------------------
(* open_local, open_dynamic, open_remote. *)

OpenLocal(f) ==
    /\ f \in Local /\ Opening(f)
    /\ loop' = [loop EXCEPT ![f] = "running"]
    /\ UNCHANGED <<russh, lock, route, queue, closing, active, at, copy, probe, sess>>

\* The address cannot be bound.
OpenFails(f) ==
    /\ Opening(f)
    /\ loop' = [loop EXCEPT ![f] = "stopped"]
    /\ UNCHANGED <<russh, lock, route, queue, closing, active, at, copy, probe, sess>>

\* The route is there before the server is asked.
Register(f) ==
    /\ f \in Remote /\ Opening(f)
    /\ route' = [route EXCEPT ![f] = IF f \in Ephemeral THEN "requested" ELSE "bound"]
    /\ loop' = [loop EXCEPT ![f] = "registered"]
    /\ UNCHANGED <<russh, lock, queue, closing, active, at, copy, probe, sess>>

LockToOpen(f) ==
    /\ loop[f] = "registered"
    /\ Lock(f)
    /\ loop' = [loop EXCEPT ![f] = "requesting"]
    /\ UNCHANGED <<russh, route, queue, closing, active, at, copy, probe, sess>>

Opened(f) ==
    /\ loop[f] = "requesting" /\ russh = "idle"
    /\ Unlock(f)
    /\ loop' = [loop EXCEPT ![f] = IF f \in Ephemeral THEN "rekeying" ELSE "running"]
    /\ UNCHANGED <<russh, route, queue, closing, active, at, copy, probe, sess>>

\* The error path leaves the route.
OpenRefusedRouted(f) ==
    /\ loop[f] = "requesting" /\ Answers
    /\ Unlock(f)
    /\ loop' = [loop EXCEPT ![f] = "stopped"]
    /\ UNCHANGED <<russh, route, queue, closing, active, at, copy, probe, sess>>

OpenRefused(f) ==
    /\ loop[f] = "requesting" /\ Answers
    /\ Unlock(f)
    /\ route' = [route EXCEPT ![f] = "none"]
    /\ loop' = [loop EXCEPT ![f] = "stopped"]
    /\ UNCHANGED <<russh, queue, closing, active, at, copy, probe, sess>>

\* The route moves to the port the server chose.
Rekey(f) ==
    /\ loop[f] = "rekeying"
    /\ route' = [route EXCEPT ![f] = "bound"]
    /\ loop' = [loop EXCEPT ![f] = "running"]
    /\ UNCHANGED <<russh, lock, queue, closing, active, at, copy, probe, sess>>

-----------------------------------------------------------------------------
(* Connections arrive. *)

ServerListens(f) == Cycling(f) \/ loop[f] \in {"rekeying", "leaving", "cancelling"}

\* server_channel_open_forwarded_tcpip: a channel without a route is closed,
\* one with a route goes to its loop, or waits for room and the task with it.
\* No two forwards share a port, so the lookup by the port alone, which follows
\* a failed one, finds nothing else.
Offer(c) ==
    LET f == Of[c]
        room == Len(queue[f]) < QueueCap
    IN  /\ f \in Remote /\ at[c] = "new"
        /\ russh = "idle" /\ ServerListens(f)
        /\ at' = [at EXCEPT ![c] = IF route[f] # "bound" THEN "ended"
                                   ELSE IF room THEN "queued" ELSE "held"]
        /\ queue' = IF route[f] = "bound" /\ room
                    THEN [queue EXCEPT ![f] = Append(@, c)] ELSE queue
        /\ russh' = IF route[f] = "bound" /\ ~room THEN c ELSE russh
        /\ UNCHANGED <<lock, route, loop, closing, active, copy, probe, sess>>

\* There is room, or the loop is gone.
HandlerGoesOn(c) ==
    LET f == Of[c]
        gone == loop[f] = "stopped"
    IN  /\ russh = c
        /\ gone \/ Len(queue[f]) < QueueCap
        /\ at' = [at EXCEPT ![c] = IF gone THEN "ended" ELSE "queued"]
        /\ queue' = IF gone THEN queue ELSE [queue EXCEPT ![f] = Append(@, c)]
        /\ russh' = "idle"
        /\ UNCHANGED <<lock, route, loop, closing, active, copy, probe, sess>>

\* The limit admits one too many.
RoomForOneMore(f) == active[f] <= MaxConnections

\* The cap; the rate gate before it may refuse at any time.
RoomFor(f) == active[f] < MaxConnections

\* A channel stays in the queue until there is room for it.
ServeWaitsForRoom(f, admits) ==
    LET c == Head(queue[f])
    IN  /\ loop[f] = "running" /\ queue[f] # <<>>
        /\ admits /\ RoomFor(f)
        /\ queue' = [queue EXCEPT ![f] = Tail(@)]
        /\ at' = [at EXCEPT ![c] = "dialing"]
        /\ active' = [active EXCEPT ![f] = @ + 1]
        /\ UNCHANGED <<russh, lock, route, loop, closing, copy, probe, sess>>

\* remote_loop takes a channel off its queue, and closes it if it does not
\* admit it.
Serve(f, admits) ==
    LET c == Head(queue[f])
    IN  /\ loop[f] = "running" /\ queue[f] # <<>>
        /\ admits => RoomFor(f)
        /\ queue' = [queue EXCEPT ![f] = Tail(@)]
        /\ at' = [at EXCEPT ![c] = IF admits THEN "dialing" ELSE "ended"]
        /\ active' = IF admits THEN [active EXCEPT ![f] = @ + 1] ELSE active
        /\ loop' = IF admits THEN loop ELSE [loop EXCEPT ![f] = "refusing"]
        /\ UNCHANGED <<russh, lock, route, closing, copy, probe, sess>>

\* The close of the refused channel returns: at once if russh has room for the
\* message, for certain only when its task goes on.
Refused(f) ==
    /\ loop[f] = "refusing"
    /\ loop' = [loop EXCEPT ![f] = "running"]
    /\ UNCHANGED <<russh, lock, route, queue, closing, active, at, copy, probe, sess>>

\* local_loop and dynamic_loop accept a connection.
Accept(c, admits) ==
    LET f == Of[c]
    IN  /\ f \in Local /\ at[c] = "new"
        /\ loop[f] = "running"
        /\ admits => RoomFor(f)
        /\ at' = [at EXCEPT ![c] = IF ~admits THEN "ended"
                                   ELSE IF f \in Dynamic THEN "asking" ELSE "waiting"]
        /\ active' = IF admits THEN [active EXCEPT ![f] = @ + 1] ELSE active
        /\ UNCHANGED <<russh, lock, route, queue, loop, closing, copy, probe, sess>>

-----------------------------------------------------------------------------
(* The end of a loop. *)

\* close_rx: a local loop is done; a remote one removes its route first, and
\* keeps its receiver until the server has answered.
CloseSeen(f) ==
    /\ loop[f] = "running" /\ f \in closing
    /\ loop' = [loop EXCEPT ![f] = IF f \in Local THEN "stopped" ELSE "leaving"]
    /\ route' = IF f \in Remote THEN [route EXCEPT ![f] = "none"] ELSE route
    /\ UNCHANGED <<russh, lock, queue, closing, active, at, copy, probe, sess>>

LockToCancel(f) ==
    /\ loop[f] = "leaving"
    /\ Lock(f)
    /\ loop' = [loop EXCEPT ![f] = "cancelling"]
    /\ UNCHANGED <<russh, route, queue, closing, active, at, copy, probe, sess>>

\* cancel_tcpip_forward returns: Stopped, and what is queued is dropped.
Cancelled(f) ==
    /\ loop[f] = "cancelling" /\ Answers
    /\ Unlock(f)
    /\ loop' = [loop EXCEPT ![f] = "stopped"]
    /\ queue' = [queue EXCEPT ![f] = <<>>]
    /\ at' = [c \in Conns |-> IF Of[c] = f /\ at[c] = "queued" THEN "ended" ELSE at[c]]
    /\ UNCHANGED <<russh, route, closing, active, copy, probe, sess>>

-----------------------------------------------------------------------------
(* Bridges: bridge_remote, bridge_local, bridge_dynamic. *)

\* The slot is not given back when the other side cannot be opened.
BridgeEndsCounted(c) ==
    /\ at' = [at EXCEPT ![c] = "ended"]
    /\ copy' = [copy EXCEPT ![c] = NewCopy]
    /\ active' = IF at[c] = "copying" THEN [active EXCEPT ![Of[c]] = @ - 1] ELSE active

\* The bridge returns, and its slot with it.
BridgeEnds(c) ==
    /\ at' = [at EXCEPT ![c] = "ended"]
    /\ copy' = [copy EXCEPT ![c] = NewCopy]
    /\ active' = [active EXCEPT ![Of[c]] = @ - 1]

Copies(c) == at' = [at EXCEPT ![c] = "copying"] /\ UNCHANGED <<copy, active>>

\* The target of a remote forward is dialled; nobody waits for it but us.
Dialed(c, ok) ==
    /\ at[c] = "dialing"
    /\ IF ok THEN Copies(c) ELSE BridgeEnds(c)
    /\ UNCHANGED <<russh, lock, route, queue, loop, closing, probe, sess>>

\* The proxy handshake: a target that is allowed, or an error or the timeout.
Asked(c, ok) ==
    /\ at[c] = "asking"
    /\ IF ok THEN at' = [at EXCEPT ![c] = "waiting"] /\ UNCHANGED <<copy, active>>
       ELSE BridgeEnds(c)
    /\ UNCHANGED <<russh, lock, route, queue, loop, closing, probe, sess>>

LockToBridge(c) ==
    /\ at[c] = "waiting"
    /\ Lock(c)
    /\ at' = [at EXCEPT ![c] = "requesting"]
    /\ UNCHANGED <<russh, route, queue, loop, closing, active, copy, probe, sess>>

\* channel_open_direct_tcpip returns.
ChannelOpen(c, ok) ==
    /\ at[c] = "requesting"
    /\ IF ok THEN russh = "idle" ELSE Answers
    /\ Unlock(c)
    /\ IF ok THEN Copies(c) ELSE BridgeEnds(c)
    /\ UNCHANGED <<russh, route, queue, loop, closing, probe, sess>>

-----------------------------------------------------------------------------
(* copy_bidirectional_throttled_idle. *)

Copying(c, d, place) == at[c] = "copying" /\ copy[c].dir[d] = place

\* A chunk is read: it is in flight from now on.
ReadChunk(c, d) ==
    /\ Copying(c, d, "reading") /\ c \in Talks
    /\ d = "in" => russh = "idle"
    /\ copy' = [copy EXCEPT ![c] = Moves(@, d, "draining")]
    /\ UNCHANGED <<russh, lock, route, queue, loop, closing, active, at, probe, sess>>

\* The bucket gave its tokens and the chunk is written, or the write failed.
ChunkDone(c, d, ok) ==
    /\ Copying(c, d, "draining")
    /\ d = "out" => russh = IF ok THEN "idle" ELSE "down"
    /\ copy' = [copy EXCEPT ![c] = Moves(@, d, IF ok THEN "reading" ELSE "ended")]
    /\ UNCHANGED <<russh, lock, route, queue, loop, closing, active, at, probe, sess>>

\* End of file, or the read failed.
ReadEnds(c, d) ==
    /\ Copying(c, d, "reading")
    /\ d = "in" => Answers
    /\ copy' = [copy EXCEPT ![c].dir[d] = "ended"]
    /\ UNCHANGED <<russh, lock, route, queue, loop, closing, active, at, probe, sess>>

\* Both directions are joined, even if the first of them failed.
CopyEnds(c) ==
    /\ \A d \in Dirs : Copying(c, d, "ended")
    /\ BridgeEnds(c)
    /\ UNCHANGED <<russh, lock, route, queue, loop, closing, probe, sess>>

\* last_seen is not brought up to date.
WatchdogSeesOldMove(c) ==
    /\ at[c] = "copying" /\ copy[c].timer = Idle
    /\ IF IsIdle(copy[c]) THEN BridgeEnds(c)
       ELSE /\ copy' = [copy EXCEPT ![c].timer = 0]
            /\ UNCHANGED <<at, active>>
    /\ UNCHANGED <<russh, lock, route, queue, loop, closing, probe, sess>>

\* The sleep of the watchdog is over: close, or look again later.
Watchdog(c) ==
    /\ at[c] = "copying" /\ copy[c].timer = Idle
    /\ IF IsIdle(copy[c]) THEN BridgeEnds(c)
       ELSE /\ copy' = [copy EXCEPT ![c].moved = FALSE, ![c].timer = 0]
            /\ UNCHANGED <<at, active>>
    /\ UNCHANGED <<russh, lock, route, queue, loop, closing, probe, sess>>

Tick ==
    /\ copy' = [c \in Conns |-> IF at[c] = "copying" THEN Aged(copy[c]) ELSE copy[c]]
    /\ copy' # copy
    /\ UNCHANGED <<russh, lock, route, queue, loop, closing, active, at, probe, sess>>

-----------------------------------------------------------------------------
(* The supervisor (profile.rs), and TunnelSession for RusshSsh2Session. *)

\* Every forward was opened or left out.
AllOpened ==
    /\ sess = "opening"
    /\ \A f \in Forwards : Cycling(f) \/ loop[f] = "stopped"
    /\ sess' = "open"
    /\ UNCHANGED <<russh, lock, route, queue, loop, closing, active, at, copy, probe>>

\* A required one was refused: the others' handles are dropped.
RequiredMissing ==
    /\ sess = "opening"
    /\ \E f \in Forwards : loop[f] = "stopped"
    /\ \A f \in Forwards : Cycling(f) \/ loop[f] \in {"absent", "stopped"}
    /\ closing' = {f \in Forwards : Cycling(f)}
    /\ sess' = "closing"
    /\ UNCHANGED <<russh, lock, route, queue, loop, active, at, copy, probe>>

ProbeStarts ==
    /\ sess = "open" /\ probe = "idle"
    /\ probe' = "waiting"
    /\ UNCHANGED <<russh, lock, route, queue, loop, closing, active, at, copy, sess>>

LockToProbe ==
    /\ probe = "waiting"
    /\ Lock(Prober)
    /\ probe' = "requesting"
    /\ UNCHANGED <<russh, route, queue, loop, closing, active, at, copy, sess>>

ProbeAnswered ==
    /\ probe = "requesting" /\ Answers
    /\ Unlock(Prober)
    /\ probe' = "idle"
    /\ UNCHANGED <<russh, route, queue, loop, closing, active, at, copy, sess>>

\* The guard survives the timeout.
ProbeTimesOutLocked ==
    /\ probe # "idle"
    /\ probe' = "idle"
    /\ UNCHANGED <<russh, lock, route, queue, loop, closing, active, at, copy, sess>>

\* keepalive_timeout: the future is dropped, and the guard with it.
ProbeTimesOut ==
    /\ probe # "idle"
    /\ lock' = IF lock = Prober THEN NoOne ELSE lock
    /\ probe' = "idle"
    /\ UNCHANGED <<russh, route, queue, loop, closing, active, at, copy, sess>>

\* stop_runners_bounded.
StopRunners ==
    /\ sess = "open" /\ probe = "idle"
    /\ closing' = {f \in Forwards : Cycling(f)}
    /\ sess' = "stopping"
    /\ UNCHANGED <<russh, lock, route, queue, loop, active, at, copy, probe>>

\* All are Stopped, or the grace is over.
RunnersStopped ==
    /\ sess = "stopping"
    /\ sess' = "closing"
    /\ UNCHANGED <<russh, lock, route, queue, loop, closing, active, at, copy, probe>>

LockToClose ==
    /\ sess = "closing"
    /\ Lock(Closer)
    /\ sess' = "disconnecting"
    /\ UNCHANGED <<russh, route, queue, loop, closing, active, at, copy, probe>>

\* The request is on its way; the task of russh ends when it gets to it.
Disconnected ==
    /\ sess = "disconnecting"
    /\ Unlock(Closer)
    /\ sess' = "over"
    /\ UNCHANGED <<russh, route, queue, loop, closing, active, at, copy, probe>>

\* close_session_bounded gives up and drops the session.
CloseTimesOut ==
    /\ sess \in {"closing", "disconnecting"}
    /\ lock' = IF lock = Closer THEN NoOne ELSE lock
    /\ sess' = "over"
    /\ UNCHANGED <<russh, route, queue, loop, closing, active, at, copy, probe>>

\* The task of russh sees that the network failed, that it was told to
\* disconnect, or that nobody holds the handle or a channel any more.
RusshEnds ==
    /\ russh = "idle"
    /\ russh' = "down"
    /\ UNCHANGED <<lock, route, queue, loop, closing, active, at, copy, probe, sess>>

\* Nothing is left of the session.
Finished ==
    /\ sess = "over" /\ russh = "down"
    /\ \A f \in Forwards : loop[f] \in {"absent", "stopped"}
    /\ \A c \in Conns : at[c] \in {"new", "ended"}
    /\ UNCHANGED vars

-----------------------------------------------------------------------------

ForwardStep(f) ==
    \/ OpenLocal(f) \/ OpenFails(f) \/ Register(f) \/ LockToOpen(f) \/ Opened(f)
    \/ OpenRefused(f) \/ Rekey(f) \/ CloseSeen(f) \/ LockToCancel(f) \/ Cancelled(f)
    \/ Refused(f) \/ \E admits \in BOOLEAN : f \in Remote /\ Serve(f, admits)

ConnStep(c) ==
    \/ Offer(c) \/ HandlerGoesOn(c) \/ LockToBridge(c)
    \/ \E b \in BOOLEAN : Accept(c, b) \/ Dialed(c, b) \/ Asked(c, b) \/ ChannelOpen(c, b)
    \/ \E d \in Dirs : ReadChunk(c, d) \/ ReadEnds(c, d)
    \/ \E d \in Dirs, ok \in BOOLEAN : ChunkDone(c, d, ok)
    \/ CopyEnds(c) \/ Watchdog(c)

SupervisorStep ==
    \/ AllOpened \/ RequiredMissing \/ ProbeStarts \/ LockToProbe \/ ProbeAnswered
    \/ ProbeTimesOut \/ StopRunners \/ RunnersStopped \/ LockToClose \/ Disconnected
    \/ CloseTimesOut

Next ==
    \/ \E f \in Forwards : ForwardStep(f)
    \/ \E c \in Conns : ConnStep(c)
    \/ SupervisorStep \/ Tick \/ RusshEnds \/ Finished

Spec == Init /\ [][Next]_vars

\* Somebody who holds the handle lets go of it.
AwaitEnds ==
    \/ \E f \in Forwards : Opened(f) \/ OpenRefused(f) \/ Cancelled(f)
    \/ \E c \in Conns, ok \in BOOLEAN : ChannelOpen(c, ok)
    \/ ProbeAnswered \/ ProbeTimesOut \/ Disconnected \/ CloseTimesOut

\* The cycle of a loop, but for a close that waits for the task of russh.
Cycles(f) ==
    \/ CloseSeen(f) \/ (Answers /\ Refused(f))
    \/ \E admits \in BOOLEAN : f \in Remote /\ Serve(f, admits)

(***************************************************************************)
(* The server answers requests, the timeouts of the supervisor end and the *)
(* runtime polls what can go on: the loops, the handler, the watchdogs.    *)
(* The mutex is served in the order it was asked for, hence the strong     *)
(* fairness.                                                               *)
(***************************************************************************)
FairSpec ==
    /\ Spec
    /\ WF_vars(AwaitEnds)
    /\ WF_vars(Tick)
    /\ WF_vars(\E c \in Conns : HandlerGoesOn(c))
    /\ \A f \in Forwards : WF_vars(Cycles(f))
    /\ \A f \in Remote : SF_vars(LockToCancel(f))
    /\ \A c \in Conns : WF_vars(Watchdog(c))

-----------------------------------------------------------------------------
(* Properties. *)

\* Who has an await under way that holds the handle.
Holds(x) ==
    \/ x \in Forwards /\ loop[x] \in {"requesting", "cancelling"}
    \/ x \in Conns /\ at[x] = "requesting"
    \/ x = Prober /\ probe = "requesting"
    \/ x = Closer /\ sess = "disconnecting"

\* The types of the state, and the handle is held by whoever awaits a request
\* on it and by nobody else, even where a timeout drops the await (bridge_local,
\* remote_loop, keepalive, close_session_bounded).
TypeOK ==
    /\ russh \in Conns \cup {"idle", "down"}
    /\ route \in [Remote -> {"none", "requested", "bound"}]
    /\ queue \in [Remote -> Seq(Conns)]
    /\ loop \in [Forwards -> {"absent", "registered", "requesting", "rekeying", "running",
                              "refusing", "leaving", "cancelling", "stopped"}]
    /\ closing \subseteq Forwards
    /\ active \in [Forwards -> 0..MaxConnections]
    /\ at \in [Conns -> {"new", "held", "queued", "dialing", "asking", "waiting",
                         "requesting", "copying", "ended"}]
    /\ copy \in [Conns -> [dir : [Dirs -> {"reading", "draining", "ended"}],
                           moved : BOOLEAN, timer : 0..Idle, quiet : 0..Idle]]
    /\ probe \in {"idle", "waiting", "requesting"}
    /\ sess \in {"opening", "open", "stopping", "closing", "disconnecting", "over"}
    /\ lock \in Forwards \cup Conns \cup {Prober, Closer, NoOne}
    /\ \A x \in Forwards \cup Conns \cup {Prober, Closer} : Holds(x) <=> lock = x

Bridged(f) ==
    {c \in Conns : Of[c] = f /\ at[c] \in {"dialing", "asking", "waiting", "requesting", "copying"}}

\* The count of a forward is the number of its bridges, by whichever of their
\* returns they end, and never above max_connections (ConnLimiter, ConnPermit,
\* local_loop).  A panic is no return: the permit of remote_loop would survive
\* it, the plain decrement of the others not.
SlotsAreExact ==
    \A f \in Forwards :
        active[f] = Cardinality(Bridged(f)) /\ active[f] <= MaxConnections

\* A route leads to a loop that is opened or cycling: none is left behind by an
\* open that was refused or a forward that was closed.  A channel is only queued
\* for a loop that has got as far as its cycle and still owns the queue, though
\* it may be on its way out, and the task of russh waits with no other channel
\* than the one its handler holds (open_remote, remote_loop, ClientHandler).
RoutesAreRead ==
    /\ \A f \in Remote : route[f] # "none" =>
         Cycling(f) \/ loop[f] \in {"registered", "requesting", "rekeying"}
    /\ \A c \in Conns : at[c] = "queued" =>
         Cycling(Of[c]) \/ loop[Of[c]] \in {"leaving", "cancelling"}
    /\ \A c \in Conns : at[c] = "held" <=> russh = c

\* The watchdog closes a connection only if no byte moved for the whole
\* idle_timeout and nothing that was read is still to be written, however slow
\* the bucket or the peer ("never idle-closes it", ActivityBeacon).
IdleCloseIsGenuine ==
    [][\A c \in Conns : Watchdog(c) /\ at'[c] = "ended" =>
          copy[c].quiet = Idle /\ ~Busy(copy[c])]_vars

\* A forward that is told to close gets to Stopped, so that ForwardRunner::stop
\* returns and no task is left behind (remote_loop, ForwardHandle::close,
\* stop_runners_bounded).
ClosedForwardStops == \A f \in Forwards : (f \in closing) ~> (loop[f] = "stopped")

\* The task of russh waits, in its handler, for room in a queue.
HandlerStuck == russh \in Conns /\ Len(queue[Of[russh]]) = QueueCap

\* Nor does the loop of f go on, which waits for that task.
Wedged(f) == loop[f] \in {"refusing", "leaving", "cancelling"} /\ HandlerStuck

\* A forward that is told to close gets to Stopped, and the only thing that can
\* keep it from that is a handler that waits for room in a queue while the loop
\* waits for russh: no timeout, refusal or slow bridge leaves the handle locked
\* behind it (remote_loop, keepalive, bridge_local, close_session_bounded).
OnlyHandlerHindersClose ==
    \A f \in Forwards : (f \in closing) ~> (loop[f] = "stopped" \/ Wedged(f))

\* A channel the server opened is bridged or closed, though all slots may be
\* taken for good, and the same wedge alone can keep it waiting (remote_loop,
\* try_admit, server_channel_open_forwarded_tcpip).
ChannelsAreServed ==
    \A c \in {x \in Conns : Of[x] \in Remote} :
        (at[c] \in {"queued", "held"}) ~> (at[c] \notin {"queued", "held"} \/ Wedged(Of[c]))

\* A connection that stays silent is closed in the end
\* (copy_bidirectional_throttled_idle).
SilentIsClosed ==
    \A c \in Conns :
        []<>~(at[c] = "copying" /\ ~Busy(copy[c]) /\ copy[c].quiet = Idle)
=============================================================================
