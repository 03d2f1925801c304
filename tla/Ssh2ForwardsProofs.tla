------------------------- MODULE Ssh2ForwardsProofs -------------------------
(***************************************************************************)
(* What Ssh2Forwards guarantees for any forwards, connections, queue and   *)
(* limit.                                                                  *)
(***************************************************************************)
EXTENDS Ssh2Forwards, FiniteSetTheorems, TLAPS

\* The places in which a connection has a bridge, and so a slot.
Bridging == {"dialing", "asking", "waiting", "requesting", "copying"}

\* The types of all variables but `active`, whose range SlotsAreExact gives.
TypeInv ==
    /\ russh \in Conns \cup {"idle", "down"}
    /\ lock \in Forwards \cup Conns \cup {Prober, Closer, NoOne}
    /\ route \in [Remote -> {"none", "requested", "bound"}]
    /\ queue \in [Remote -> Seq(Conns)]
    /\ loop \in [Forwards -> {"absent", "registered", "requesting", "rekeying", "running",
                              "refusing", "leaving", "cancelling", "stopped"}]
    /\ closing \subseteq Forwards
    /\ at \in [Conns -> {"new", "held", "queued", "dialing", "asking", "waiting",
                         "requesting", "copying", "ended"}]
    /\ probe \in {"idle", "waiting", "requesting"}
    /\ sess \in {"opening", "open", "stopping", "closing", "disconnecting", "over"}

CopyType == [dir : [Dirs -> {"reading", "draining", "ended"}],
             moved : BOOLEAN, timer : 0..Idle, quiet : 0..Idle]

\* The watchdog's timer is not older than the last move, unless it knows.
ClockInv ==
    /\ copy \in [Conns -> CopyType]
    /\ \A c \in Conns : copy[c].moved \/ copy[c].timer <= copy[c].quiet

LockInv ==
    /\ \A f \in Forwards : loop[f] \in {"requesting", "cancelling"} <=> lock = f
    /\ \A c \in Conns : at[c] = "requesting" <=> lock = c
    /\ probe = "requesting" <=> lock = Prober
    /\ sess = "disconnecting" <=> lock = Closer

\* What is in a queue belongs there, once; the handler holds what it is at.
QueueInv ==
    /\ \A f \in Remote : \A i \in 1..Len(queue[f]) :
         at[queue[f][i]] = "queued" /\ Of[queue[f][i]] = f
    /\ \A f \in Remote : \A i, j \in 1..Len(queue[f]) :
         queue[f][i] = queue[f][j] => i = j
    /\ \A c \in Conns : at[c] \in {"queued", "held"} => Of[c] \in Remote
    /\ russh \in Conns => at[russh] = "held"
    /\ \A c \in Conns : at[c] = "held" => russh = c

\* A route that awaits its port takes no channel: the third and the fourth part
\* are why none is queued before the loop is in its cycle.
RouteInv ==
    /\ \A f \in Remote : route[f] # "none" =>
         loop[f] \in {"registered", "requesting", "rekeying", "running", "refusing"}
    /\ \A c \in Conns : at[c] \in {"queued", "held"} =>
         loop[Of[c]] \notin {"absent", "registered", "requesting", "rekeying"}
    /\ \A f \in Remote : loop[f] = "rekeying" => route[f] = "requested"
    /\ \A f \in Ephemeral : loop[f] \in {"registered", "requesting"} => route[f] = "requested"
    /\ \A c \in Conns : at[c] = "queued" => loop[Of[c]] # "stopped"

SlotInv ==
    /\ active \in [Forwards -> Int]
    /\ SlotsAreExact

Inv == TypeInv /\ ClockInv /\ LockInv /\ QueueInv /\ RouteInv /\ SlotInv

-----------------------------------------------------------------------------
(* Slots. *)

\* The bridges of a forward are finitely many.
LEMMA BridgedFinite ==
    \A f \in Forwards : IsFiniteSet(Bridged(f)) /\ Cardinality(Bridged(f)) \in Nat
<1>1. IsFiniteSet(Conns)
  BY ForwardsAssumption
<1>2. \A f \in Forwards : Bridged(f) \subseteq Conns
  BY DEF Bridged
<1> QED
  BY <1>1, <1>2, FS_Subset, FS_CardinalityType

\* A step that begins and ends no bridge keeps the count.
LEMMA SlotsStay ==
    ASSUME SlotInv, UNCHANGED active,
           \A c \in Conns : at'[c] \in Bridging <=> at[c] \in Bridging
    PROVE  SlotInv'
<1>1. \A f \in Forwards : Bridged(f)' = Bridged(f)
  BY DEF Bridged, Bridging
<1> QED
  BY <1>1 DEF SlotInv, SlotsAreExact

\* A step that admits a connection counts it.
LEMMA SlotTaken ==
    ASSUME SlotInv, TypeInv,
           NEW c \in Conns, at[c] \notin Bridging, NEW v \in Bridging,
           at' = [at EXCEPT ![c] = v],
           active' = [active EXCEPT ![Of[c]] = @ + 1],
           RoomFor(Of[c])
    PROVE  SlotInv'
<1>0. Of[c] \in Forwards /\ Of \in [Conns -> Forwards] /\ MaxConnections \in Nat
  BY ForwardsAssumption
<1>1. Bridged(Of[c])' = Bridged(Of[c]) \cup {c} /\ c \notin Bridged(Of[c])
  BY DEF Bridged, Bridging, TypeInv
<1>2. \A f \in Forwards \ {Of[c]} : Bridged(f)' = Bridged(f)
  BY DEF Bridged, Bridging, TypeInv
<1>3. Cardinality(Bridged(Of[c])') = Cardinality(Bridged(Of[c])) + 1
  BY <1>0, <1>1, BridgedFinite, FS_AddElement
<1>4. active' \in [Forwards -> Int]
  BY <1>0 DEF SlotInv
<1>5. active'[Of[c]] = active[Of[c]] + 1 /\ \A f \in Forwards \ {Of[c]} : active'[f] = active[f]
  BY <1>0 DEF SlotInv
<1>6. active[Of[c]] + 1 <= MaxConnections
  BY <1>0 DEF SlotInv, RoomFor
<1>7. ASSUME NEW f \in Forwards
      PROVE  active'[f] = Cardinality(Bridged(f)') /\ active'[f] <= MaxConnections
  <2>1. CASE f = Of[c]
    BY <2>1, <1>0, <1>3, <1>5, <1>6 DEF SlotInv, SlotsAreExact
  <2>2. CASE f # Of[c]
    BY <2>2, <1>2, <1>5 DEF SlotInv, SlotsAreExact
  <2> QED BY <2>1, <2>2
<1> QED
  BY <1>4, <1>7 DEF SlotInv, SlotsAreExact

\* A bridge that ends gives back one slot.
LEMMA SlotGiven ==
    ASSUME SlotInv, TypeInv, NEW c \in Conns, at[c] \in Bridging, BridgeEnds(c)
    PROVE  SlotInv'
<1>0. Of[c] \in Forwards /\ Of \in [Conns -> Forwards] /\ MaxConnections \in Nat
  BY ForwardsAssumption
<1>a. at' = [at EXCEPT ![c] = "ended"] /\ active' = [active EXCEPT ![Of[c]] = @ - 1]
  BY DEF BridgeEnds
<1>1. Bridged(Of[c])' = Bridged(Of[c]) \ {c} /\ c \in Bridged(Of[c])
  BY <1>a DEF Bridged, Bridging, TypeInv
<1>2. \A f \in Forwards \ {Of[c]} : Bridged(f)' = Bridged(f)
  BY <1>a DEF Bridged, Bridging, TypeInv
<1>3. Cardinality(Bridged(Of[c])') = Cardinality(Bridged(Of[c])) - 1
  <2>1. IsFiniteSet(Bridged(Of[c]))
    BY <1>0, BridgedFinite
  <2>2. Cardinality(Bridged(Of[c]) \ {c}) = Cardinality(Bridged(Of[c])) - 1
    BY <2>1, <1>1, FS_RemoveElement
  <2> QED BY <2>2, <1>1
<1>4. active' \in [Forwards -> Int]
  BY <1>0, <1>a DEF SlotInv
<1>5. active'[Of[c]] = active[Of[c]] - 1 /\ \A f \in Forwards \ {Of[c]} : active'[f] = active[f]
  BY <1>0, <1>a DEF SlotInv
<1>7. ASSUME NEW f \in Forwards
      PROVE  active'[f] = Cardinality(Bridged(f)') /\ active'[f] <= MaxConnections
  <2>0. active[f] \in Int /\ active[f] <= MaxConnections /\ active[f] = Cardinality(Bridged(f))
    BY DEF SlotInv, SlotsAreExact
  <2>1. CASE f = Of[c]
    BY <2>0, <2>1, <1>0, <1>3, <1>5
  <2>2. CASE f # Of[c]
    BY <2>0, <2>2, <1>2, <1>5
  <2> QED BY <2>1, <2>2
<1> QED
  BY <1>4, <1>7 DEF SlotInv, SlotsAreExact
-----------------------------------------------------------------------------
(* Steps. *)

\* The head of a queue is one of the connections that wait there.
LEMMA HeadIsQueued ==
    ASSUME TypeInv, QueueInv, NEW f \in Remote, queue[f] # <<>>
    PROVE  /\ Head(queue[f]) \in Conns
           /\ at[Head(queue[f])] = "queued"
           /\ Of[Head(queue[f])] = f
<1>1. queue[f] \in Seq(Conns) /\ Len(queue[f]) \in Nat /\ Len(queue[f]) # 0
  BY DEF TypeInv
<1>2. 1 \in 1..Len(queue[f]) /\ Head(queue[f]) = queue[f][1]
  BY <1>1
<1>3. queue[f][1] \in Conns
  BY <1>1, <1>2
<1> QED BY <1>2, <1>3 DEF QueueInv

\* A copy that starts, moves bytes, ends a direction, is sampled or grows older
\* is a copy, and its clock is right.
ClockRight(k) == k \in CopyType /\ (k.moved \/ k.timer <= k.quiet)

LEMMA NewCopyRight == ClockRight(NewCopy)
<1>1. Idle \in Nat
  BY ForwardsAssumption
<1>2. NewCopy.dir \in [Dirs -> {"reading", "draining", "ended"}]
  BY DEF NewCopy
<1>3. 0 \in 0..Idle
  BY <1>1
<1> QED BY <1>2, <1>3 DEF ClockRight, CopyType, NewCopy

LEMMA MovesRight ==
    ASSUME NEW k \in CopyType, NEW d \in Dirs, NEW v \in {"reading", "draining", "ended"}
    PROVE  ClockRight(Moves(k, d, v))
<1>1. Idle \in Nat
  BY ForwardsAssumption
<1>2. [k.dir EXCEPT ![d] = v] \in [Dirs -> {"reading", "draining", "ended"}]
  BY DEF CopyType
<1>3. 0 \in 0..Idle
  BY <1>1
<1>4. Moves(k, d, v) \in CopyType
  BY <1>2, <1>3 DEF Moves, CopyType
<1>5. Moves(k, d, v).moved
  BY DEF Moves, CopyType
<1> QED BY <1>4, <1>5 DEF ClockRight

LEMMA AgedRight ==
    ASSUME NEW k, ClockRight(k)
    PROVE  ClockRight(Aged(k))
<1>1. Idle \in Nat
  BY ForwardsAssumption
<1>2. k.timer \in 0..Idle /\ k.quiet \in 0..Idle
  BY DEF ClockRight, CopyType
<1>3. Older(k.timer) \in 0..Idle /\ Older(k.quiet) \in 0..Idle
      /\ (k.timer <= k.quiet => Older(k.timer) <= Older(k.quiet))
  BY <1>1, <1>2 DEF Older
<1>4. Aged(k) \in CopyType
  BY <1>3 DEF Aged, ClockRight, CopyType
<1>5. Aged(k).timer = Older(k.timer) /\ Aged(k).quiet = Older(k.quiet)
  BY DEF Aged, ClockRight, CopyType
<1>6. Aged(k).moved = k.moved
  BY DEF Aged, ClockRight, CopyType
<1> QED BY <1>3, <1>4, <1>5, <1>6 DEF ClockRight

LEMMA EndedRight ==
    ASSUME NEW k, ClockRight(k), NEW d \in Dirs
    PROVE  ClockRight([k EXCEPT !.dir[d] = "ended"])
<1>1. [k.dir EXCEPT ![d] = "ended"] \in [Dirs -> {"reading", "draining", "ended"}]
  BY DEF CopyType, ClockRight
<1>2. [k EXCEPT !.dir[d] = "ended"] =
          [dir |-> [k.dir EXCEPT ![d] = "ended"], moved |-> k.moved,
           timer |-> k.timer, quiet |-> k.quiet]
  BY DEF CopyType, ClockRight
<1> QED BY <1>1, <1>2 DEF ClockRight, CopyType

LEMMA SampledRight ==
    ASSUME NEW k, ClockRight(k)
    PROVE  ClockRight([k EXCEPT !.moved = FALSE, !.timer = 0])
<1>1. Idle \in Nat
  BY ForwardsAssumption
<1>2. k.quiet \in 0..Idle /\ 0 \in 0..Idle /\ 0 <= k.quiet
  BY <1>1 DEF ClockRight, CopyType
<1>3. [k EXCEPT !.moved = FALSE, !.timer = 0] \in CopyType
  BY <1>2 DEF ClockRight, CopyType
<1>4. /\ [k EXCEPT !.moved = FALSE, !.timer = 0].timer = 0
      /\ [k EXCEPT !.moved = FALSE, !.timer = 0].quiet = k.quiet
  BY DEF ClockRight, CopyType
<1> QED BY <1>2, <1>3, <1>4 DEF ClockRight

LEMMA ClockKept ==
    ASSUME ClockInv, NEW c \in Conns, NEW k, ClockRight(k), copy' = [copy EXCEPT ![c] = k]
    PROVE  ClockInv'
  BY DEF ClockInv, ClockRight

\* A connection that is neither queued nor held, before and after, disturbs
\* no queue and no route.
LEMMA QueueKept ==
    ASSUME TypeInv, QueueInv, UNCHANGED <<queue, russh>>,
           NEW c \in Conns, at[c] \notin {"queued", "held"},
           NEW v, v \notin {"queued", "held"}, at' = [at EXCEPT ![c] = v]
    PROVE  QueueInv'
<1>1. \A n \in Conns : at[n] \in {"queued", "held"} => at'[n] = at[n]
  BY DEF TypeInv
<1>2. \A n \in Conns : at'[n] \in {"queued", "held"} => at[n] = at'[n]
  BY DEF TypeInv
<1>3. \A f \in Remote : \A i \in 1..Len(queue[f]) : queue[f][i] \in Conns
  BY DEF TypeInv
<1> QED BY <1>1, <1>2, <1>3 DEF QueueInv

LEMMA RouteKept ==
    ASSUME TypeInv, RouteInv, UNCHANGED <<route, loop>>,
           NEW c \in Conns,
           NEW v, v \notin {"queued", "held"}, at' = [at EXCEPT ![c] = v]
    PROVE  RouteInv'
<1>1. \A n \in Conns : at'[n] \in {"queued", "held"} => at[n] = at'[n]
  BY DEF TypeInv
<1> QED BY <1>1 DEF RouteInv

\* A step keeps the types.
LEMMA TypeStep ==
    ASSUME TypeInv, Next
    PROVE  TypeInv'
<1>1. ASSUME NEW f \in Forwards, ForwardStep(f)
      PROVE  TypeInv'
  <2>1. CASE OpenLocal(f)
    BY <2>1, ForwardsAssumption DEF TypeInv, OpenLocal
  <2>2. CASE OpenFails(f)
    BY <2>2, ForwardsAssumption DEF TypeInv, OpenFails
  <2>3. CASE Register(f)
    BY <2>3, ForwardsAssumption DEF TypeInv, Register
  <2>4. CASE LockToOpen(f)
    BY <2>4, ForwardsAssumption DEF TypeInv, LockToOpen, Lock
  <2>5. CASE Opened(f)
    BY <2>5, ForwardsAssumption DEF TypeInv, Opened, Unlock
  <2>6. CASE OpenRefused(f)
    BY <2>6, ForwardsAssumption DEF TypeInv, OpenRefused, Unlock
  <2>7. CASE Rekey(f)
    BY <2>7, ForwardsAssumption DEF TypeInv, Rekey
  <2>8. CASE CloseSeen(f)
    BY <2>8, ForwardsAssumption DEF TypeInv, CloseSeen
  <2>9. CASE LockToCancel(f)
    BY <2>9, ForwardsAssumption DEF TypeInv, LockToCancel, Lock
  <2>10. CASE Cancelled(f)
    <3>1. at' \in [Conns -> {"new", "held", "queued", "dialing", "asking", "waiting",
                             "requesting", "copying", "ended"}]
      BY <2>10 DEF TypeInv, Cancelled
    <3>2. <<>> \in Seq(Conns) /\ queue' = [queue EXCEPT ![f] = <<>>]
      BY <2>10 DEF Cancelled
    <3>3. queue' \in [Remote -> Seq(Conns)]
      BY <3>2 DEF TypeInv
    <3> QED BY <2>10, <3>1, <3>3 DEF TypeInv, Cancelled, Unlock
  <2>11. ASSUME NEW b \in BOOLEAN, f \in Remote, Serve(f, b)
        PROVE  TypeInv'
    <3>1. queue[f] \in Seq(Conns) /\ queue[f] # <<>>
      BY <2>11 DEF TypeInv, Serve
    <3>2. Head(queue[f]) \in Conns /\ Tail(queue[f]) \in Seq(Conns)
      BY <3>1
    <3>3. at' \in [Conns -> {"new", "held", "queued", "dialing", "asking", "waiting",
                             "requesting", "copying", "ended"}]
      BY <2>11, <3>2 DEF TypeInv, Serve
    <3>4. queue' \in [Remote -> Seq(Conns)]
      BY <2>11, <3>2 DEF TypeInv, Serve
    <3>5. loop' \in [Forwards -> {"absent", "registered", "requesting", "rekeying", "running",
                                  "refusing", "leaving", "cancelling", "stopped"}]
      BY <2>11 DEF TypeInv, Serve
    <3> QED BY <2>11, <3>3, <3>4, <3>5 DEF TypeInv, Serve
  <2>12. CASE Refused(f)
    BY <2>12 DEF TypeInv, Refused
  <2> QED BY <1>1, <2>1, <2>2, <2>3, <2>4, <2>5, <2>6, <2>7, <2>8, <2>9, <2>10,
      <2>11, <2>12 DEF ForwardStep
<1>2. ASSUME NEW c \in Conns, ConnStep(c)
      PROVE  TypeInv'
  <2>1. CASE Offer(c)
    BY <2>1, ForwardsAssumption DEF TypeInv, Offer
  <2>2. CASE HandlerGoesOn(c)
    <3>1. ASSUME loop[Of[c]] # "stopped", Of[c] \in Remote
          PROVE  Append(queue[Of[c]], c) \in Seq(Conns)
      BY <3>1 DEF TypeInv
    <3>2. queue' \in [Remote -> Seq(Conns)]
      BY <2>2, <3>1 DEF TypeInv, HandlerGoesOn
    <3>3. at' \in [Conns -> {"new", "held", "queued", "dialing", "asking", "waiting",
                             "requesting", "copying", "ended"}]
      BY <2>2 DEF TypeInv, HandlerGoesOn
    <3> QED BY <2>2, <3>2, <3>3 DEF TypeInv, HandlerGoesOn
  <2>3. CASE LockToBridge(c)
    BY <2>3, ForwardsAssumption DEF TypeInv, LockToBridge, Lock
  <2>4. ASSUME NEW b \in BOOLEAN, Accept(c, b)
        PROVE  TypeInv'
    BY <2>4, ForwardsAssumption DEF TypeInv, Accept
  <2>5. ASSUME NEW b \in BOOLEAN, Dialed(c, b)
        PROVE  TypeInv'
    BY <2>5, ForwardsAssumption DEF TypeInv, Dialed, BridgeEnds, Copies
  <2>6. ASSUME NEW b \in BOOLEAN, Asked(c, b)
        PROVE  TypeInv'
    BY <2>6, ForwardsAssumption DEF TypeInv, Asked, BridgeEnds
  <2>7. ASSUME NEW b \in BOOLEAN, ChannelOpen(c, b)
        PROVE  TypeInv'
    BY <2>7, ForwardsAssumption DEF TypeInv, ChannelOpen, Unlock, BridgeEnds,
        Copies
  <2>8. CASE CopyEnds(c)
    BY <2>8, ForwardsAssumption DEF TypeInv, CopyEnds, BridgeEnds
  <2>9. CASE Watchdog(c)
    BY <2>9, ForwardsAssumption DEF TypeInv, Watchdog, BridgeEnds
  <2>10. CASE (\E d \in Dirs : ReadChunk(c, d))
             \/ (\E d \in Dirs : ReadEnds(c, d))
             \/ (\E d \in Dirs, b \in BOOLEAN : ChunkDone(c, d, b))
    <3>1. UNCHANGED <<russh, lock, route, queue, loop, closing, at, probe, sess>>
      BY <2>10 DEF ChunkDone, ReadChunk, ReadEnds
    <3> QED BY <3>1 DEF TypeInv
  <2> QED BY <1>2, <2>1, <2>2, <2>3, <2>4, <2>5, <2>6, <2>7, <2>8, <2>9, <2>10 DEF
      ConnStep
<1>3. CASE SupervisorStep
  <2>1. CASE AllOpened
    BY <2>1, ForwardsAssumption DEF TypeInv, AllOpened
  <2>2. CASE RequiredMissing
    BY <2>2, ForwardsAssumption DEF TypeInv, RequiredMissing
  <2>3. CASE ProbeStarts
    BY <2>3, ForwardsAssumption DEF TypeInv, ProbeStarts, Prober
  <2>4. CASE LockToProbe
    BY <2>4, ForwardsAssumption DEF TypeInv, LockToProbe, Lock, Prober
  <2>5. CASE ProbeAnswered
    BY <2>5, ForwardsAssumption DEF TypeInv, ProbeAnswered, Unlock, Prober
  <2>6. CASE ProbeTimesOut
    BY <2>6, ForwardsAssumption DEF TypeInv, ProbeTimesOut, Prober
  <2>7. CASE StopRunners
    BY <2>7, ForwardsAssumption DEF TypeInv, StopRunners
  <2>8. CASE RunnersStopped
    BY <2>8, ForwardsAssumption DEF TypeInv, RunnersStopped
  <2>9. CASE LockToClose
    BY <2>9, ForwardsAssumption DEF TypeInv, LockToClose, Lock, Closer
  <2>10. CASE Disconnected
    BY <2>10, ForwardsAssumption DEF TypeInv, Disconnected, Unlock, Closer
  <2>11. CASE CloseTimesOut
    BY <2>11, ForwardsAssumption DEF TypeInv, CloseTimesOut, Closer
  <2> QED BY <1>3, <2>1, <2>2, <2>3, <2>4, <2>5, <2>6, <2>7, <2>8, <2>9, <2>10,
      <2>11 DEF SupervisorStep
<1>4. CASE Tick \/ RusshEnds \/ Finished
  <2>1. CASE RusshEnds
    BY <2>1, ForwardsAssumption DEF TypeInv, RusshEnds
  <2>2. CASE Tick \/ Finished
    <3>1. UNCHANGED <<russh, lock, route, queue, loop, closing, at, probe, sess>>
      BY <2>2 DEF Finished, Tick, vars
    <3> QED BY <3>1 DEF TypeInv
  <2> QED BY <1>4, <2>1, <2>2
<1> QED BY <1>1, <1>2, <1>3, <1>4 DEF Next
\* A step leaves the handle with whoever awaits a request on it.
LEMMA LockStep ==
    ASSUME TypeInv, LockInv, QueueInv, Next
    PROVE  LockInv'
<1>1. ASSUME NEW f \in Forwards, ForwardStep(f)
      PROVE  LockInv'
  <2>1. CASE OpenLocal(f)
    BY <2>1, ForwardsAssumption DEF LockInv, TypeInv, OpenLocal, Opening,
        Prober, Closer
  <2>2. CASE OpenFails(f)
    BY <2>2, ForwardsAssumption DEF LockInv, TypeInv, OpenFails, Opening,
        Prober, Closer
  <2>3. CASE Register(f)
    BY <2>3, ForwardsAssumption DEF LockInv, TypeInv, Register, Opening, Prober,
        Closer
  <2>4. CASE LockToOpen(f)
    BY <2>4, ForwardsAssumption DEF LockInv, TypeInv, LockToOpen, Lock, Prober,
        Closer
  <2>5. CASE Opened(f)
    BY <2>5, ForwardsAssumption DEF LockInv, TypeInv, Opened, Unlock, Prober,
        Closer
  <2>6. CASE OpenRefused(f)
    BY <2>6, ForwardsAssumption DEF LockInv, TypeInv, OpenRefused, Unlock,
        Prober, Closer
  <2>7. CASE Rekey(f)
    BY <2>7, ForwardsAssumption DEF LockInv, TypeInv, Rekey, Prober, Closer
  <2>8. CASE CloseSeen(f)
    BY <2>8, ForwardsAssumption DEF LockInv, TypeInv, CloseSeen, Prober, Closer
  <2>9. CASE LockToCancel(f)
    BY <2>9, ForwardsAssumption DEF LockInv, TypeInv, LockToCancel, Lock,
        Prober, Closer
  <2>10. CASE Cancelled(f)
    BY <2>10, ForwardsAssumption DEF LockInv, TypeInv, Cancelled, Unlock,
        Prober, Closer
  <2>11. ASSUME NEW b \in BOOLEAN, f \in Remote, Serve(f, b)
        PROVE  LockInv'
    <3>1. Head(queue[f]) \in Conns /\ at[Head(queue[f])] = "queued"
      BY <2>11, HeadIsQueued DEF Serve
    <3>2. UNCHANGED <<lock, probe, sess>>
          /\ \A n \in Conns : at[n] = "requesting" <=> at'[n] = "requesting"
      BY <2>11, <3>1 DEF Serve, TypeInv
    <3>3. \A g \in Forwards : loop[g] \in {"requesting", "cancelling"}
                             <=> loop'[g] \in {"requesting", "cancelling"}
      BY <2>11 DEF Serve, TypeInv
    <3> QED BY <3>2, <3>3 DEF LockInv
  <2>12. CASE Refused(f)
    BY <2>12 DEF LockInv, TypeInv, Refused
  <2> QED BY <1>1, <2>1, <2>2, <2>3, <2>4, <2>5, <2>6, <2>7, <2>8, <2>9, <2>10,
      <2>11, <2>12 DEF ForwardStep
<1>2. ASSUME NEW c \in Conns, ConnStep(c)
      PROVE  LockInv'
  <2>1. CASE Offer(c)
    BY <2>1, ForwardsAssumption DEF LockInv, TypeInv, Offer, Prober, Closer
  <2>2. CASE HandlerGoesOn(c)
    BY <2>2, ForwardsAssumption DEF LockInv, TypeInv, HandlerGoesOn, QueueInv,
        Prober, Closer
  <2>3. CASE LockToBridge(c)
    BY <2>3, ForwardsAssumption DEF LockInv, TypeInv, LockToBridge, Lock,
        Prober, Closer
  <2>4. ASSUME NEW b \in BOOLEAN, Accept(c, b)
        PROVE  LockInv'
    BY <2>4, ForwardsAssumption DEF LockInv, TypeInv, Accept, Prober, Closer
  <2>5. ASSUME NEW b \in BOOLEAN, Dialed(c, b)
        PROVE  LockInv'
    BY <2>5, ForwardsAssumption DEF LockInv, TypeInv, Dialed, BridgeEnds,
        Copies, Prober, Closer
  <2>6. ASSUME NEW b \in BOOLEAN, Asked(c, b)
        PROVE  LockInv'
    BY <2>6, ForwardsAssumption DEF LockInv, TypeInv, Asked, BridgeEnds, Prober,
        Closer
  <2>7. ASSUME NEW b \in BOOLEAN, ChannelOpen(c, b)
        PROVE  LockInv'
    BY <2>7, ForwardsAssumption DEF LockInv, TypeInv, ChannelOpen, Unlock,
        BridgeEnds, Copies, Prober, Closer
  <2>8. CASE CopyEnds(c)
    BY <2>8, ForwardsAssumption DEF LockInv, TypeInv, CopyEnds, BridgeEnds,
        Copying, Dirs, Prober, Closer
  <2>9. CASE Watchdog(c)
    BY <2>9, ForwardsAssumption DEF LockInv, TypeInv, Watchdog, BridgeEnds,
        Prober, Closer
  <2>10. CASE (\E d \in Dirs : ReadChunk(c, d))
             \/ (\E d \in Dirs : ReadEnds(c, d))
             \/ (\E d \in Dirs, b \in BOOLEAN : ChunkDone(c, d, b))
    <3>1. UNCHANGED <<loop, lock, at, probe, sess>>
      BY <2>10 DEF ChunkDone, ReadChunk, ReadEnds
    <3> QED BY <3>1 DEF LockInv
  <2> QED BY <1>2, <2>1, <2>2, <2>3, <2>4, <2>5, <2>6, <2>7, <2>8, <2>9, <2>10 DEF
      ConnStep
<1>3. CASE SupervisorStep
  <2>1. CASE AllOpened
    BY <2>1, ForwardsAssumption DEF LockInv, TypeInv, AllOpened, Prober, Closer
  <2>2. CASE RequiredMissing
    BY <2>2, ForwardsAssumption DEF LockInv, TypeInv, RequiredMissing, Prober,
        Closer
  <2>3. CASE ProbeStarts
    BY <2>3, ForwardsAssumption DEF LockInv, TypeInv, ProbeStarts, Prober,
        Closer
  <2>4. CASE LockToProbe
    BY <2>4, ForwardsAssumption DEF LockInv, TypeInv, LockToProbe, Lock, Prober,
        Closer
  <2>5. CASE ProbeAnswered
    BY <2>5, ForwardsAssumption DEF LockInv, TypeInv, ProbeAnswered, Unlock,
        Prober, Closer
  <2>6. CASE ProbeTimesOut
    BY <2>6, ForwardsAssumption DEF LockInv, TypeInv, ProbeTimesOut, Prober,
        Closer
  <2>7. CASE StopRunners
    BY <2>7, ForwardsAssumption DEF LockInv, TypeInv, StopRunners, Prober,
        Closer
  <2>8. CASE RunnersStopped
    BY <2>8, ForwardsAssumption DEF LockInv, TypeInv, RunnersStopped, Prober,
        Closer
  <2>9. CASE LockToClose
    BY <2>9, ForwardsAssumption DEF LockInv, TypeInv, LockToClose, Lock, Prober,
        Closer
  <2>10. CASE Disconnected
    BY <2>10, ForwardsAssumption DEF LockInv, TypeInv, Disconnected, Unlock,
        Prober, Closer
  <2>11. CASE CloseTimesOut
    BY <2>11, ForwardsAssumption DEF LockInv, TypeInv, CloseTimesOut, Prober,
        Closer
  <2> QED BY <1>3, <2>1, <2>2, <2>3, <2>4, <2>5, <2>6, <2>7, <2>8, <2>9, <2>10,
      <2>11 DEF SupervisorStep
<1>4. CASE Tick \/ RusshEnds \/ Finished
  <2>1. CASE Tick \/ RusshEnds \/ Finished
    <3>1. UNCHANGED <<loop, lock, at, probe, sess>>
      BY <2>1 DEF Finished, RusshEnds, Tick, vars
    <3> QED BY <3>1 DEF LockInv
  <2> QED BY <1>4, <2>1
<1> QED BY <1>1, <1>2, <1>3, <1>4 DEF Next
\* A step keeps the timer of a watchdog within the silence it has seen.
LEMMA ClockStep ==
    ASSUME ClockInv, Next
    PROVE  ClockInv'
<1>1. ASSUME NEW f \in Forwards, ForwardStep(f)
      PROVE  ClockInv'
  <2>1. CASE OpenLocal(f) \/ OpenFails(f) \/ Register(f) \/ LockToOpen(f)
             \/ Opened(f) \/ OpenRefused(f) \/ Rekey(f) \/ CloseSeen(f)
             \/ LockToCancel(f) \/ Cancelled(f) \/ Refused(f)
             \/ (f \in Remote /\ \E b \in BOOLEAN : Serve(f, b))
    <3>1. UNCHANGED copy
      BY <2>1 DEF Cancelled, CloseSeen, LockToCancel, LockToOpen, OpenFails,
          OpenLocal, OpenRefused, Opened, Refused, Register, Rekey, Serve
    <3> QED BY <3>1 DEF ClockInv
  <2> QED BY <1>1, <2>1 DEF ForwardStep
<1>2. ASSUME NEW c \in Conns, ConnStep(c)
      PROVE  ClockInv'
  <2>1. ASSUME NEW b \in BOOLEAN, Dialed(c, b)
        PROVE  ClockInv'
    <3>1. UNCHANGED copy \/ copy' = [copy EXCEPT ![c] = NewCopy]
      BY <2>1 DEF Dialed, BridgeEnds, Copies
    <3>2. CASE UNCHANGED copy
      BY <3>2 DEF ClockInv
    <3>3. CASE copy' = [copy EXCEPT ![c] = NewCopy]
      BY <3>3, NewCopyRight, ClockKept
    <3> QED BY <3>1, <3>2, <3>3
  <2>2. ASSUME NEW b \in BOOLEAN, Asked(c, b)
        PROVE  ClockInv'
    <3>1. UNCHANGED copy \/ copy' = [copy EXCEPT ![c] = NewCopy]
      BY <2>2 DEF Asked, BridgeEnds
    <3>2. CASE UNCHANGED copy
      BY <3>2 DEF ClockInv
    <3>3. CASE copy' = [copy EXCEPT ![c] = NewCopy]
      BY <3>3, NewCopyRight, ClockKept
    <3> QED BY <3>1, <3>2, <3>3
  <2>3. ASSUME NEW b \in BOOLEAN, ChannelOpen(c, b)
        PROVE  ClockInv'
    <3>1. UNCHANGED copy \/ copy' = [copy EXCEPT ![c] = NewCopy]
      BY <2>3 DEF ChannelOpen, Unlock, BridgeEnds, Copies
    <3>2. CASE UNCHANGED copy
      BY <3>2 DEF ClockInv
    <3>3. CASE copy' = [copy EXCEPT ![c] = NewCopy]
      BY <3>3, NewCopyRight, ClockKept
    <3> QED BY <3>1, <3>2, <3>3
  <2>4. ASSUME NEW d \in Dirs, ReadChunk(c, d)
        PROVE  ClockInv'
    <3>1. copy[c] \in CopyType
      BY DEF ClockInv
    <3>2. copy' = [copy EXCEPT ![c] = Moves(copy[c], d, "draining")]
      BY <2>4 DEF ReadChunk
    <3> QED BY <3>1, <3>2, MovesRight, ClockKept
  <2>5. ASSUME NEW d \in Dirs, ReadEnds(c, d)
        PROVE  ClockInv'
    <3>1. ClockRight(copy[c])
      BY DEF ClockInv, ClockRight
    <3>2. copy' = [copy EXCEPT ![c] = [copy[c] EXCEPT !.dir[d] = "ended"]]
      BY <2>5 DEF ReadEnds
    <3> QED BY <3>1, <3>2, EndedRight, ClockKept
  <2>6. ASSUME NEW d \in Dirs, NEW b \in BOOLEAN, ChunkDone(c, d, b)
        PROVE  ClockInv'
    <3>1. copy[c] \in CopyType
      BY DEF ClockInv
    <3>2. copy' = [copy EXCEPT ![c] = Moves(copy[c], d, IF b THEN "reading" ELSE "ended")]
      BY <2>6 DEF ChunkDone
    <3> QED BY <3>1, <3>2, MovesRight, ClockKept
  <2>7. CASE CopyEnds(c)
    <3>1. UNCHANGED copy \/ copy' = [copy EXCEPT ![c] = NewCopy]
      BY <2>7 DEF CopyEnds, BridgeEnds
    <3>2. CASE UNCHANGED copy
      BY <3>2 DEF ClockInv
    <3>3. CASE copy' = [copy EXCEPT ![c] = NewCopy]
      BY <3>3, NewCopyRight, ClockKept
    <3> QED BY <3>1, <3>2, <3>3
  <2>8. CASE Watchdog(c)
    <3>1. ClockRight(copy[c])
      BY DEF ClockInv, ClockRight
    <3>2. CASE IsIdle(copy[c])
      BY <2>8, <3>2, NewCopyRight, ClockKept DEF Watchdog, BridgeEnds
    <3>3. CASE ~IsIdle(copy[c])
      <4>1. copy' = [copy EXCEPT ![c] = [copy[c] EXCEPT !.moved = FALSE, !.timer = 0]]
        BY <2>8, <3>3 DEF Watchdog, ClockInv, CopyType
      <4> QED BY <3>1, <4>1, SampledRight, ClockKept
    <3> QED BY <3>2, <3>3
  <2>9. CASE Offer(c) \/ HandlerGoesOn(c) \/ LockToBridge(c)
             \/ (\E b \in BOOLEAN : Accept(c, b))
    <3>1. UNCHANGED copy
      BY <2>9 DEF Accept, HandlerGoesOn, LockToBridge, Offer
    <3> QED BY <3>1 DEF ClockInv
  <2> QED BY <1>2, <2>1, <2>2, <2>3, <2>4, <2>5, <2>6, <2>7, <2>8, <2>9 DEF
      ConnStep
<1>3. CASE SupervisorStep
  <2>1. CASE AllOpened \/ RequiredMissing \/ ProbeStarts \/ LockToProbe
             \/ ProbeAnswered \/ ProbeTimesOut \/ StopRunners \/ RunnersStopped
             \/ LockToClose \/ Disconnected \/ CloseTimesOut
    <3>1. UNCHANGED copy
      BY <2>1 DEF AllOpened, CloseTimesOut, Disconnected, LockToClose,
          LockToProbe, ProbeAnswered, ProbeStarts, ProbeTimesOut,
          RequiredMissing, RunnersStopped, StopRunners
    <3> QED BY <3>1 DEF ClockInv
  <2> QED BY <1>3, <2>1 DEF SupervisorStep
<1>4. CASE Tick \/ RusshEnds \/ Finished
  <2>1. CASE Tick
    <3>1. \A c \in Conns : ClockRight(copy[c])
      BY DEF ClockInv, ClockRight
    <3>2. \A c \in Conns : ClockRight(Aged(copy[c]))
      BY <3>1, AgedRight
    <3>3. copy' = [c \in Conns |-> IF at[c] = "copying" THEN Aged(copy[c]) ELSE copy[c]]
      BY <2>1 DEF Tick
    <3> QED BY <3>1, <3>2, <3>3 DEF ClockInv, ClockRight
  <2>2. CASE RusshEnds \/ Finished
    <3>1. UNCHANGED copy
      BY <2>2 DEF Finished, RusshEnds, vars
    <3> QED BY <3>1 DEF ClockInv
  <2> QED BY <1>4, <2>1, <2>2
<1> QED BY <1>1, <1>2, <1>3, <1>4 DEF Next
\* A step counts each bridge once, from its admission to its end.
LEMMA SlotStep ==
    ASSUME TypeInv, QueueInv, SlotInv, Next
    PROVE  SlotInv'
<1>1. ASSUME NEW f \in Forwards, ForwardStep(f)
      PROVE  SlotInv'
  <2>1. CASE Cancelled(f)
    <3>1. UNCHANGED active /\ \A n \in Conns : at'[n] \in Bridging <=> at[n] \in Bridging
      BY <2>1 DEF TypeInv, Bridging, Cancelled
    <3> QED BY <3>1, SlotsStay
  <2>2. ASSUME NEW b \in BOOLEAN, f \in Remote, Serve(f, b)
        PROVE  SlotInv'
    <3> DEFINE h == Head(queue[f])
    <3>1. h \in Conns /\ at[h] = "queued" /\ Of[h] = f
      BY <2>2, HeadIsQueued DEF Serve
    <3>2. CASE b
      <4>1. /\ at' = [at EXCEPT ![h] = "dialing"]
            /\ active' = [active EXCEPT ![Of[h]] = @ + 1]
            /\ RoomFor(Of[h])
        BY <2>2, <3>1, <3>2 DEF Serve
      <4>2. at[h] \notin Bridging /\ "dialing" \in Bridging
        BY <3>1 DEF Bridging
      <4> HIDE DEF h
      <4> QED BY <3>1, <4>1, <4>2, SlotTaken
    <3>3. CASE ~b
      <4>1. UNCHANGED active /\ at' = [at EXCEPT ![h] = "ended"]
        BY <2>2, <3>3 DEF Serve
      <4>2. \A n \in Conns : at'[n] \in Bridging <=> at[n] \in Bridging
        BY <3>1, <4>1 DEF TypeInv, Bridging
      <4> QED BY <4>1, <4>2, SlotsStay
    <3> QED BY <3>2, <3>3
  <2>3. CASE OpenLocal(f) \/ OpenFails(f) \/ Register(f) \/ LockToOpen(f)
             \/ Opened(f) \/ OpenRefused(f) \/ Rekey(f) \/ CloseSeen(f)
             \/ LockToCancel(f) \/ Refused(f)
    <3>1. UNCHANGED <<active, at>>
      BY <2>3 DEF CloseSeen, LockToCancel, LockToOpen, OpenFails, OpenLocal,
          OpenRefused, Opened, Refused, Register, Rekey
    <3> QED BY <3>1 DEF SlotInv, SlotsAreExact, Bridged
  <2> QED BY <1>1, <2>1, <2>2, <2>3 DEF ForwardStep
<1>2. ASSUME NEW c \in Conns, ConnStep(c)
      PROVE  SlotInv'
  <2>1. CASE Offer(c)
    <3>1. UNCHANGED active /\ \A n \in Conns : at'[n] \in Bridging <=> at[n] \in Bridging
      BY <2>1 DEF TypeInv, Bridging, Offer
    <3> QED BY <3>1, SlotsStay
  <2>2. CASE HandlerGoesOn(c)
    <3>1. UNCHANGED active /\ \A n \in Conns : at'[n] \in Bridging <=> at[n] \in Bridging
      BY <2>2 DEF TypeInv, Bridging, HandlerGoesOn, QueueInv
    <3> QED BY <3>1, SlotsStay
  <2>3. CASE LockToBridge(c)
    <3>1. UNCHANGED active /\ \A n \in Conns : at'[n] \in Bridging <=> at[n] \in Bridging
      BY <2>3 DEF TypeInv, Bridging, LockToBridge
    <3> QED BY <3>1, SlotsStay
  <2>4. ASSUME NEW b \in BOOLEAN, Accept(c, b)
        PROVE  SlotInv'
    <3>1. CASE b
      <4> DEFINE v == IF Of[c] \in Dynamic THEN "asking" ELSE "waiting"
      <4>1. /\ at' = [at EXCEPT ![c] = v]
            /\ active' = [active EXCEPT ![Of[c]] = @ + 1]
            /\ RoomFor(Of[c])
        BY <2>4, <3>1 DEF Accept
      <4>2. at[c] \notin Bridging /\ v \in Bridging
        BY <2>4 DEF Accept, Bridging
      <4> HIDE DEF v
      <4> QED BY <4>1, <4>2, SlotTaken
    <3>2. CASE ~b
      <4>1. UNCHANGED active /\ at' = [at EXCEPT ![c] = "ended"] /\ at[c] = "new"
        BY <2>4, <3>2 DEF Accept
      <4>2. \A n \in Conns : at'[n] \in Bridging <=> at[n] \in Bridging
        BY <4>1 DEF TypeInv, Bridging
      <4> QED BY <4>1, <4>2, SlotsStay
    <3> QED BY <3>1, <3>2
  <2>5. ASSUME NEW b \in BOOLEAN, Dialed(c, b)
        PROVE  SlotInv'
    <3>1. CASE ~b
      <4>1. at[c] \in Bridging /\ BridgeEnds(c)
        BY <2>5, <3>1 DEF Dialed, Bridging
      <4> QED BY <4>1, SlotGiven
    <3>2. CASE b
      <4>1. UNCHANGED active /\ \A n \in Conns : at'[n] \in Bridging <=> at[n] \in Bridging
        BY <2>5, <3>2 DEF Dialed, Bridging, TypeInv, Copies
      <4> QED BY <4>1, SlotsStay
    <3> QED BY <3>1, <3>2
  <2>6. ASSUME NEW b \in BOOLEAN, Asked(c, b)
        PROVE  SlotInv'
    <3>1. CASE ~b
      <4>1. at[c] \in Bridging /\ BridgeEnds(c)
        BY <2>6, <3>1 DEF Asked, Bridging
      <4> QED BY <4>1, SlotGiven
    <3>2. CASE b
      <4>1. UNCHANGED active /\ \A n \in Conns : at'[n] \in Bridging <=> at[n] \in Bridging
        BY <2>6, <3>2 DEF Asked, Bridging, TypeInv
      <4> QED BY <4>1, SlotsStay
    <3> QED BY <3>1, <3>2
  <2>7. ASSUME NEW b \in BOOLEAN, ChannelOpen(c, b)
        PROVE  SlotInv'
    <3>1. CASE ~b
      <4>1. at[c] \in Bridging /\ BridgeEnds(c)
        BY <2>7, <3>1 DEF ChannelOpen, Bridging
      <4> QED BY <4>1, SlotGiven
    <3>2. CASE b
      <4>1. UNCHANGED active /\ \A n \in Conns : at'[n] \in Bridging <=> at[n] \in Bridging
        BY <2>7, <3>2 DEF ChannelOpen, Bridging, TypeInv, Copies
      <4> QED BY <4>1, SlotsStay
    <3> QED BY <3>1, <3>2
  <2>8. CASE CopyEnds(c)
    <3>1. at[c] \in Bridging /\ BridgeEnds(c)
      BY <2>8 DEF CopyEnds, Copying, Dirs, Bridging
    <3> QED BY <3>1, SlotGiven
  <2>9. CASE Watchdog(c)
    <3>1. CASE IsIdle(copy[c])
      <4>1. at[c] \in Bridging /\ BridgeEnds(c)
        BY <2>9, <3>1 DEF Watchdog, Bridging
      <4> QED BY <4>1, SlotGiven
    <3>2. CASE ~IsIdle(copy[c])
      <4>1. UNCHANGED active /\ \A n \in Conns : at'[n] \in Bridging <=> at[n] \in Bridging
        BY <2>9, <3>2 DEF Watchdog, Bridging, TypeInv
      <4> QED BY <4>1, SlotsStay
    <3> QED BY <3>1, <3>2
  <2>10. CASE (\E d \in Dirs : ReadChunk(c, d))
             \/ (\E d \in Dirs : ReadEnds(c, d))
             \/ (\E d \in Dirs, b \in BOOLEAN : ChunkDone(c, d, b))
    <3>1. UNCHANGED <<active, at>>
      BY <2>10 DEF ChunkDone, ReadChunk, ReadEnds
    <3> QED BY <3>1 DEF SlotInv, SlotsAreExact, Bridged
  <2> QED BY <1>2, <2>1, <2>2, <2>3, <2>4, <2>5, <2>6, <2>7, <2>8, <2>9, <2>10 DEF
      ConnStep
<1>3. CASE SupervisorStep
  <2>1. CASE AllOpened \/ RequiredMissing \/ ProbeStarts \/ LockToProbe
             \/ ProbeAnswered \/ ProbeTimesOut \/ StopRunners \/ RunnersStopped
             \/ LockToClose \/ Disconnected \/ CloseTimesOut
    <3>1. UNCHANGED <<active, at>>
      BY <2>1 DEF AllOpened, CloseTimesOut, Disconnected, LockToClose,
          LockToProbe, ProbeAnswered, ProbeStarts, ProbeTimesOut,
          RequiredMissing, RunnersStopped, StopRunners
    <3> QED BY <3>1 DEF SlotInv, SlotsAreExact, Bridged
  <2> QED BY <1>3, <2>1 DEF SupervisorStep
<1>4. CASE Tick \/ RusshEnds \/ Finished
  <2>1. CASE Tick \/ RusshEnds \/ Finished
    <3>1. UNCHANGED <<active, at>>
      BY <2>1 DEF Finished, RusshEnds, Tick, vars
    <3> QED BY <3>1 DEF SlotInv, SlotsAreExact, Bridged
  <2> QED BY <1>4, <2>1
<1> QED BY <1>1, <1>2, <1>3, <1>4 DEF Next

\* A connection that gets into a queue was in none.
LEMMA QueuedAtTheEnd ==
    ASSUME TypeInv, QueueInv,
           NEW c \in Conns, at[c] \in {"new", "held"}, Of[c] \in Remote,
           at' = [at EXCEPT ![c] = "queued"],
           queue' = [queue EXCEPT ![Of[c]] = Append(@, c)],
           russh \in {"idle", c}, russh' = "idle"
    PROVE  QueueInv'
<1> DEFINE q == queue[Of[c]]
<1>1. q \in Seq(Conns) /\ Len(q) \in Nat
  BY DEF TypeInv
<1>2. \A f \in Remote : \A i \in 1..Len(queue[f]) : queue[f][i] \in Conns \ {c}
  <2>1. \A f \in Remote : \A i \in 1..Len(queue[f]) : queue[f][i] \in Conns
    BY DEF TypeInv
  <2> QED BY <2>1 DEF QueueInv
<1>3. queue'[Of[c]] = Append(q, c) /\ \A f \in Remote \ {Of[c]} : queue'[f] = queue[f]
  BY DEF TypeInv
<1>4. /\ Len(Append(q, c)) = Len(q) + 1
      /\ Append(q, c)[Len(q) + 1] = c
      /\ \A i \in 1..Len(q) : Append(q, c)[i] = q[i]
  BY <1>1
<1>5. at'[c] = "queued" /\ \A n \in Conns \ {c} : at'[n] = at[n]
  BY DEF TypeInv
<1>6. ASSUME NEW f \in Remote, NEW i \in 1..Len(queue'[f])
      PROVE  at'[queue'[f][i]] = "queued" /\ Of[queue'[f][i]] = f
  <2>1. CASE f # Of[c]
    BY <1>6, <2>1, <1>2, <1>3, <1>5 DEF QueueInv
  <2>2. CASE f = Of[c]
    <3>1. i \in 1..Len(q) \/ i = Len(q) + 1
      BY <1>6, <2>2, <1>1, <1>3, <1>4
    <3>2. CASE i \in 1..Len(q)
      BY <3>2, <2>2, <1>2, <1>3, <1>4, <1>5 DEF QueueInv
    <3>3. CASE i = Len(q) + 1
      BY <3>3, <2>2, <1>3, <1>4, <1>5
    <3> QED BY <3>1, <3>2, <3>3
  <2> QED BY <2>1, <2>2
<1>7. ASSUME NEW f \in Remote, NEW i \in 1..Len(queue'[f]), NEW j \in 1..Len(queue'[f]),
             queue'[f][i] = queue'[f][j]
      PROVE  i = j
  <2>1. CASE f # Of[c]
    BY <1>7, <2>1, <1>3 DEF QueueInv
  <2>2. CASE f = Of[c]
    <3> HIDE DEF q
    <3>1. /\ i \in 1..Len(q) \/ i = Len(q) + 1
          /\ j \in 1..Len(q) \/ j = Len(q) + 1
      BY <1>7, <2>2, <1>1, <1>3, <1>4
    <3>2. \A m \in 1..Len(q) : q[m] # c
      BY <1>2 DEF q
    <3>3. \A m, n \in 1..Len(q) : q[m] = q[n] => m = n
      BY DEF QueueInv, q
    <3> QED BY <1>7, <2>2, <1>3, <1>4, <3>1, <3>2, <3>3
  <2> QED BY <2>1, <2>2
<1>8. \A n \in Conns : at'[n] \in {"queued", "held"} => Of[n] \in Remote
  BY <1>5 DEF QueueInv
<1>9. russh' \in Conns => at'[russh'] = "held"
  BY ForwardsAssumption
<1>10. \A n \in Conns : at'[n] # "held"
  BY <1>5, ForwardsAssumption DEF QueueInv
<1> QED BY <1>6, <1>7, <1>8, <1>9, <1>10 DEF QueueInv

\* A step queues a connection once, and takes off the queue what it serves.
LEMMA QueueStep ==
    ASSUME TypeInv, QueueInv, Next
    PROVE  QueueInv'
<1>1. ASSUME NEW f \in Forwards, ForwardStep(f)
      PROVE  QueueInv'
  <2>1. CASE Cancelled(f)
    <3>1. UNCHANGED russh /\ queue' = [queue EXCEPT ![f] = <<>>]
          /\ at' = [n \in Conns |-> IF Of[n] = f /\ at[n] = "queued" THEN "ended" ELSE at[n]]
      BY <2>1 DEF Cancelled
    <3>2. \A g \in Remote : queue'[g] = IF g = f THEN <<>> ELSE queue[g]
      BY <3>1 DEF TypeInv
    <3>3. \A g \in Remote : \A i \in 1..Len(queue[g]) : queue[g][i] \in Conns
      BY DEF TypeInv
    <3>4. \A n \in Conns : Of[n] # f \/ at[n] # "queued" => at'[n] = at[n]
      BY <3>1
    <3>5. \A n \in Conns : at'[n] \in {"queued", "held"} => at[n] = at'[n]
      BY <3>1
    <3>6. ASSUME NEW g \in Remote, NEW i \in 1..Len(queue'[g])
          PROVE  /\ at'[queue'[g][i]] = "queued" /\ Of[queue'[g][i]] = g
                 /\ \A j \in 1..Len(queue'[g]) : queue'[g][i] = queue'[g][j] => i = j
      <4>1. g # f /\ queue'[g] = queue[g]
        BY <3>2, <3>6
      <4> QED BY <4>1, <3>3, <3>4, <3>6 DEF QueueInv
    <3> QED BY <3>1, <3>4, <3>5, <3>6 DEF QueueInv
  <2>2. ASSUME NEW b \in BOOLEAN, f \in Remote, Serve(f, b)
        PROVE  QueueInv'
    <3> DEFINE h == Head(queue[f])
    <3>1. h \in Conns /\ at[h] = "queued" /\ Of[h] = f
      BY <2>2, HeadIsQueued DEF Serve
    <3>2. queue[f] \in Seq(Conns) /\ Len(queue[f]) \in Nat /\ Len(queue[f]) # 0
      BY <2>2 DEF TypeInv, Serve
    <3>3. /\ h = queue[f][1]
          /\ Len(Tail(queue[f])) = Len(queue[f]) - 1
          /\ \A i \in 1..Len(Tail(queue[f])) : Tail(queue[f])[i] = queue[f][i + 1]
      BY <3>2
    <3>4. /\ UNCHANGED russh
          /\ queue' = [queue EXCEPT ![f] = Tail(@)]
          /\ at' = [at EXCEPT ![h] = IF b THEN "dialing" ELSE "ended"]
      BY <2>2 DEF Serve
    <3>5. queue'[f] = Tail(queue[f]) /\ \A g \in Remote \ {f} : queue'[g] = queue[g]
      BY <2>2, <3>4 DEF TypeInv
    <3>6. at'[h] \notin {"queued", "held"} /\ \A n \in Conns \ {h} : at'[n] = at[n]
      BY <3>1, <3>4 DEF TypeInv
    <3>7. \A g \in Remote : \A i \in 1..Len(queue[g]) : queue[g][i] \in Conns
      BY DEF TypeInv
    <3> HIDE DEF h
    <3>8. ASSUME NEW g \in Remote, NEW i \in 1..Len(queue'[g])
          PROVE  /\ at'[queue'[g][i]] = "queued" /\ Of[queue'[g][i]] = g
                 /\ \A j \in 1..Len(queue'[g]) : queue'[g][i] = queue'[g][j] => i = j
      <4>1. CASE g # f
        <5>1. queue'[g] = queue[g] /\ queue[g][i] \in Conns \ {h}
          BY <3>1, <3>5, <3>7, <3>8, <4>1 DEF QueueInv
        <5> QED BY <5>1, <3>6, <3>8 DEF QueueInv
      <4>2. CASE g = f
        <5>0. /\ Len(queue'[g]) = Len(queue[f]) - 1
              /\ \A m \in 1..Len(queue'[g]) :
                    m \in Int /\ m + 1 \in 1..Len(queue[f]) /\ m + 1 # 1
          <6>1. Len(queue'[g]) = Len(queue[f]) - 1
            BY <3>3, <3>5, <4>2
          <6> QED BY <3>2, <6>1
        <5>1. i \in Int /\ i + 1 \in 1..Len(queue[f]) /\ i + 1 # 1
          BY <5>0, <3>8
        <5>2. queue'[g][i] = queue[f][i + 1]
          BY <3>3, <3>5, <3>8, <4>2
        <5>3. queue[f][i + 1] \in Conns \ {h}
          <6>1. 1 \in 1..Len(queue[f])
            BY <3>2
          <6> QED BY <6>1, <5>1, <3>3, <3>7, <4>2 DEF QueueInv
        <5>4. at'[queue'[g][i]] = "queued" /\ Of[queue'[g][i]] = g
          BY <5>1, <5>2, <5>3, <3>6, <4>2 DEF QueueInv
        <5>5. ASSUME NEW j \in 1..Len(queue'[g]), queue'[g][i] = queue'[g][j]
              PROVE  i = j
          <6>1. j \in Int /\ j + 1 \in 1..Len(queue[f])
            BY <5>0, <5>5
          <6>2. queue[f][i + 1] = queue[f][j + 1]
            BY <5>2, <5>5, <3>3, <3>5, <4>2
          <6>3. i + 1 = j + 1
            BY <2>2, <5>1, <6>1, <6>2 DEF QueueInv
          <6> QED BY <5>1, <6>1, <6>3
        <5> QED BY <5>4, <5>5
      <4> QED BY <4>1, <4>2
    <3>9. \A n \in Conns : at'[n] \in {"queued", "held"} => Of[n] \in Remote
      BY <3>6 DEF QueueInv
    <3>10. russh' \in Conns => at'[russh'] = "held"
      BY <3>1, <3>4, <3>6 DEF QueueInv
    <3>11. \A n \in Conns : at'[n] = "held" => russh' = n
      BY <3>1, <3>4, <3>6 DEF QueueInv
    <3> QED BY <3>8, <3>9, <3>10, <3>11 DEF QueueInv
  <2>3. CASE OpenLocal(f) \/ OpenFails(f) \/ Register(f) \/ LockToOpen(f)
             \/ Opened(f) \/ OpenRefused(f) \/ Rekey(f) \/ CloseSeen(f)
             \/ LockToCancel(f) \/ Refused(f)
    <3>1. UNCHANGED <<queue, at, russh>>
      BY <2>3 DEF CloseSeen, LockToCancel, LockToOpen, OpenFails, OpenLocal,
          OpenRefused, Opened, Refused, Register, Rekey
    <3> QED BY <3>1 DEF QueueInv
  <2> QED BY <1>1, <2>1, <2>2, <2>3 DEF ForwardStep
<1>2. ASSUME NEW c \in Conns, ConnStep(c)
      PROVE  QueueInv'
  <2>1. CASE Offer(c)
    <3>1. Of[c] \in Remote /\ at[c] = "new" /\ russh = "idle"
      BY <2>1 DEF Offer
    <3>2. CASE route[Of[c]] # "bound"
      <4>1. UNCHANGED <<queue, russh>> /\ at' = [at EXCEPT ![c] = "ended"]
        BY <2>1, <3>2 DEF Offer
      <4> QED BY <3>1, <4>1, QueueKept
    <3>3. CASE route[Of[c]] = "bound" /\ Len(queue[Of[c]]) < QueueCap
      <4>1. /\ at' = [at EXCEPT ![c] = "queued"]
            /\ queue' = [queue EXCEPT ![Of[c]] = Append(@, c)]
            /\ russh' = "idle"
        BY <2>1, <3>1, <3>3 DEF Offer
      <4> QED BY <3>1, <4>1, QueuedAtTheEnd
    <3>4. CASE route[Of[c]] = "bound" /\ ~(Len(queue[Of[c]]) < QueueCap)
      <4>1. UNCHANGED queue /\ at' = [at EXCEPT ![c] = "held"] /\ russh' = c
        BY <2>1, <3>4 DEF Offer
      <4>2. at'[c] = "held" /\ \A n \in Conns \ {c} : at'[n] = at[n]
        BY <4>1 DEF TypeInv
      <4>3. \A f \in Remote : \A i \in 1..Len(queue[f]) : queue[f][i] \in Conns \ {c}
        <5>1. \A f \in Remote : \A i \in 1..Len(queue[f]) : queue[f][i] \in Conns
          BY DEF TypeInv
        <5> QED BY <3>1, <5>1 DEF QueueInv
      <4> QED BY <3>1, <4>1, <4>2, <4>3, ForwardsAssumption DEF QueueInv
    <3> QED BY <3>2, <3>3, <3>4
  <2>2. CASE HandlerGoesOn(c)
    <3>1. russh = c /\ russh' = "idle" /\ at[c] = "held" /\ Of[c] \in Remote
      BY <2>2 DEF HandlerGoesOn, QueueInv
    <3>2. CASE loop[Of[c]] = "stopped"
      <4>1. UNCHANGED queue /\ at' = [at EXCEPT ![c] = "ended"]
        BY <2>2, <3>2 DEF HandlerGoesOn
      <4>2. at'[c] = "ended" /\ \A n \in Conns \ {c} : at'[n] = at[n]
        BY <4>1 DEF TypeInv
      <4>3. \A f \in Remote : \A i \in 1..Len(queue[f]) : queue[f][i] \in Conns \ {c}
        <5>1. \A f \in Remote : \A i \in 1..Len(queue[f]) : queue[f][i] \in Conns
          BY DEF TypeInv
        <5> QED BY <3>1, <5>1 DEF QueueInv
      <4> QED BY <3>1, <4>1, <4>2, <4>3, ForwardsAssumption DEF QueueInv
    <3>3. CASE loop[Of[c]] # "stopped"
      <4>1. /\ at' = [at EXCEPT ![c] = "queued"]
            /\ queue' = [queue EXCEPT ![Of[c]] = Append(@, c)]
        BY <2>2, <3>3 DEF HandlerGoesOn
      <4> QED BY <3>1, <4>1, QueuedAtTheEnd
    <3> QED BY <3>2, <3>3
  <2>3. CASE LockToBridge(c)
    BY <2>3, QueueKept DEF LockToBridge
  <2>4. ASSUME NEW b \in BOOLEAN, Accept(c, b)
        PROVE  QueueInv'
    BY <2>4, QueueKept DEF Accept
  <2>5. ASSUME NEW b \in BOOLEAN, Dialed(c, b)
        PROVE  QueueInv'
    <3>1. UNCHANGED <<queue, russh>> /\ at[c] \notin {"queued", "held"}
          /\ at' = [at EXCEPT ![c] = IF b THEN "copying" ELSE "ended"]
      BY <2>5 DEF Dialed, BridgeEnds, Copies
    <3> QED BY <3>1, QueueKept
  <2>6. ASSUME NEW b \in BOOLEAN, Asked(c, b)
        PROVE  QueueInv'
    <3>1. UNCHANGED <<queue, russh>> /\ at[c] \notin {"queued", "held"}
          /\ at' = [at EXCEPT ![c] = IF b THEN "waiting" ELSE "ended"]
      BY <2>6 DEF Asked, BridgeEnds
    <3> QED BY <3>1, QueueKept
  <2>7. ASSUME NEW b \in BOOLEAN, ChannelOpen(c, b)
        PROVE  QueueInv'
    <3>1. UNCHANGED <<queue, russh>> /\ at[c] \notin {"queued", "held"}
          /\ at' = [at EXCEPT ![c] = IF b THEN "copying" ELSE "ended"]
      BY <2>7 DEF ChannelOpen, BridgeEnds, Copies
    <3> QED BY <3>1, QueueKept
  <2>8. CASE CopyEnds(c)
    <3>1. at[c] = "copying" /\ at' = [at EXCEPT ![c] = "ended"] /\ UNCHANGED <<queue, russh>>
      BY <2>8 DEF CopyEnds, BridgeEnds, Copying, Dirs
    <3> QED BY <3>1, QueueKept
  <2>9. CASE Watchdog(c)
    <3>1. at[c] = "copying" /\ UNCHANGED <<queue, russh>>
      BY <2>9 DEF Watchdog
    <3>2. CASE IsIdle(copy[c])
      BY <2>9, <3>1, <3>2, QueueKept DEF Watchdog, BridgeEnds
    <3>3. CASE ~IsIdle(copy[c])
      BY <2>9, <3>1, <3>3 DEF Watchdog, QueueInv
    <3> QED BY <3>2, <3>3
  <2>10. CASE (\E d \in Dirs : ReadChunk(c, d))
             \/ (\E d \in Dirs : ReadEnds(c, d))
             \/ (\E d \in Dirs, b \in BOOLEAN : ChunkDone(c, d, b))
    <3>1. UNCHANGED <<queue, at, russh>>
      BY <2>10 DEF ChunkDone, ReadChunk, ReadEnds
    <3> QED BY <3>1 DEF QueueInv
  <2> QED BY <1>2, <2>1, <2>2, <2>3, <2>4, <2>5, <2>6, <2>7, <2>8, <2>9, <2>10 DEF
      ConnStep
<1>3. CASE SupervisorStep
  <2>1. CASE AllOpened \/ RequiredMissing \/ ProbeStarts \/ LockToProbe
             \/ ProbeAnswered \/ ProbeTimesOut \/ StopRunners \/ RunnersStopped
             \/ LockToClose \/ Disconnected \/ CloseTimesOut
    <3>1. UNCHANGED <<queue, at, russh>>
      BY <2>1 DEF AllOpened, CloseTimesOut, Disconnected, LockToClose,
          LockToProbe, ProbeAnswered, ProbeStarts, ProbeTimesOut,
          RequiredMissing, RunnersStopped, StopRunners
    <3> QED BY <3>1 DEF QueueInv
  <2> QED BY <1>3, <2>1 DEF SupervisorStep
<1>4. CASE Tick \/ RusshEnds \/ Finished
  <2>1. CASE RusshEnds
    BY <2>1, ForwardsAssumption DEF RusshEnds, QueueInv
  <2>2. CASE Tick \/ Finished
    <3>1. UNCHANGED <<queue, at, russh>>
      BY <2>2 DEF Finished, Tick, vars
    <3> QED BY <3>1 DEF QueueInv
  <2> QED BY <1>4, <2>1, <2>2
<1> QED BY <1>1, <1>2, <1>3, <1>4 DEF Next
\* A step leaves no route, and no connection, to a loop that does not read.
LEMMA RouteStep ==
    ASSUME TypeInv, QueueInv, RouteInv, Next
    PROVE  RouteInv'
<1>1. ASSUME NEW f \in Forwards, ForwardStep(f)
      PROVE  RouteInv'
  <2>1. CASE OpenLocal(f)
    BY <2>1, ForwardsAssumption DEF RouteInv, TypeInv, OpenLocal, Opening
  <2>2. CASE OpenFails(f)
    BY <2>2, ForwardsAssumption DEF RouteInv, TypeInv, OpenFails, Opening
  <2>3. CASE Register(f)
    BY <2>3, ForwardsAssumption DEF RouteInv, TypeInv, Register, Opening
  <2>4. CASE LockToOpen(f)
    BY <2>4, ForwardsAssumption DEF RouteInv, TypeInv, LockToOpen, Lock
  <2>5. CASE Opened(f)
    BY <2>5, ForwardsAssumption DEF RouteInv, TypeInv, Opened, Unlock
  <2>6. CASE OpenRefused(f)
    BY <2>6, ForwardsAssumption DEF RouteInv, TypeInv, OpenRefused, Unlock
  <2>7. CASE Rekey(f)
    BY <2>7, ForwardsAssumption DEF RouteInv, TypeInv, Rekey
  <2>8. CASE CloseSeen(f)
    BY <2>8, ForwardsAssumption DEF RouteInv, TypeInv, CloseSeen, QueueInv
  <2>9. CASE LockToCancel(f)
    BY <2>9, ForwardsAssumption DEF RouteInv, TypeInv, LockToCancel, Lock
  <2>10. CASE Cancelled(f)
    BY <2>10, ForwardsAssumption DEF RouteInv, TypeInv, Cancelled, Unlock
  <2>11. ASSUME NEW b \in BOOLEAN, f \in Remote, Serve(f, b)
        PROVE  RouteInv'
    <3>1. Head(queue[f]) \in Conns /\ UNCHANGED route
          /\ at' = [at EXCEPT ![Head(queue[f])] = IF b THEN "dialing" ELSE "ended"]
      BY <2>11, HeadIsQueued DEF Serve
    <3>2. \A n \in Conns : at'[n] \in {"queued", "held"} => at[n] = at'[n]
      BY <3>1 DEF TypeInv
    <3>3. \A g \in Forwards : loop'[g] = loop[g] \/ (loop[g] = "running" /\ loop'[g] = "refusing")
      BY <2>11 DEF Serve, TypeInv
    <3> QED BY <3>1, <3>2, <3>3, ForwardsAssumption DEF RouteInv, Forwards
  <2>12. CASE Refused(f)
    BY <2>12, ForwardsAssumption DEF RouteInv, TypeInv, Refused
  <2> QED BY <1>1, <2>1, <2>2, <2>3, <2>4, <2>5, <2>6, <2>7, <2>8, <2>9, <2>10,
      <2>11, <2>12 DEF ForwardStep
<1>2. ASSUME NEW c \in Conns, ConnStep(c)
      PROVE  RouteInv'
  <2>1. CASE Offer(c)
    BY <2>1, ForwardsAssumption DEF RouteInv, TypeInv, Offer, ServerListens,
        Cycling, QueueInv
  <2>2. CASE HandlerGoesOn(c)
    BY <2>2, ForwardsAssumption DEF RouteInv, TypeInv, HandlerGoesOn, QueueInv
  <2>3. CASE LockToBridge(c)
    BY <2>3, RouteKept DEF LockToBridge
  <2>4. ASSUME NEW b \in BOOLEAN, Accept(c, b)
        PROVE  RouteInv'
    BY <2>4, RouteKept DEF Accept
  <2>5. ASSUME NEW b \in BOOLEAN, Dialed(c, b)
        PROVE  RouteInv'
    <3>1. UNCHANGED <<route, loop>> /\ at[c] \notin {"queued", "held"}
          /\ at' = [at EXCEPT ![c] = IF b THEN "copying" ELSE "ended"]
      BY <2>5 DEF Dialed, BridgeEnds, Copies
    <3> QED BY <3>1, RouteKept
  <2>6. ASSUME NEW b \in BOOLEAN, Asked(c, b)
        PROVE  RouteInv'
    <3>1. UNCHANGED <<route, loop>> /\ at[c] \notin {"queued", "held"}
          /\ at' = [at EXCEPT ![c] = IF b THEN "waiting" ELSE "ended"]
      BY <2>6 DEF Asked, BridgeEnds
    <3> QED BY <3>1, RouteKept
  <2>7. ASSUME NEW b \in BOOLEAN, ChannelOpen(c, b)
        PROVE  RouteInv'
    <3>1. UNCHANGED <<route, loop>> /\ at[c] \notin {"queued", "held"}
          /\ at' = [at EXCEPT ![c] = IF b THEN "copying" ELSE "ended"]
      BY <2>7 DEF ChannelOpen, BridgeEnds, Copies
    <3> QED BY <3>1, RouteKept
  <2>8. CASE CopyEnds(c)
    <3>1. at' = [at EXCEPT ![c] = "ended"] /\ UNCHANGED <<route, loop>>
      BY <2>8 DEF CopyEnds, BridgeEnds
    <3> QED BY <3>1, RouteKept
  <2>9. CASE Watchdog(c)
    <3>1. at[c] = "copying" /\ UNCHANGED <<route, loop>>
      BY <2>9 DEF Watchdog
    <3>2. CASE IsIdle(copy[c])
      BY <2>9, <3>1, <3>2, RouteKept DEF Watchdog, BridgeEnds
    <3>3. CASE ~IsIdle(copy[c])
      BY <2>9, <3>1, <3>3 DEF Watchdog, RouteInv
    <3> QED BY <3>2, <3>3
  <2>10. CASE (\E d \in Dirs : ReadChunk(c, d))
             \/ (\E d \in Dirs : ReadEnds(c, d))
             \/ (\E d \in Dirs, b \in BOOLEAN : ChunkDone(c, d, b))
    <3>1. UNCHANGED <<route, loop, at>>
      BY <2>10 DEF ChunkDone, ReadChunk, ReadEnds
    <3> QED BY <3>1 DEF RouteInv
  <2> QED BY <1>2, <2>1, <2>2, <2>3, <2>4, <2>5, <2>6, <2>7, <2>8, <2>9, <2>10 DEF
      ConnStep
<1>3. CASE SupervisorStep
  <2>1. CASE AllOpened \/ RequiredMissing \/ ProbeStarts \/ LockToProbe
             \/ ProbeAnswered \/ ProbeTimesOut \/ StopRunners \/ RunnersStopped
             \/ LockToClose \/ Disconnected \/ CloseTimesOut
    <3>1. UNCHANGED <<route, loop, at>>
      BY <2>1 DEF AllOpened, CloseTimesOut, Disconnected, LockToClose,
          LockToProbe, ProbeAnswered, ProbeStarts, ProbeTimesOut,
          RequiredMissing, RunnersStopped, StopRunners
    <3> QED BY <3>1 DEF RouteInv
  <2> QED BY <1>3, <2>1 DEF SupervisorStep
<1>4. CASE Tick \/ RusshEnds \/ Finished
  <2>1. CASE Tick \/ RusshEnds \/ Finished
    <3>1. UNCHANGED <<route, loop, at>>
      BY <2>1 DEF Finished, RusshEnds, Tick, vars
    <3> QED BY <3>1 DEF RouteInv
  <2> QED BY <1>4, <2>1
<1> QED BY <1>1, <1>2, <1>3, <1>4 DEF Next

-----------------------------------------------------------------------------
(* Theorems. *)

LEMMA InitInv == Init => Inv
<1> SUFFICES ASSUME Init PROVE Inv
  OBVIOUS
<1>1. TypeInv
  <2>1. queue \in [Remote -> Seq(Conns)]
    BY DEF Init
  <2> QED BY <2>1 DEF Init, TypeInv, Forwards
<1>2. ClockInv
  BY NewCopyRight DEF Init, ClockInv, ClockRight
<1>3. LockInv
  BY ForwardsAssumption DEF Init, LockInv
<1>4. QueueInv
  <2>1. \A f \in Remote : Len(queue[f]) = 0
    BY DEF Init
  <2>2. russh \notin Conns
    BY ForwardsAssumption DEF Init
  <2> QED BY <2>1, <2>2 DEF Init, QueueInv
<1>5. RouteInv
  BY ForwardsAssumption DEF Init, RouteInv, Forwards
<1>6. SlotInv
  <2>1. \A f \in Forwards : Bridged(f) = {}
    BY DEF Init, Bridged
  <2>2. Cardinality({}) = 0
    BY FS_EmptySet
  <2>3. MaxConnections \in Nat
    BY ForwardsAssumption
  <2>4. \A f \in Forwards : active[f] = 0
    BY DEF Init
  <2>5. \A f \in Forwards : Cardinality(Bridged(f)) = 0
    BY <2>1, <2>2
  <2>6. active \in [Forwards -> Int]
    BY DEF Init
  <2> QED BY <2>3, <2>4, <2>5, <2>6 DEF SlotInv, SlotsAreExact
<1> QED BY <1>1, <1>2, <1>3, <1>4, <1>5, <1>6 DEF Inv

LEMMA StutterInv == Inv /\ UNCHANGED vars => Inv'
<1> SUFFICES ASSUME Inv, UNCHANGED vars PROVE Inv'
  OBVIOUS
<1> USE DEF Inv, vars
<1>1. TypeInv'
  BY DEF TypeInv
<1>2. ClockInv'
  BY DEF ClockInv
<1>3. LockInv'
  BY DEF LockInv
<1>4. QueueInv'
  BY DEF QueueInv
<1>5. RouteInv'
  BY DEF RouteInv
<1>6. SlotInv'
  BY SlotsStay
<1> QED BY <1>1, <1>2, <1>3, <1>4, <1>5, <1>6

\* The conjunction of these facts is inductive: who holds the handle, what the
\* queues hold and the count of the bridges are kept by every step together.
THEOREM Invariance == Spec => []Inv
<1>1. Inv /\ [Next]_vars => Inv'
  <2>1. ASSUME Inv, Next PROVE Inv'
    BY <2>1, TypeStep, ClockStep, LockStep, QueueStep, RouteStep, SlotStep DEF Inv
  <2> QED BY <2>1, StutterInv
<1> QED BY <1>1, InitInv, PTL DEF Spec

\* The types, and whoever awaits a request of the russh handle holds its mutex,
\* alone: a keepalive or a close that times out drops its guard, and nothing
\* else takes or keeps the handle (keepalive, close_session_bounded,
\* bridge_local, remote_loop).
THEOREM HandleIsExclusive == Spec => []TypeOK
<1>1. Inv => TypeOK
  <2> SUFFICES ASSUME Inv PROVE TypeOK
    OBVIOUS
  <2> USE DEF Inv
  <2>1. active \in [Forwards -> 0..MaxConnections]
    <3>1. \A f \in Forwards : active[f] \in 0..MaxConnections
      BY BridgedFinite, ForwardsAssumption DEF SlotInv, SlotsAreExact
    <3> QED BY <3>1 DEF SlotInv
  <2>2. ASSUME NEW x \in Forwards \cup Conns \cup {Prober, Closer}
        PROVE  Holds(x) <=> lock = x
    <3>1. Prober # Closer
      BY DEF Prober, Closer
    <3>2. Forwards \cap Conns = {} /\ {Prober, Closer} \cap (Forwards \cup Conns) = {}
      BY ForwardsAssumption
    <3>3. CASE x \in Forwards
      BY <3>2, <3>3 DEF LockInv, Holds
    <3>4. CASE x \in Conns
      BY <3>2, <3>4 DEF LockInv, Holds
    <3>5. CASE x = Prober
      BY <3>1, <3>2, <3>5 DEF LockInv, Holds
    <3>6. CASE x = Closer
      BY <3>1, <3>2, <3>6 DEF LockInv, Holds
    <3> QED BY <2>2, <3>3, <3>4, <3>5, <3>6
  <2> QED BY <2>1, <2>2 DEF TypeOK, TypeInv, ClockInv, CopyType
<1> QED BY <1>1, Invariance, PTL

\* By whichever of their returns the bridges of a forward end, the count its loop
\* compares with max_connections is their number, and never above it
\* (ConnLimiter, ConnPermit, local_loop, remote_loop).
THEOREM SlotsExact == Spec => []SlotsAreExact
<1>1. Inv => SlotsAreExact
  BY DEF Inv, SlotInv
<1> QED BY <1>1, Invariance, PTL

\* A route of remote_forwards leads to a loop that is opened or in its cycle, a
\* channel is queued only for a loop past its opening that still owns the queue,
\* be it on its way out, and the task of russh waits with exactly the channel
\* its handler holds (open_remote, remote_loop,
\* server_channel_open_forwarded_tcpip).
THEOREM RoutesRead == Spec => []RoutesAreRead
<1>1. Inv => RoutesAreRead
  <2> SUFFICES ASSUME Inv PROVE RoutesAreRead
    OBVIOUS
  <2>1. \A c \in Conns : at[c] = "held" <=> russh = c
    BY DEF Inv, QueueInv
  <2>2. ASSUME NEW c \in Conns, at[c] = "queued"
        PROVE  Cycling(Of[c]) \/ loop[Of[c]] \in {"leaving", "cancelling"}
    BY <2>2, ForwardsAssumption DEF Inv, TypeInv, RouteInv, Cycling
  <2> QED BY <2>1, <2>2 DEF Inv, RouteInv, RoutesAreRead, Cycling
<1> QED BY <1>1, Invariance, PTL

\* For every idle_timeout, the watchdog of a copy ends it only after that much
\* silence in both directions and with nothing in flight
\* (copy_bidirectional_throttled_idle, ActivityBeacon).
THEOREM IdleCloseGenuine == Spec => IdleCloseIsGenuine
<1>1. Inv /\ [Next]_vars =>
        [\A c \in Conns : Watchdog(c) /\ at'[c] = "ended" =>
            copy[c].quiet = Idle /\ ~Busy(copy[c])]_vars
  <2> SUFFICES ASSUME Inv, NEW c \in Conns, Watchdog(c), at'[c] = "ended"
               PROVE  copy[c].quiet = Idle /\ ~Busy(copy[c])
    OBVIOUS
  <2>1. at[c] = "copying" /\ copy[c].timer = Idle
    BY DEF Watchdog
  <2>2. IsIdle(copy[c])
    BY <2>1 DEF Watchdog
  <2>3. copy[c].timer <= copy[c].quiet
    BY <2>2 DEF Inv, ClockInv, IsIdle
  <2>4. copy[c].quiet \in 0..Idle /\ Idle \in Nat
    BY ForwardsAssumption DEF Inv, ClockInv, CopyType
  <2> QED BY <2>1, <2>2, <2>3, <2>4 DEF IsIdle
<1> QED BY <1>1, Invariance, PTL DEF Spec, IdleCloseIsGenuine
=============================================================================
