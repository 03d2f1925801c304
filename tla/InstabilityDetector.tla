------------------------ MODULE InstabilityDetector ------------------------
(***************************************************************************)
(* The instability detector of spt-supervisor (instability.rs).            *)
(*                                                                         *)
(* A detector is a record                                                  *)
(*   events     the ages of the disconnects it remembers, oldest first     *)
(*   triggered  the unstable flag                                          *)
(*   clean      the age of last_clean, or NoInstant                        *)
(*   slow       the latency samples, TRUE for an RTT above the ceiling     *)
(*   misses     consecutive_misses                                         *)
(* Instants are kept as ages, which DetectorTick advances.  An age stops   *)
(* where every comparison the code makes has settled.                      *)
(***************************************************************************)
EXTENDS Integers, Sequences, FiniteSets

CONSTANTS
    DetectorEnabled,   \* InstabilityWindow::enabled
    Window,            \* InstabilityWindow::window, in ticks
    MaxDisconnects,    \* InstabilityWindow::max_disconnects
    ClearAfter,        \* InstabilityWindow::clear_after, in ticks
    MaxMisses,         \* max_keepalive_misses; 0 for None (0 never trips)
    LatencyCeiling,    \* TRUE iff max_latency_p95 is set
    LatencyWindow      \* LATENCY_WINDOW

ASSUME DetectorAssumption ==
    /\ DetectorEnabled \in BOOLEAN
    /\ Window \in Nat
    /\ MaxDisconnects \in Nat
    /\ ClearAfter \in Nat
    /\ MaxMisses \in Nat
    /\ LatencyCeiling \in BOOLEAN
    /\ LatencyWindow \in Nat \ {0}

\* An Option<Instant> that is None.
NoInstant == -1

\* The age of an Option<Instant> one tick later, settled at limit.
Older(age, limit) == IF age = NoInstant \/ age >= limit THEN age ELSE age + 1

\* The states of a detector.
Detectors ==
    [events    : Seq(0..Window + 1),
     triggered : BOOLEAN,
     clean     : {NoInstant} \cup 0..ClearAfter,
     slow      : Seq(BOOLEAN),
     misses    : 0..MaxMisses]

\* InstabilityDetector::new.
NewDetector ==
    [events |-> << >>, triggered |-> FALSE, clean |-> NoInstant,
     slow |-> << >>, misses |-> 0]

\* One tick of the clock.  An event older than the window counts no more.
DetectorTick(d) ==
    [d EXCEPT !.events = [i \in DOMAIN d.events |-> Older(d.events[i], Window + 1)],
              !.clean = Older(d.clean, ClearAfter)]

\* The last n elements of s: what pop_front leaves.
Newest(s, n) == IF Len(s) <= n THEN s ELSE SubSeq(s, Len(s) - n + 1, Len(s))

\* record_disconnect pops the events older than the window off the front.
InWindow(d) == Newest(d.events, Cardinality({i \in DOMAIN d.events : d.events[i] <= Window}))

\* The events it keeps.  The code only ever asks whether there are more than
\* MaxDisconnects, so the newest MaxDisconnects + 1 stand for all.
EventsAfterDisconnect(d) == Newest(Append(InWindow(d), 0), MaxDisconnects + 1)

\* record_disconnect returns TRUE.
DisconnectTrips(d) ==
    /\ DetectorEnabled
    /\ ~d.triggered
    /\ Len(EventsAfterDisconnect(d)) > MaxDisconnects

\* record_disconnect.
RecordDisconnect(d) ==
    IF DetectorEnabled
    THEN [d EXCEPT !.events = EventsAfterDisconnect(d),
                   !.clean = NoInstant,
                   !.triggered = d.triggered \/ DisconnectTrips(d)]
    ELSE d

\* LatencyEstimator::record.
RecordLatency(d, isSlow) == Newest(Append(d.slow, isSlow), LatencyWindow)

\* LatencyEstimator::p95 > ceiling, by nearest rank: the sample at rank
\* ceil(0.95 n) of the sorted window is slow iff fewer than that many are fast.
P95IsSlow(samples) ==
    Cardinality({i \in DOMAIN samples : ~samples[i]}) < (95 * Len(samples) + 99) \div 100

\* record_probe(Some(rtt)) returns TRUE.
ProbeTrips(d, isSlow) ==
    DetectorEnabled /\ LatencyCeiling /\ ~d.triggered /\ P95IsSlow(RecordLatency(d, isSlow))

\* A latency trip does not restart the clean-window clock.
RecordProbeKeepsClean(d, isSlow) ==
    IF DetectorEnabled
    THEN [d EXCEPT !.misses = 0,
                   !.slow = RecordLatency(d, isSlow),
                   !.triggered = d.triggered \/ ProbeTrips(d, isSlow)]
    ELSE d

\* record_probe(Some(rtt)).
RecordProbe(d, isSlow) ==
    IF DetectorEnabled
    THEN [d EXCEPT !.misses = 0,
                   !.slow = RecordLatency(d, isSlow),
                   !.triggered = d.triggered \/ ProbeTrips(d, isSlow),
                   !.clean = IF ProbeTrips(d, isSlow) THEN NoInstant ELSE d.clean]
    ELSE d

\* record_probe(None) returns TRUE.
MissTrips(d) ==
    DetectorEnabled /\ ~d.triggered /\ MaxMisses > 0 /\ d.misses + 1 >= MaxMisses

\* record_probe(None).  The count settles at the threshold it is compared to.
RecordMiss(d) ==
    IF DetectorEnabled
    THEN [d EXCEPT !.misses = IF d.misses < MaxMisses THEN d.misses + 1 ELSE d.misses,
                   !.triggered = d.triggered \/ MissTrips(d),
                   !.clean = IF MissTrips(d) THEN NoInstant ELSE d.clean]
    ELSE d

\* tick_healthy returns TRUE.
HealthyClears(d) == d.clean # NoInstant /\ d.triggered /\ d.clean >= ClearAfter

\* tick_healthy.
TickHealthy(d) ==
    CASE d.clean = NoInstant -> [d EXCEPT !.clean = 0]
      [] HealthyClears(d)    -> [NewDetector EXCEPT !.clean = d.clean]
      [] OTHER               -> d
=============================================================================
