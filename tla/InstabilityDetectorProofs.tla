--------------------- MODULE InstabilityDetectorProofs ---------------------
(***************************************************************************)
(* The operations of the instability detector keep its state in Detectors. *)
(***************************************************************************)
EXTENDS InstabilityDetector, SequenceTheorems, FiniteSetTheorems, TLAPS

\* What pop_front leaves of a queue is a queue, no longer than asked for.
LEMMA NewestType ==
    ASSUME NEW S, NEW s \in Seq(S), NEW n \in Nat
    PROVE  Newest(s, n) \in Seq(S) /\ Len(Newest(s, n)) <= n
<1>1. CASE Len(s) <= n
  BY <1>1 DEF Newest
<1>2. CASE Len(s) > n
  <2>1. Len(s) \in Nat
    BY LenProperties
  <2>2. \A i \in Len(s) - n + 1 .. Len(s) : s[i] \in S
    BY <1>2, <2>1, ElementOfSeq
  <2>3. /\ SubSeq(s, Len(s) - n + 1, Len(s)) \in Seq(S)
        /\ Len(SubSeq(s, Len(s) - n + 1, Len(s)))
              = IF Len(s) - n + 1 <= Len(s) THEN Len(s) - (Len(s) - n + 1) + 1 ELSE 0
    BY <2>1, <2>2, SubSeqProperties
  <2> QED
    BY <1>2, <2>1, <2>3 DEF Newest
<1> QED
  BY <1>1, <1>2, LenProperties

\* The events inside the window are a number of them.
LEMMA InWindowType ==
    ASSUME NEW d \in Detectors
    PROVE  InWindow(d) \in Seq(0..Window + 1)
<1> DEFINE recent == {i \in DOMAIN d.events : d.events[i] <= Window}
<1>1. d.events \in Seq(0..Window + 1)
  BY DEF Detectors
<1>2. DOMAIN d.events = 1..Len(d.events) /\ Len(d.events) \in Nat
  BY <1>1, LenProperties
<1>3. IsFiniteSet(1..Len(d.events))
  BY <1>2, FS_Interval
<1>4. recent \in SUBSET (1..Len(d.events))
  BY <1>2
<1>5. IsFiniteSet(recent)
  BY <1>3, <1>4, FS_Subset
<1>6. Cardinality(recent) \in Nat
  BY <1>5, FS_CardinalityType
<1> QED
  BY <1>1, <1>6, NewestType DEF InWindow

\* The window of disconnects stays a window, of bounded length.
LEMMA EventsType ==
    ASSUME NEW d \in Detectors
    PROVE  /\ EventsAfterDisconnect(d) \in Seq(0..Window + 1)
           /\ Len(EventsAfterDisconnect(d)) <= MaxDisconnects + 1
<1>1. 0 \in 0..Window + 1
  BY DetectorAssumption
<1>2. Append(InWindow(d), 0) \in Seq(0..Window + 1)
  BY <1>1, InWindowType, AppendProperties
<1>3. MaxDisconnects + 1 \in Nat
  BY DetectorAssumption
<1> QED
  BY <1>2, <1>3, NewestType DEF EventsAfterDisconnect

\* The window of latency samples stays a window.
LEMMA SlowType ==
    ASSUME NEW d \in Detectors, NEW isSlow \in BOOLEAN
    PROVE  RecordLatency(d, isSlow) \in Seq(BOOLEAN)
<1>1. d.slow \in Seq(BOOLEAN)
  BY DEF Detectors
<1>2. Append(d.slow, isSlow) \in Seq(BOOLEAN)
  BY <1>1, AppendProperties
<1> QED
  BY <1>2, NewestType, DetectorAssumption DEF RecordLatency

\* InstabilityDetector::new returns a detector.
LEMMA NewDetectorType == NewDetector \in Detectors
<1>1. << >> \in Seq(0..Window + 1) /\ << >> \in Seq(BOOLEAN)
  BY EmptySeq
<1> QED
  BY <1>1, DetectorAssumption DEF NewDetector, Detectors, NoInstant

\* record_disconnect leaves a detector.
LEMMA RecordDisconnectType ==
    ASSUME NEW d \in Detectors
    PROVE  RecordDisconnect(d) \in Detectors
<1>1. EventsAfterDisconnect(d) \in Seq(0..Window + 1)
  BY EventsType
<1>2. DisconnectTrips(d) \in BOOLEAN
  BY DEF DisconnectTrips
<1>3. (d.triggered \/ DisconnectTrips(d)) \in BOOLEAN
  OBVIOUS
<1> QED
  BY <1>1, <1>3 DEF RecordDisconnect, Detectors

\* record_probe of an answer leaves a detector.
LEMMA RecordProbeType ==
    ASSUME NEW d \in Detectors, NEW isSlow \in BOOLEAN
    PROVE  RecordProbe(d, isSlow) \in Detectors
<1>1. RecordLatency(d, isSlow) \in Seq(BOOLEAN)
  BY SlowType
<1>2. (d.triggered \/ ProbeTrips(d, isSlow)) \in BOOLEAN
  OBVIOUS
<1>3. (IF ProbeTrips(d, isSlow) THEN NoInstant ELSE d.clean) \in {NoInstant} \cup 0..ClearAfter
  BY DEF Detectors
<1>4. 0 \in 0..MaxMisses
  BY DetectorAssumption
<1>5. [d EXCEPT !.misses = 0,
                !.slow = RecordLatency(d, isSlow),
                !.triggered = d.triggered \/ ProbeTrips(d, isSlow),
                !.clean = IF ProbeTrips(d, isSlow) THEN NoInstant ELSE d.clean] \in Detectors
  BY <1>1, <1>2, <1>3, <1>4 DEF Detectors
<1> QED
  BY <1>5 DEF RecordProbe

\* record_probe of a miss: the count never passes its threshold.
LEMMA RecordMissType ==
    ASSUME NEW d \in Detectors
    PROVE  RecordMiss(d) \in Detectors
<1>1. (d.triggered \/ MissTrips(d)) \in BOOLEAN
  OBVIOUS
<1>2. (IF MissTrips(d) THEN NoInstant ELSE d.clean) \in {NoInstant} \cup 0..ClearAfter
  BY DEF Detectors
<1>3. (IF d.misses < MaxMisses THEN d.misses + 1 ELSE d.misses) \in 0..MaxMisses
  BY DetectorAssumption DEF Detectors
<1> QED
  BY <1>1, <1>2, <1>3 DEF RecordMiss, Detectors

\* tick_healthy leaves a detector, cleared or not.
LEMMA TickHealthyType ==
    ASSUME NEW d \in Detectors
    PROVE  TickHealthy(d) \in Detectors
<1>1. 0 \in {NoInstant} \cup 0..ClearAfter
  BY DetectorAssumption
<1>2. [d EXCEPT !.clean = 0] \in Detectors
  BY <1>1 DEF Detectors
<1>3. [NewDetector EXCEPT !.clean = d.clean] \in Detectors
  BY NewDetectorType DEF Detectors
<1> QED
  BY <1>2, <1>3 DEF TickHealthy

\* An age stays between zero and the limit at which it settles.
LEMMA OlderType ==
    ASSUME NEW limit \in Nat, NEW age \in {NoInstant} \cup 0..limit
    PROVE  /\ Older(age, limit) \in {NoInstant} \cup 0..limit
           /\ age \in 0..limit => Older(age, limit) \in 0..limit
  BY DEF Older, NoInstant

\* The clock ages every instant of the detector and nothing else.
LEMMA DetectorTickType ==
    ASSUME NEW d \in Detectors
    PROVE  DetectorTick(d) \in Detectors
<1> DEFINE aged == [i \in DOMAIN d.events |-> Older(d.events[i], Window + 1)]
<1>1. d.events \in Seq(0..Window + 1)
  BY DEF Detectors
<1>2. DOMAIN d.events = 1..Len(d.events) /\ Len(d.events) \in Nat
  BY <1>1, LenProperties
<1>3. \A i \in 1..Len(d.events) : aged[i] \in 0..Window + 1
  <2> TAKE i \in 1..Len(d.events)
  <2>1. d.events[i] \in 0..Window + 1
    BY <1>1, ElementOfSeq
  <2>2. Older(d.events[i], Window + 1) \in 0..Window + 1
    BY <2>1, DetectorAssumption, OlderType
  <2> QED
    BY <1>2, <2>2
<1>4. aged \in Seq(0..Window + 1)
  <2>1. aged \in [1..Len(d.events) -> 0..Window + 1]
    BY <1>2, <1>3
  <2> HIDE DEF aged
  <2> QED
    BY <1>2, <2>1, SeqDef
<1>5. Older(d.clean, ClearAfter) \in {NoInstant} \cup 0..ClearAfter
  BY DetectorAssumption, OlderType DEF Detectors
<1> HIDE DEF aged
<1>6. [d EXCEPT !.events = aged, !.clean = Older(d.clean, ClearAfter)] \in Detectors
  BY <1>4, <1>5 DEF Detectors
<1> QED
  BY <1>6 DEF DetectorTick, aged
=============================================================================
