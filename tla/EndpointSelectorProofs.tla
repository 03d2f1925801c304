----------------------- MODULE EndpointSelectorProofs -----------------------
(***************************************************************************)
(* Facts about the endpoint selector, for every set of endpoints, every    *)
(* order and every priority.                                               *)
(***************************************************************************)
EXTENDS EndpointSelector, WellFoundedInduction, TLAPS

\* A function into the naturals has a least value on a set that is not empty.
LEMMA LeastExists ==
    ASSUME NEW S, S # {}, NEW g \in [S -> Nat]
    PROVE  \E e \in S : \A f \in S : g[e] <= g[f]
<1> DEFINE T == {g[e] : e \in S}
<1>1. T \subseteq Nat /\ T # {}
  OBVIOUS
<1>2. PICK x \in T : \A y \in T : ~(<<y, x>> \in OpToRel(<, Nat))
  BY <1>1, WFMin, NatLessThanWellFounded
<1>3. \A y \in T : x <= y
  <2> TAKE y \in T
  <2>1. x \in Nat /\ y \in Nat
    BY <1>1
  <2>2. ~(y < x)
    BY <1>2, <2>1 DEF OpToRel
  <2> QED
    BY <2>1, <2>2
<1>4. PICK e \in S : x = g[e]
  OBVIOUS
<1> QED
  BY <1>3, <1>4

\* First picks a member of every set of endpoints that is not empty.
LEMMA FirstIsMember ==
    ASSUME NEW S \in SUBSET Endpoints, S # {}
    PROVE  First(S) \in S
<1> DEFINE g == [e \in S |-> Position[e]]
<1>1. g \in [S -> Nat]
  BY SelectorAssumption
<1>2. \E e \in S : \A f \in S : g[e] <= g[f]
  BY <1>1, LeastExists
<1> QED
  BY <1>2 DEF First

\* least_bad_fallback returns a configured endpoint.
LEMMA LeastBadIsEndpoint ==
    ASSUME NEW s \in Selectors, Endpoints # {}
    PROVE  LeastBad(s) \in Endpoints
<1>1. s.cooldown \in [Endpoints -> Nat]
  BY DEF Selectors
<1>2. \E e \in Endpoints : \A f \in Endpoints : s.cooldown[e] <= s.cooldown[f]
  BY <1>1, LeastExists
<1> QED
  BY <1>2, FirstIsMember DEF LeastBad

\* There is a healthy endpoint of the lowest priority value if there is a
\* healthy one at all.
LEMMA CohortIsNotEmpty ==
    ASSUME NEW s \in Selectors, Healthy(s) # {}
    PROVE  Cohort(s) # {}
<1> DEFINE g == [e \in Healthy(s) |-> Priority[e]]
<1>1. g \in [Healthy(s) -> Nat]
  BY SelectorAssumption DEF Healthy
<1>2. \E e \in Healthy(s) : \A f \in Healthy(s) : g[e] <= g[f]
  BY <1>1, LeastExists
<1> QED
  BY <1>2 DEF Cohort

\* pick returns a configured endpoint, and one that is cooling down only when
\* every endpoint is: the pin gives way to a cooldown (pick).
THEOREM PickPrefersHealthy ==
    ASSUME NEW s \in Selectors
    PROVE  /\ Pick(s) \subseteq Endpoints
           /\ \A e \in Pick(s) : Cooling(s, e) => Healthy(s) = {}
<1>1. CASE Endpoints = {} \/ s.manual = UnknownPin
  BY <1>1 DEF Pick
<1>2. CASE ~(Endpoints = {} \/ s.manual = UnknownPin) /\ s.manual \in Healthy(s)
  BY <1>2 DEF Pick, Healthy
<1>3. CASE /\ ~(Endpoints = {} \/ s.manual = UnknownPin) /\ s.manual \notin Healthy(s)
           /\ FailoverMode = "Manual"
  BY <1>3 DEF Pick
<1>4. CASE /\ ~(Endpoints = {} \/ s.manual = UnknownPin) /\ s.manual \notin Healthy(s)
           /\ FailoverMode # "Manual" /\ Healthy(s) = {}
  BY <1>4, LeastBadIsEndpoint DEF Pick
<1>5. CASE /\ ~(Endpoints = {} \/ s.manual = UnknownPin) /\ s.manual \notin Healthy(s)
           /\ FailoverMode # "Manual" /\ Healthy(s) # {}
  <2>1. Cohort(s) \in SUBSET Endpoints /\ Cohort(s) # {} /\ Cohort(s) \subseteq Healthy(s)
    BY <1>5, CohortIsNotEmpty DEF Cohort, Healthy
  <2>2. First(Cohort(s)) \in Cohort(s)
    BY <2>1, FirstIsMember
  <2>3. Pick(s) \subseteq Cohort(s)
    BY <1>5, <2>2 DEF Pick
  <2> QED
    BY <2>1, <2>3 DEF Healthy
<1> QED
  BY <1>1, <1>2, <1>3, <1>4, <1>5

\* A profile that is not in manual mode and whose override is not unknown is
\* never stranded: pick returns an endpoint, however many are cooling down
\* (least_bad_fallback, F2(a)).
THEOREM PickNeverStrands ==
    ASSUME NEW s \in Selectors, Endpoints # {}, FailoverMode # "Manual",
           s.manual # UnknownPin
    PROVE  Pick(s) # {}
<1>1. Healthy(s) # {} => Cohort(s) # {}
  BY CohortIsNotEmpty
<1> QED
  BY <1>1 DEF Pick

\* The operations of the selector keep its state in Selectors.
LEMMA SelectorTypes ==
    ASSUME NEW s \in Selectors, NEW e \in Endpoints
    PROVE  /\ RecordSuccess(s, e) \in Selectors
           /\ RecordFailure(s, e) \in Selectors
           /\ \A m \in Endpoints \cup {NoPin, UnknownPin} : SetManual(s, m) \in Selectors
<1> USE U32Assumption, SelectorAssumption DEF Selectors
<1>1. RecordSuccess(s, e) \in Selectors
  <2>1. (IF s.manual = e THEN NoPin ELSE s.manual) \in Endpoints \cup {NoPin, UnknownPin}
    OBVIOUS
  <2> QED
    BY <2>1 DEF RecordSuccess
<1>2. RecordFailure(s, e) \in Selectors
  <2>1. SatInc(s.failures[e]) \in 0..U32Max
    BY DEF SatInc
  <2>2. SatInc(s.failures[e]) * CooldownUnit \in Nat
    BY <2>1
  <2> QED
    BY <2>1, <2>2 DEF RecordFailure
<1>3. \A m \in Endpoints \cup {NoPin, UnknownPin} : SetManual(s, m) \in Selectors
  BY DEF SetManual
<1> QED
  BY <1>1, <1>2, <1>3

\* The clock keeps the state, and the override, of the selector.
LEMMA SelectorTickType ==
    ASSUME NEW s \in Selectors
    PROVE  SelectorTick(s) \in Selectors /\ SelectorTick(s).manual = s.manual
  BY DEF SelectorTick, Selectors

\* A new selector is a selector.
LEMMA NewSelectorType == NewSelector \in Selectors
  BY U32Assumption DEF NewSelector, Selectors

\* A connection that succeeds consumes its override: the pin that is left never
\* names the endpoint that was reached (record_success, E1-F12).
LEMMA SuccessConsumesPin ==
    ASSUME NEW s \in Selectors, NEW e \in Endpoints
    PROVE  RecordSuccess(s, e).manual # e
  BY SelectorAssumption DEF Selectors, RecordSuccess
=============================================================================
