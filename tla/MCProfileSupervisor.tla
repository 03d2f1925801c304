------------------------ MODULE MCProfileSupervisor ------------------------
(***************************************************************************)
(* Small instances of ProfileSupervisor for TLC.                           *)
(***************************************************************************)
EXTENDS ProfileSupervisor

CONSTANTS e1, e2, f1, f2, c1, c2

OneEndpoint == {e1}
TwoEndpoints == {e1, e2}
ListOrder == [e \in Endpoints |-> IF e = e1 THEN 0 ELSE 1]
OnePriority == [e \in Endpoints |-> 0]

NoForward == {}
TwoForwards == {f1, f2}
ForwardOrder == [f \in Forwards |-> IF f = f1 THEN 0 ELSE 1]
FirstRequired == {f1}

OneClient == {c1}
TwoClients == {c1, c2}

NoRequests == {}
EveryRequest == AllRequests
ValidRequests == {q \in AllRequests : q.to \notin {UnknownPin, MalformedKey}}
=============================================================================
