------------------------- MODULE RemoteConfigProofs -------------------------
(***************************************************************************)
(* What RemoteConfig promises, for any set of bodies, any of them tagged,  *)
(* and any number of changes.  The invariants the run checks are not       *)
(* inductive: a body is only known to be pinned because the cache cannot   *)
(* change between the load of it and its delivery, which LoopInv records.  *)
(***************************************************************************)
EXTENDS RemoteConfig, TLAPS

Inv == TypeOK /\ LoopInv

\* The invariant holds before the first poll (Init).
LEMMA InitInv == Init => Inv
<1> SUFFICES ASSUME Init PROVE TypeOK /\ LoopInv
  BY DEF Inv
<1>1. /\ asked \in (Bodies \cup {None}) \X (Tagged \cup {None})
      /\ changes \in 0..MaxChanges
  BY RemoteAssumption DEF Init, Nothing
<1>2. rejected \in BOOLEAN
  BY DEF Init
<1> QED
  BY <1>1, <1>2 DEF Init, TypeOK, LoopInv

\* Every step of the loop, of the server and of the process keeps it (Next).
LEMMA NextInv == Inv /\ [Next]_vars => Inv'
<1> SUFFICES ASSUME Inv, [Next]_vars PROVE Inv'
  OBVIOUS
<1> USE RemoteAssumption DEF Inv, TypeOK, LoopInv, Nothing, files, memory
<1>1. CASE Wake
  BY <1>1 DEF Wake
<1>2. CASE Mismatch
  BY <1>2 DEF Mismatch, Serves, Sleep
<1>3. CASE SaveBody
  BY <1>3 DEF SaveBody, Serves
<1>4. CASE SaveSidecar
  BY <1>4 DEF SaveSidecar, Deliver, Sleep, Tag
<1>5. CASE NotModified
  BY <1>5 DEF NotModified, Sleep
<1>6. CASE FallBack
  BY <1>6 DEF FallBack, CacheVerifies, Deliver, Sleep
<1>7. CASE FetchFails
  BY <1>7 DEF FetchFails, Sleep
<1>8. CASE Applied
  BY <1>8 DEF Applied, Sleep
<1>9. CASE ApplyFails
  BY <1>9 DEF ApplyFails, Sleep, Change
<1>10. CASE ServerChanges
  BY <1>10 DEF ServerChanges, Change
<1>11. CASE Killed
  <2>1. rejected' \in BOOLEAN
    BY <1>11 DEF Killed
  <2>2. changes' \in 0..MaxChanges
    BY <1>11 DEF Killed, Change
  <2>3. asked' \in (Bodies \cup {None}) \X (Tagged \cup {None})
    BY <1>11 DEF Killed
  <2> QED
    BY <1>11, <2>1, <2>2, <2>3 DEF Killed
<1>12. CASE Restarted
  BY <1>12 DEF Restarted
<1>13. CASE SaveFails
  BY <1>13 DEF SaveFails, Sleep, Change
<1>14. CASE UNCHANGED vars
  BY <1>14 DEF vars
<1> QED
  BY <1>1, <1>2, <1>3, <1>4, <1>5, <1>6, <1>7, <1>8, <1>9, <1>10, <1>11, <1>12, <1>13, <1>14
  DEF Next

\* The state of the poll loop and of its cache is well typed (run_loop).
THEOREM RemoteTypeOK == Spec => []TypeOK
<1>1. Inv => TypeOK
  BY DEF Inv
<1> QED
  BY <1>1, InitInv, NextInv, PTL DEF Spec

\* A process runs, and is handed, the pinned body or none, whatever it finds
\* in the cache (fetch, verify_cache_against_pin).
THEOREM PinIsKept == Spec => []OnlyPinnedRuns
<1>1. Inv => OnlyPinnedRuns
  BY DEF Inv, TypeOK, LoopInv, OnlyPinnedRuns
<1> QED
  BY <1>1, InitInv, NextInv, PTL DEF Spec

\* What runs, or is about to, can be had from the cache at the next start
\* (fetch, save_atomic).
THEOREM CacheIsReady == Spec => []PinnedBodyIsCached
<1>1. Inv => PinnedBodyIsCached
  BY DEF Inv, LoopInv, PinnedBodyIsCached
<1> QED
  BY <1>1, InitInv, NextInv, PTL DEF Spec
=============================================================================
