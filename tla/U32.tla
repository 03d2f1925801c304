-------------------------------- MODULE U32 --------------------------------
(***************************************************************************)
(* The u32 counters of the supervisor: Backoff::attempt and                *)
(* EndpointEntry::consecutive_failures.  Both only ever grow by one with   *)
(* saturating_add, so a small U32Max reaches the saturated case.           *)
(***************************************************************************)
EXTENDS Integers

CONSTANT U32Max

ASSUME U32Assumption == U32Max \in Nat \ {0}

\* n.saturating_add(1).
SatInc(n) == IF n < U32Max THEN n + 1 ELSE n
=============================================================================
