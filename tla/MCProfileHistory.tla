-------------------------- MODULE MCProfileHistory --------------------------
(***************************************************************************)
(* ProfileHistory on the small instances of ProfileSupervisor.             *)
(***************************************************************************)
EXTENDS MCProfileSupervisor, ProfileHistory
=============================================================================
