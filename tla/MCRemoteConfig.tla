--------------------------- MODULE MCRemoteConfig ---------------------------
(***************************************************************************)
(* Small instances of RemoteConfig for TLC.                                *)
(***************************************************************************)
EXTENDS RemoteConfig

CONSTANTS b1, b2, b3

ThreeBodies == {b1, b2, b3}
TwoTagged == {b1, b2}
OneBody == {b1}
=============================================================================
