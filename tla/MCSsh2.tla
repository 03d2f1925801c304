------------------------------- MODULE MCSsh2 -------------------------------
(***************************************************************************)
(* Instances of Ssh2Forwards for TLC: a remote forward with two            *)
(* connections and a local one with one; or a remote forward alone, with   *)
(* one connection in its slot, one in its queue and one in the handler.    *)
(***************************************************************************)
EXTENDS Ssh2Forwards

CONSTANTS r, l, r1, r2, r3, l1

NoForward == {}
OneRemote == {r}
OneLocal == {l}
Three == {r1, r2, l1}
ThreeRemote == {r1, r2, r3}
First == {r1}
Owner == [n \in Conns |-> IF n = l1 THEN l ELSE r]
=============================================================================
