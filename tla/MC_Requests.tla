---------------------------- MODULE MC_Requests ----------------------------
(***************************************************************************)
(* Two calls through each of the three bridges; the handler of one of them *)
(* has servers to ask, and streams one chunk.  Two texts are typed.        *)
(***************************************************************************)
EXTENDS Requests

CONSTANTS c1, c2

Two == {c1, c2}
One == {c1}
AllBridges == {"sidecar", "module", "http"}
=============================================================================
