--------------------------- MODULE MCControlPlane ---------------------------
(***************************************************************************)
(* A pool of two workers, one of which may be a stream's: two streams that *)
(* compete for its slot and two single calls.                              *)
(***************************************************************************)
EXTENDS ControlPlane

CONSTANTS s1, s2, u1, u2

MCStreams == {s1, s2}
MCUnaries == {u1, u2}
=============================================================================
