----------------------------- MODULE MCLearning -----------------------------
(***************************************************************************)
(* Campaigns of three rounds over two stations, and jobs on their own,     *)
(* with two kills; jobs of four steps over a buffer of three.              *)
(***************************************************************************)
EXTENDS Federated

MCIntervals == {0, 2, 3}
=============================================================================
