------------------------------ MODULE Machines ------------------------------
(***************************************************************************)
(* The machines of a station as both halves of the safety projection know  *)
(* them: the generating sets, their order, and the boilers.                *)
(***************************************************************************)
EXTENDS Integers, Sequences, FiniteSets

CONSTANTS
  Gensets,        \* the station's generating sets
  Order,          \* Gensets as a sequence, in the order of the code's sort
  Rated,          \* rated_kw of each set
  BoilerRated,    \* ThermalSpec.boiler_rated_kw
  ReserveMargin   \* Criticality.reserve_margin_kw

N == Len(Order)

ASSUME OrderAssumption ==
  /\ IsFiniteSet(Gensets)
  /\ N \in Nat
  /\ Order \in [1..N -> Gensets]
  /\ \A g \in Gensets : \E i \in 1..N : Order[i] = g
  /\ \A i, j \in 1..N : i < j => Rated[Order[i]] >= Rated[Order[j]]

ASSUME RatingAssumption ==
  /\ Rated \in [Gensets -> Nat]
  /\ BoilerRated \in Nat
  /\ ReserveMargin \in Nat
=============================================================================
