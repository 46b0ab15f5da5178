----------------------------- MODULE MCDispatch -----------------------------
(***************************************************************************)
(* Two equal sets of 4 kW with a floor of 1, boilers of 2.  Life support   *)
(* and reserve need one set; the electrical load is below life support,    *)
(* ordinary, or beyond one set; the heat is within the boilers, within     *)
(* what one set recovers, and beyond one set.                              *)
(***************************************************************************)
EXTENDS Dispatch, TLC

CONSTANTS g1, g2

MCGensets == {g1, g2}
MCOrder == <<g1, g2>>
MCRated == g1 :> 4 @@ g2 :> 4
MCMinStable == g1 :> 1 @@ g2 :> 1

MCConditions ==
  [electrical : {1, 3, 6}, critical : {2}, heat : {0, 3, 5, 8}, renewable : {0, 3},
   maxCharge : {0, 3}, maxDischarge : {0, 2}]
MCSetpoints == {0, 2, 5}
MCCharges == {0, 4}
MCDischarges == {0, 3}
MCMelts == {0, 3}
=============================================================================
