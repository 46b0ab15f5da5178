------------------------------ MODULE MCGuard -------------------------------
(***************************************************************************)
(* Three unequal sets and a series of two intervals, reset at will.  The   *)
(* powers of a situation are multiples of 12, so that shares are whole.    *)
(***************************************************************************)
EXTENDS Guard, TLC

CONSTANTS g1, g2, g3

MCGensets == {g1, g2, g3}
MCOrder == <<g1, g2, g3>>
MCRated == g1 :> 24 @@ g2 :> 12 @@ g3 :> 12
MCMinStable == g1 :> 6 @@ g2 :> 3 @@ g3 :> 3
MCTargetLoad == g1 :> 20 @@ g2 :> 10 @@ g3 :> 10
MCBurnOff == g1 :> 18 @@ g2 :> 9 @@ g3 :> 9
MCLoads == {24}
MCPacks == <<1, 2>>
MCPowers == [DOMAIN MCPacks -> {0, 12}]
MCSituations ==
  [electrical : {0, 36, 60}, melt : {0, 12}, renewable : {0, 60},
   charge : MCPowers, discharge : MCPowers,
   stuck : SUBSET MCGensets, fouled : {{}, {g2}}]
=============================================================================
