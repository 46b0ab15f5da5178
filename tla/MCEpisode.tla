----------------------------- MODULE MCEpisode -----------------------------
(***************************************************************************)
(* One set that has to turn two hours and to rest one, an exterior pack of *)
(* 2 kWh that loses half of what it takes and half of what it gives, and   *)
(* five intervals in days of two hours.                                    *)
(***************************************************************************)
EXTENDS Episode, TLC

CONSTANTS g1, b1

MCGensets == {g1}
MCOrder == <<g1>>
MCRated == g1 :> 4
MCLoads == {2}
MCHeats == {0}
NotSensed == {}
MCPacks == {b1}
MCExterior == {b1}
MCTemperatures == {0, 2}
MCDerated == b1 :> (0 :> 1 @@ 2 :> 2)
MCFrozen == b1 :> {0}
=============================================================================
