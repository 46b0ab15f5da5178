---------------------------- MODULE MCTelemetry -----------------------------
(***************************************************************************)
(* Two stations, one of them looked at by both of two browsers, one of     *)
(* which may switch; and the bridge with a restart, a broken link and      *)
(* records of all kinds.                                                   *)
(***************************************************************************)
EXTENDS LiveFeed

CONSTANTS b1, b2

MCStations == {"maitri", "bharati"}
MCDeployments == {{"bridge"}, {"web"}}
MCSwitching == {b1}
MCSockets == {<<b1, 0>>, <<b2, 0>>}
MCBrowsers == {b1, b2}
=============================================================================
