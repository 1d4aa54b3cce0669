--------------------------- MODULE MCWallboardTV ---------------------------
(* Two screens, one profile and one polling query; time in units of half   *)
(* an hour, so that a token can expire while a reply is on its way.        *)
EXTENDS WallboardTV
CONSTANTS tv1, tv2, noc
MCQueries == {"summary"}
=============================================================================
