--------------------------- MODULE MCTurnControl ---------------------------
(***************************************************************************)
(* Programs of three events of up to three turns: a bunch that starts at the *)
(* beginning of the ring, further on, or in its last metre, and files of   *)
(* events with one or two primaries.                                       *)
(***************************************************************************)
EXTENDS TurnControl

ConfigsOf(turns, maps, files, primaries, offsets, shorts) ==
    [nTurns : turns, hasMap : maps, fromFile : files, nPrimaries : primaries,
     offsetS0 : offsets, short : shorts, nEvents : {3}]

BunchConfigs ==
    ConfigsOf(1..3, BOOLEAN, {FALSE}, {1}, {FALSE}, {FALSE})
        \union ConfigsOf(1..3, {TRUE}, {FALSE}, {1}, {TRUE}, BOOLEAN)
FileConfigs == ConfigsOf(1..2, BOOLEAN, {TRUE}, {1, 2}, {FALSE}, {FALSE})

MCConfigs == BunchConfigs \union FileConfigs
OneLongRing == ConfigsOf({2}, {TRUE}, {FALSE}, {1}, {FALSE}, {FALSE})
=============================================================================
