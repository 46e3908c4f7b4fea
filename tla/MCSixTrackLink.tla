--------------------------- MODULE MCSixTrackLink ---------------------------
(***************************************************************************)
(* SixTrackLink for TLC: input files with no element, with one and with    *)
(* one twice; two particles; a primary crosses the sampler at most once.   *)
(***************************************************************************)
EXTENDS SixTrackLink

CONSTANTS a, b

MCNames == {a, b}
MCConfigs == {<<>>, <<a>>, <<a, a>>}
MCBeams == {{1, 3}}
MCOutcomes == {<<>>, <<"primary">>, <<"secondary", "primary">>,
               <<"secondary", "secondary">>}
=============================================================================
