----------------------- MODULE MCEventFileGenerator ------------------------
(***************************************************************************)
(* Files of up to three entries in every pattern of passing and filtered,  *)
(* read once or four times, from either kind of file; skips and offsets    *)
(* from none to past one pass; batch and interactive.                      *)
(***************************************************************************)
EXTENDS EventFileGenerator

MaxEntries == 3

Files == UNION {[1..n -> BOOLEAN] : n \in 0..MaxEntries}

ConfigsOf(files, skips, offsets) ==
    {c \in [kind                 : {"hepmc", "sampler"},
            passes               : files,
            distrFileLoop        : BOOLEAN,
            distrFileLoopNTimes  : {1, 4},
            distrFileMatchLength : BOOLEAN,
            nGenerate            : {0, 2, 5},
            nEventsSkip          : skips,
            recreate             : BOOLEAN,
            startFromEvent       : offsets,
            batch                : BOOLEAN] :
        /\ ~c.recreate => c.startFromEvent = 0
        /\ c.distrFileMatchLength => c.nGenerate = 2
        /\ ~c.batch => ~c.distrFileLoop
        /\ c.batch => c.nGenerate > 0}

MCConfigs == ConfigsOf(Files, 0..5, {0, 1, 3, 4})
MCBeamOns == {1, 3}

\* A file in which every entry passes, for what the manual says of skipping and
\* of repeating a file.
PlainFile == {<<TRUE, TRUE, TRUE>>}
SkipConfigs == ConfigsOf(PlainFile, 0..2, {0})
=============================================================================
