-------------------------- MODULE MCUserFileBunch --------------------------
(***************************************************************************)
(* Files of up to three lines, every combination of kinds, with and        *)
(* without a final newline; ignoring and skipping none or one line; one or *)
(* two loops; batch and interactive; recreation from events 0 to 3.        *)
(***************************************************************************)
EXTENDS UserFileBunch

MaxLines == 3

Files == UNION {[1..n -> LineKinds] : n \in 0..MaxLines}

\* nGenerate is 1 unless it is set; the offset is 0 only in a normal run; the
\* interactive configurations leave out what only batch runs depend on.
MCConfigs ==
    {c \in [lines                : Files,
            newline              : BOOLEAN,
            nlinesIgnore         : 0..1,
            nlinesSkip           : 0..1,
            distrFileLoop        : BOOLEAN,
            distrFileLoopNTimes  : 1..2,
            distrFileMatchLength : BOOLEAN,
            nGenerateSet         : BOOLEAN,
            nGenerate            : 1..3,
            batch                : BOOLEAN,
            recreate             : {"no", "option", "executable"},
            startFromEvent       : 0..3] :
        /\ c.lines = <<>> => c.newline
        /\ ~c.nGenerateSet => c.nGenerate = 1
        /\ c.recreate = "no" <=> c.startFromEvent = 0
        /\ ~c.batch => c.nlinesIgnore = 0 /\ c.nGenerate = 1}

MCBeamOns == 1..2
=============================================================================
