--------------------------- MODULE MCOutputFiles ---------------------------
(***************************************************************************)
(* Files of up to three events, programs of up to five, and interactive    *)
(* programs of two runs, with or without files of earlier programs.        *)
(***************************************************************************)
EXTENDS OutputFiles

Plain == [number |-> NoNumber, copy |-> 0]
PlainCopy == [number |-> NoNumber, copy |-> 1]
Number0 == [number |-> 0, copy |-> 0]
Number1 == [number |-> 1, copy |-> 0]

ConfigsOf(nPerFiles, nGenerates, modes, existing) ==
    [nPerFile   : nPerFiles,
     nGenerate  : nGenerates,
     outfileSet : BOOLEAN,
     batch      : modes,
     existing   : existing]

MCConfigs == ConfigsOf(0..3, 1..5, BOOLEAN, {{}, {Plain, Number1}, {Plain, PlainCopy, Number0}})
MCBeamOns == {1, 3}

\* Programs that find a file of the name given, in either mode.
NamedConfigs == ConfigsOf({0, 2}, {2}, BOOLEAN, {{Plain}})
=============================================================================
