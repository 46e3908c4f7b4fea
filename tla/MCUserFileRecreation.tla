------------------------ MODULE MCUserFileRecreation ------------------------
(***************************************************************************)
(* Recreation of one event of a file of four lines, asked for by the       *)
(* executable option.                                                      *)
(***************************************************************************)
EXTENDS UserFileBunch

PlainFile ==
    [lines                : {<<"data", "data", "data", "data">>},
     newline              : {TRUE},
     nlinesIgnore         : {0},
     nlinesSkip           : {0},
     distrFileLoop        : {FALSE},
     distrFileLoopNTimes  : {1},
     distrFileMatchLength : {FALSE},
     nGenerateSet         : {TRUE},
     nGenerate            : {1},
     batch                : {TRUE},
     recreate             : {"executable"},
     startFromEvent       : 0..2]
=============================================================================
