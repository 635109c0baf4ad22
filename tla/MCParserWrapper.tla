--------------------------- MODULE MCParserWrapper ---------------------------
(* A small instance of ParserWrapper: two files, a project that includes    *)
(* one and refers to both, one that has the other, and every list of        *)
(* distinct files as a batch.                                               *)
EXTENDS ParserRefinement, TLC

CONSTANTS f1, f2, p1, p2

MCFile == {f1, f2}
MCBatches == {<<>>, <<f1>>, <<f2>>, <<f1, f2>>, <<f2, f1>>}

TwoProjects == {p1, p2}
TwoProjectsOwn == (p1 :> {f1}) @@ (p2 :> {f2})
TwoProjectsProgram == (p1 :> {f1, f2}) @@ (p2 :> {f2})
=============================================================================
