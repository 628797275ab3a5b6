-------------------------- MODULE MCReprepoMirror ---------------------------
(* Two files, one to be dropped and one to come; two runs, so that one can *)
(* start while a command of the other is still there.                      *)
EXTENDS ReprepoMirror

CONSTANTS f1, f2, r1, r2

MCFiles == {f1, f2}
MCRuns == {r1, r2}

=============================================================================
