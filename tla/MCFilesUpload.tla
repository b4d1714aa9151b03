--------------------------- MODULE MCFilesUpload ---------------------------
(***************************************************************************)
(* Instances of FilesUpload for TLC: two files, so that one upload's bytes *)
(* can be taken by another's handler, and one or two requests in flight.   *)
(***************************************************************************)
EXTENDS FilesUpload, TLC

CONSTANTS f1, f2, c1, c2

TwoFiles == {f1, f2}
OneCall == {c1}
TwoCalls == {c1, c2}

\* Files and requests are interchangeable; used where no liveness is checked.
Symmetry == Permutations(TwoFiles) \cup Permutations(TwoCalls)

=============================================================================
