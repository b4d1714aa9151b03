-------------------------- MODULE MCFilesOwnership --------------------------
(***************************************************************************)
(* Instances of FilesOwnership for TLC: two files are enough for one to    *)
(* replace the other, two owners for a file to move between them.          *)
(***************************************************************************)
EXTENDS FilesOwnership, TLC

CONSTANTS f1, f2, o1, o2, a1, a2

TwoFiles == {f1, f2}
TwoOwners == {o1, o2}
TwoAttachers == {a1, a2}

Symmetry == Permutations(TwoFiles) \cup Permutations(TwoOwners) \cup Permutations(TwoAttachers)

=============================================================================
