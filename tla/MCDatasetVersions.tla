------------------------- MODULE MCDatasetVersions -------------------------
(* Instances of DatasetVersions for TLC. *)
EXTENDS DatasetVersions, TLC

CONSTANTS f1, f2

OneFile == {f1}
TwoFiles == {f1, f2}

\* The requests are interchangeable, and f1 and f2 are where both are in the dataset.
Symmetry == Permutations(Requests)

=============================================================================
