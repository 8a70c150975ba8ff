--------------------------- MODULE MCClientPages ---------------------------
EXTENDS ClientPages

AllViews == UNION {ViewsOf(p) : p \in DOMAIN Pages}
\* Every control of the dataset page bears on the busy slices; the hidden ones are behind a tab or a dialog.
Busy == {"about", "license", "foldersAndFiles", "frozenDatasets", "folderPath", "listeners", "publicAbout", "visConfig"}
Hidden == {"roles", "datasetMetadataList", "currJobSummary"}
MovesBySlice == [s \in Slices |-> CASE s \in Busy -> 1 [] s \in Hidden -> 3 [] OTHER -> 2]
MetadataForm == {[page |-> "Dataset", slice |-> "datasetMetadataList"]}
ThreeMoves == [s \in Slices |-> 3]
=============================================================================
