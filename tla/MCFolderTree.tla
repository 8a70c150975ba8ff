---------------------------- MODULE MCFolderTree ----------------------------
(* An instance of FolderTree for TLC: a folder a, in it b and in b a file, *)
(* what is new, and a deletion that meets two other requests.              *)
EXTENDS FolderTree

CONSTANTS a, b, new, inside, newFile, r1, r2, r3

Tree == (a :> Root) @@ (b :> a)
FileInside == (inside :> b)
OpsOf == (r1 :> {"DeleteFolder"}) @@ (r2 :> {"AddFolder", "PatchFolder"})
         @@ (r3 :> {"DeleteFolder", "Upload"})

=============================================================================
