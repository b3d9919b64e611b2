--------------------------- MODULE MCOfflineBuild ---------------------------
(***************************************************************************)
(* Instances of OfflineBuild: two builds in one checkout, and two builds   *)
(* in two.  Both contents of a lock are valid and list different files.    *)
(***************************************************************************)
EXTENDS OfflineBuild, TLC

CONSTANTS b1, b2, c1, c2, v1, v2

MCRuns == {b1, b2}
OneDir == (b1 :> c1) @@ (b2 :> c1)
TwoDirs == (b1 :> c1) @@ (b2 :> c2)
MCVersions == {v1, v2}

(* A content stands for the only file it lists.                            *)
MCInventory == [v \in MCVersions |-> <<v>>]

Symmetries == Permutations(MCVersions) \cup Permutations(MCRuns)

=============================================================================
