-------------------------- MODULE MCBundleAcquire --------------------------
(***************************************************************************)
(* Instances of BundleAcquire.  Contents 1 and 2 of the lock are valid and *)
(* list different files, 3 is not valid.                                   *)
(***************************************************************************)
EXTENDS BundleRefinement, TLC

CONSTANTS a, b, r1, r2, c1

MCRuns == {r1, r2}
MCDir == (r1 :> c1) @@ (r2 :> c1)
MCFiles == {a, b}
MCInventory == (1 :> <<a>>) @@ (2 :> <<a, b>>)
MCVersions == 1 .. 3
MCValid == {1, 2}

=============================================================================
