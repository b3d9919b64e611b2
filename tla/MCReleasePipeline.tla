------------------------- MODULE MCReleasePipeline -------------------------
(***************************************************************************)
(* Instances of ReleasePipeline.  Commit 1 is of one PostgreSQL version,  *)
(* whose tag u1 has the sequence 1 of a day.  Commit 2 is of another; its  *)
(* changelog has sections for t1 and t2, the sequences 1 and 2 of that     *)
(* day, and for v1, the sequence 1 of the next.  Two builds of commit 1    *)
(* for amd64 differ.                                                       *)
(***************************************************************************)
EXTENDS ReleaseRefinement, TLC

CONSTANTS t1, t2, u1, v1, x, y

MCDate == [t \in Tags |-> IF t = v1 THEN 2 ELSE 1]
MCSeq == [t \in Tags |-> IF t = t2 THEN 2 ELSE 1]
MCAgrees == {<<1, u1>>, <<2, t1>>, <<2, t2>>, <<2, v1>>}
OneVersion == Commits \X Tags
MCOutcomes == [b \in Commits \X Archs |-> IF b = <<1, "amd64">> THEN {x, y} ELSE {x}]
Symmetry == Permutations(Runs)

=============================================================================
