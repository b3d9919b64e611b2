------------------------- MODULE ReleaseRefinement -------------------------
(***************************************************************************)
(* The release workflow implements ImmutablePublication for the tags that  *)
(* are protected and of whose runs only failed jobs are re-run.            *)
(***************************************************************************)
EXTENDS ReleasePipeline

Publication == INSTANCE ImmutablePublication
  WITH Tags <- Kept,
       published <- [t \in Kept |-> oci[t]],
       announced <- [t \in Kept |-> announced[t]]

(* What a release tag names never changes, and the GitHub Release of a tag *)
(* describes what the tag names, through failures, approvals that take     *)
(* days, partial publication and re-runs of failed jobs.                   *)
ImplementsPublication == Publication!Spec

=============================================================================
