------------------------ MODULE ImmutablePublication ------------------------
(***************************************************************************)
(* What docs/VERSION.md and docs/RELEASE.md promise a consumer: a release  *)
(* tag names one image index for ever, and what a GitHub Release announces *)
(* under a tag is the index the tag names.                                 *)
(***************************************************************************)
CONSTANTS Tags, Indexes, None

VARIABLES published,  \* the index a release tag names in the registry
          announced   \* the index the GitHub Release of a tag describes

vars == <<published, announced>>

Init == /\ published = [t \in Tags |-> None]
        /\ announced = [t \in Tags |-> None]

Publish(t) == /\ published[t] = None
              /\ published'[t] \in Indexes
              /\ published' = [published EXCEPT ![t] = published'[t]]
              /\ UNCHANGED announced

Announce(t) == /\ published[t] # None /\ announced[t] = None
               /\ announced' = [announced EXCEPT ![t] = published[t]]
               /\ UNCHANGED published

Next == \E t \in Tags : Publish(t) \/ Announce(t)

Spec == Init /\ [][Next]_vars

=============================================================================
