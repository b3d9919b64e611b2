-------------------------- MODULE BundleRefinement --------------------------
(***************************************************************************)
(* The runs of acquire in each checkout implement AtomicAdmission: its     *)
(* variables are those of the checkout and of the runs in it.              *)
(***************************************************************************)
EXTENDS BundleAcquire

RunsIn(c) == {r \in Runs : Dir[r] = c}
SeenIn(c) == [r \in RunsIn(c) |-> seen[r]]
ReturnedIn(c) == returned \cap RunsIn(c)

Admission(c) == INSTANCE AtomicAdmission
                  WITH Runs <- RunsIn(c), lock <- lock[c], out <- out[c],
                       seen <- SeenIn(c), returned <- ReturnedIn(c)

(* Whatever is edited, removed, killed or downloaded wrongly, an output    *)
(* directory only goes from absent to a complete bundle, and back when     *)
(* somebody removes it; it is never completed in place and never replaced, *)
(* and its LOCK-SHA256 is the digest of the very content whose files it    *)
(* holds, unless an edit during the run brought an earlier content back.   *)
ImplementsAdmission ==
  /\ \A c \in Checkouts : Admission(c)!Init
  /\ [][\A c \in Checkouts : [Admission(c)!Next]_(Admission(c)!vars)]_vars

=============================================================================
