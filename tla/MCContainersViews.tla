-------------------------- MODULE MCContainersViews -------------------------
(***************************************************************************)
(* Instances of two parts that share nothing: containers that initialize   *)
(* one volume at the same time, and runs of the control views.  A          *)
(* behaviour is one of a single part, with the other at rest.              *)
(***************************************************************************)
EXTENDS MCEntrypoint, MCControlViews

VARIABLE part

ContainersRest == Init /\ cluster = "none" /\ lock = "free"
ViewsRest == ViewsInit /\ oscal = "good" /\ sources = <<>> /\ exceptions = <<>>

PartsInit == \/ part = "containers" /\ Init /\ ViewsRest
             \/ part = "views" /\ ViewsInit /\ ContainersRest

PartsNext == /\ UNCHANGED part
             /\ \/ part = "containers" /\ Next /\ UNCHANGED viewsVars
                \/ part = "views" /\ ViewsNext /\ UNCHANGED vars

PartsSpec == PartsInit /\ [][PartsNext]_<<part, vars, viewsVars>>

=============================================================================
