------------------------- MODULE MCContainerMonitor -------------------------
(***************************************************************************)
(* Instances of two parts that share nothing: a container with any         *)
(* environment, started again and again on its volume, and runs of the     *)
(* update monitor.  A behaviour is one of a single part, with the other at *)
(* rest, and fair as that part is.                                         *)
(***************************************************************************)
EXTENDS MCEntrypoint, UpdateMonitor

VARIABLE part

ContainerRests == Init /\ cluster = "none" /\ lock = "free"

PartsInit == \/ part = "container" /\ Init /\ MonitorInit
             \/ part = "monitor" /\ MonitorInit /\ ContainerRests

PartsNext == /\ UNCHANGED part
             /\ \/ part = "container" /\ Next /\ UNCHANGED monitorVars
                \/ part = "monitor" /\ MonitorNext /\ UNCHANGED vars

PartsSpec == /\ PartsInit /\ [][PartsNext]_<<part, vars, monitorVars>>
             /\ \A c \in Containers : WF_vars(ScriptStep(c))
             /\ part = "monitor" => MonitorFairness

=============================================================================
