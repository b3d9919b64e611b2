-------------------------- MODULE ClusterLifecycle --------------------------
(***************************************************************************)
(* What docs/ARCHITECTURE.md and docs/STORAGE.md promise of a data         *)
(* directory, whatever the script does in between: an empty directory is   *)
(* initialized by one container at a time, an initialization ends with a   *)
(* ready cluster, with an empty directory again, or with remains nobody    *)
(* touches, and a cluster that is ready, or belongs to another major       *)
(* version, is replaced only while every container is stopped.             *)
(***************************************************************************)
CONSTANT Containers

VARIABLES
    data,      \* what the directory holds
    owner,     \* the container that initializes it, or "nobody"
    running    \* the containers that mount it

vars == <<data, owner, running>>

Init ==
    /\ data \in {"empty", "partial", "ready", "foreign"}
    /\ owner = "nobody"
    /\ running = {}

Arrive(c) ==
    /\ c \notin running
    /\ running' = running \cup {c}
    /\ UNCHANGED <<data, owner>>

Begin(c) ==
    /\ c \in running
    /\ owner = "nobody"
    /\ data = "empty"
    /\ owner' = c
    /\ UNCHANGED <<data, running>>

Fill(c) ==
    /\ owner = c
    /\ data = "empty"
    /\ data' = "partial"
    /\ UNCHANGED <<owner, running>>

Commit(c) ==
    /\ owner = c
    /\ data = "partial"
    /\ data' = "ready"
    /\ owner' = "nobody"
    /\ UNCHANGED running

(* Only the initializer takes its own work back; it may also just be gone. *)
Leave(c) ==
    /\ c \in running
    /\ running' = running \ {c}
    /\ \/ /\ owner = c
          /\ owner' = "nobody"
          /\ data' \in {data, "empty"}
       \/ /\ owner # c
          /\ UNCHANGED <<data, owner>>

Replace ==
    /\ running = {}
    /\ data' = "empty"
    /\ UNCHANGED <<owner, running>>

Next ==
    \/ \E c \in Containers :
          Arrive(c) \/ Begin(c) \/ Fill(c) \/ Commit(c) \/ Leave(c)
    \/ Replace

Spec == Init /\ [][Next]_vars
=============================================================================
