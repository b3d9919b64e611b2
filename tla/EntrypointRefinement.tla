------------------------ MODULE EntrypointRefinement ------------------------
(***************************************************************************)
(* Entrypoint implements ClusterLifecycle: the directory is initialized by *)
(* the container whose initdb is at work in it, or was killed in it while  *)
(* the shell has not gone on yet.                                          *)
(***************************************************************************)
EXTENDS Entrypoint

Data ==
    CASE cluster = "none"                   -> "empty"
      [] cluster \in {"started", "versioned"} -> "partial"
      [] cluster = "complete"               -> "ready"
      [] cluster = "foreign"                -> "foreign"

Initializing == {c \in Containers : pc[c] \in Initdb}

Owner == IF Initializing = {} THEN "nobody"
                              ELSE CHOOSE c \in Initializing : TRUE

Lifecycle == INSTANCE ClusterLifecycle WITH data    <- Data,
                                            owner   <- Owner,
                                            running <- Alive

(* Every behaviour of the containers is one of the lifecycle: an empty     *)
(* directory is initialized by one container at a time, remains are left   *)
(* alone, and a cluster is replaced only with every container stopped.     *)
ImplementsLifecycle == Lifecycle!Spec
=============================================================================
