---------------------------- MODULE MCEntrypoint ----------------------------
(* Instances of Entrypoint for TLC. *)
EXTENDS EntrypointRefinement

CONSTANTS c1, c2, c3

(* Every environment: for runs with one container at a time.               *)
AllEnvs == EnvType

Good == [tls |-> FALSE, password |-> TRUE, db |-> "user", files |-> TRUE]

(* One environment that cannot go wrong by itself.                         *)
GoodEnv == {Good}

(* One that goes through every step, TLS files and a database included.    *)
BusyEnv == {[Good EXCEPT !.tls = TRUE, !.db = "other"]}
=============================================================================
