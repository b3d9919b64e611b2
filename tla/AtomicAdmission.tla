-------------------------- MODULE AtomicAdmission --------------------------
(***************************************************************************)
(* What acquiring an artifact bundle promises (docs/ARTIFACT-ACQUISITION:  *)
(* "atomically admits a complete bundle", "will not reuse or overwrite a   *)
(* partially acquired directory").  A directory with the final name holds  *)
(* all the files of one content of the lock and its manifests, under the   *)
(* digest of a content the lock had while the run that made it was at      *)
(* work, and stays as it is until somebody removes it.  It is the digest   *)
(* of that very content, unless the lock file was changed during the run   *)
(* and then changed back.                                                  *)
(***************************************************************************)
CONSTANTS Runs,       \* those who acquire the bundle
          Versions,   \* the contents a lock file may have
          Valid,      \* those that validate_lock accepts
          Inventory,  \* the files a valid content lists
          None        \* there is no directory with the final name

VARIABLES lock,       \* the content of the lock file
          out,        \* the directory with the final name, or None
          seen,       \* the contents of the file since a run began; {}: no run
          returned    \* the runs since whose beginning a content came back

vars == <<lock, out, seen, returned>>

Init == /\ lock \in Versions
        /\ out = None
        /\ seen = [r \in Runs |-> {}]
        /\ returned = {}

(* Somebody edits the lock file.                                           *)
Edit == \E v \in Versions \ {lock} :
  /\ lock' = v
  /\ seen' = [r \in Runs |-> IF seen[r] = {} THEN {} ELSE seen[r] \cup {v}]
  /\ returned' = returned \cup {r \in Runs : v \in seen[r]}
  /\ UNCHANGED out

Begin(r) == /\ seen[r] = {} /\ lock \in Valid
            /\ seen' = [seen EXCEPT ![r] = {lock}]
            /\ UNCHANGED <<lock, out, returned>>

(* The run is over.                                                        *)
Over(r) == /\ seen' = [seen EXCEPT ![r] = {}]
           /\ returned' = returned \ {r}
           /\ UNCHANGED lock

(* The bundle of contents the run has seen appears, all of it at once.     *)
Admit(r) == /\ out = None
            /\ \E v \in Valid \cap seen[r], w \in seen[r] :
                 /\ v = w \/ r \in returned
                 /\ out' = [files |-> Inventory[v], sha |-> w,
                            manifest |-> Inventory[v]]
            /\ Over(r)

(* The run ends without a bundle.                                          *)
Abort(r) == Over(r) /\ UNCHANGED out

(* Somebody removes the directory.                                         *)
Clear == /\ out' = None
         /\ UNCHANGED <<lock, seen, returned>>

Next == \/ Edit \/ Clear
        \/ \E r \in Runs : Begin(r) \/ Admit(r) \/ Abort(r)

Spec == Init /\ [][Next]_vars

=============================================================================
