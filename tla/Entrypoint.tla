----------------------------- MODULE Entrypoint -----------------------------
(***************************************************************************)
(* container/entrypoint.sh as PID 1 of one or more containers that mount   *)
(* the same data volume, invoked with the `postgres' command.              *)
(*                                                                         *)
(* A container runs the script one shell command at a time; pc names the   *)
(* command it runs next.  Containers share the volume (PGDATA and the lock *)
(* directory beside it) and nothing else: /tmp is a tmpfs of each one.     *)
(* initdb, pg_ctl, createdb and the postgres server are external; they are *)
(* modelled by what the script relies on.  Every command that reaches the  *)
(* outside may fail, the removal of the lock included, any container or    *)
(* its initdb alone may be killed, and a trapped signal is delivered when  *)
(* the foreground command has ended.                                       *)
(***************************************************************************)
EXTENDS Naturals, FiniteSets

CONSTANTS
    Containers,   \* the containers that mount the volume
    Envs,         \* the environments they may be started with
    MaxAlive,     \* how many containers run at the same time
    Kills         \* TRUE iff a container, or initdb, may get a SIGKILL

EnvType == [ tls      : BOOLEAN,                       \* certificate set
             password : BOOLEAN,                       \* a valid password
             db       : {"user", "other", "malformed"}, \* POSTGRES_DB
             files    : BOOLEAN ]                      \* TLS, config valid

ASSUME ContainersAssumption == Containers \cap {"free", "stale", "nobody"} = {}
ASSUME EnvsAssumption == Envs # {} /\ Envs \subseteq EnvType
ASSUME BoundsAssumption == MaxAlive \in Nat /\ Kills \in BOOLEAN

VARIABLES
    (* the volume *)
    cluster,    \* the database files initdb makes in PGDATA
    probe,      \* the write probe is in PGDATA
    hba,        \* contents of PGDATA/pg_hba.conf
    lock,       \* the lock directory: absent, left behind, or whose it is
    database,   \* POSTGRES_DB of the initializer: nothing, asked for, made
    (* each container *)
    pc,         \* the command the script runs next
    env,        \* the environment of the container
    pwfile,     \* /tmp/postgresql-password.$$ holds the password
    sig,        \* a trapped signal waits for the foreground command to end
    loaded,     \* the host rules the running server has read
    (* history, in no guard: who tried to rmdir its present lock in vain *)
    unremoved

files  == <<cluster, probe, hba, database>>
held   == <<lock, unremoved>>
volume == <<files, held>>
self   == <<env, pwfile, sig, loaded>>
local  == <<pc, self>>
vars   == <<volume, local>>

-----------------------------------------------------------------------------
(* Where a container can be. *)

Down == {"down", "killed"}

(* Mutant: the traps installed before the mkdir.                           *)
TrapStepsEarly == {"mkdir", "pwfile", "initdb", "bootstrap", "initdbKilled",
                   "initHba", "initHbaBody", "tempStart", "createDb",
                   "tempStop", "rmPwfile", "rmLock", "untrap"}

(* From the first trap of line 132 to the `trap -' of line 160.            *)
TrapSteps == {"initdb", "bootstrap", "initdbKilled", "initHba",
              "initHbaBody", "tempStart", "createDb", "tempStop",
              "rmPwfile", "rmLock", "untrap"}

(* initdb has accepted the directory and the lock is not yet given back.   *)
Working == {"bootstrap", "initdbKilled", "initHba", "initHbaBody",
            "tempStart", "createDb", "tempStop", "rmPwfile", "rmLock"}

(* initdb is at work, or was killed and the shell has not gone on yet.     *)
Initdb == {"bootstrap", "initdbKilled"}

(* Holding the lock, initdb has not looked at the directory yet.           *)
Waiting == {"pwfile", "initdb"}

(* The rest: before the lock, or past the initialization.                  *)
Elsewhere == {"probe", "unprobe", "gate", "scan", "major", "hba",
              "hbaBody", "password", "mkdir", "runtime", "exec", "serving"}

Steps == Down \cup Waiting \cup Working \cup {"untrap"} \cup Elsewhere

Clusters == {"none", "started", "versioned", "complete", "foreign"}
HBAs     == {"none", "default", "truncated", "host", "hostssl", "mixed"}

Alive == {c \in Containers : pc[c] \notin Down}
Idle  == Alive = {}

(* PG_VERSION exists and is not empty.  initdb writes it long before the   *)
(* cluster is usable: a "versioned" cluster has it and is not complete.    *)
HasVersion == cluster \in {"versioned", "complete", "foreign"}
Empty      == cluster = "none" /\ ~probe /\ hba = "none"

(* The rules write_host_authentication writes for an environment.          *)
Profile(e) == IF e.tls THEN "hostssl" ELSE "host"

-----------------------------------------------------------------------------
Init ==
    /\ cluster \in {"none", "started", "complete", "foreign"}
    /\ hba = IF cluster \in {"complete", "foreign"} THEN "default" ELSE "none"
    /\ lock \in {"free", "stale"}
    /\ probe = FALSE /\ database = "none"
    /\ pc = [c \in Containers |-> "down"]
    /\ env = [c \in Containers |-> CHOOSE e \in Envs : TRUE]
    /\ pwfile = [c \in Containers |-> FALSE]
    /\ sig = [c \in Containers |-> FALSE]
    /\ loaded = [c \in Containers |-> "none"]
    /\ unremoved = "nobody"

Goto(c, step) == pc' = [pc EXCEPT ![c] = step]

(* The next command of c: a pending trap would run before it.              *)
At(c, step) == pc[c] = step /\ ~sig[c]

(* The process is gone and nothing of it runs any more.                    *)
Terminate(c, status) ==
    /\ Goto(c, status)
    /\ sig' = [sig EXCEPT ![c] = FALSE]
    /\ loaded' = [loaded EXCEPT ![c] = "none"]
    /\ UNCHANGED env

(* A lock that its container goes away from belongs to nobody.             *)
Orphaned(c, l) == IF l = c THEN "stale" ELSE l

(* Mutant: the password file removed and the lock forgotten.              *)
CleanupPasswordOnly(c) ==
    /\ pwfile' = [pwfile EXCEPT ![c] = FALSE]
    /\ UNCHANGED held

(* rmdir removes the lock directory, whose ever it is ...                  *)
Rmdir == lock' = "free" /\ unremoved' = "nobody"

(* ... or fails, which line 15 ignores.                                    *)
RmdirFails(c) ==
    /\ lock # "free"
    /\ unremoved' = IF lock = c THEN c ELSE unremoved

(* cleanup_initialization at the end of the script.                        *)
CleanupInitialization(c) ==
    /\ pwfile' = [pwfile EXCEPT ![c] = FALSE]
    /\ Rmdir \/ (RmdirFails(c) /\ lock' = Orphaned(c, lock))

(* Without the traps the lock stays and belongs to nobody.                 *)
LeaveBehind(c) ==
    /\ lock' = Orphaned(c, lock)
    /\ UNCHANGED <<pwfile, unremoved>>

(* Mutant: no EXIT trap, the signals' only.                               *)
ExitScriptUntrapped(c) ==
    /\ Terminate(c, "down")
    /\ LeaveBehind(c)

(* `fatal' or `set -e' ends the script; the EXIT trap runs if installed.   *)
ExitScript(c) ==
    /\ Terminate(c, "down")
    /\ IF pc[c] \in TrapSteps THEN CleanupInitialization(c) ELSE LeaveBehind(c)

(* A condition the script tests: go on, or `fatal'.                        *)
Require(c, condition, step) ==
    IF condition
      THEN Goto(c, step) /\ UNCHANGED <<held, self>>
      ELSE ExitScript(c)

-----------------------------------------------------------------------------
(* The container and its supervisor. *)

(* `run' with a fresh tmpfs on /tmp: a new container, or a restarted one.  *)
Start(c, e) ==
    /\ pc[c] \in Down
    /\ Cardinality(Alive) < MaxAlive
    /\ Goto(c, "probe")
    /\ env' = [env EXCEPT ![c] = e]
    /\ pwfile' = [pwfile EXCEPT ![c] = FALSE]
    /\ UNCHANGED <<volume, sig, loaded>>

(* Mutant: line 160 gives up the EXIT trap only.                          *)
SignalStillTrapped(c) ==
    /\ pc[c] \in TrapSteps \cup {"runtime", "exec"}
    /\ ~sig[c]
    /\ sig' = [sig EXCEPT ![c] = TRUE]
    /\ UNCHANGED <<volume, pc, env, pwfile, loaded>>

(* HUP, INT or TERM.  The kernel discards a signal PID 1 has no handler    *)
(* for, so before line 133 and after line 160 nothing happens.             *)
Signal(c) ==
    /\ pc[c] \in TrapSteps
    /\ ~sig[c]
    /\ sig' = [sig EXCEPT ![c] = TRUE]
    /\ UNCHANGED <<volume, pc, env, pwfile, loaded>>

(* Mutant: a handler that exits without cleaning up.                      *)
HandleSignalOnlyExits(c) ==
    /\ sig[c]
    /\ pc[c] \in TrapSteps \ {"bootstrap"}
    /\ Terminate(c, "down")
    /\ LeaveBehind(c)
    /\ UNCHANGED files

(* Mutant: a handler that cleans up and lets the script go on.            *)
HandleSignalContinues(c) ==
    /\ sig[c]
    /\ pc[c] \in TrapSteps \ {"bootstrap"}
    /\ CleanupInitialization(c)
    /\ sig' = [sig EXCEPT ![c] = FALSE]
    /\ UNCHANGED <<files, pc, env, loaded>>

(* Mutant: a handler that does not wait for the running command.          *)
HandleSignalAtOnce(c) ==
    /\ sig[c]
    /\ pc[c] \in TrapSteps
    /\ Terminate(c, "down")
    /\ CleanupInitialization(c)
    /\ UNCHANGED files

(* on_initialization_signal, once no foreground command runs.              *)
HandleSignal(c) ==
    /\ sig[c]
    /\ pc[c] \in TrapSteps \ {"bootstrap"}
    /\ Terminate(c, "down")
    /\ CleanupInitialization(c)
    /\ UNCHANGED files

(* SIGKILL: the grace period is over, or the host or the OOM killer.       *)
Kill(c) ==
    /\ Kills
    /\ pc[c] \notin Down
    /\ Terminate(c, "killed")
    /\ LeaveBehind(c)
    /\ UNCHANGED files

(* The OOM killer takes initdb alone: its files stay and the shell lives.  *)
InitdbKilled(c) ==
    /\ Kills
    /\ pc[c] = "bootstrap"
    /\ Goto(c, "initdbKilled")
    /\ UNCHANGED <<volume, self>>

(* The server stops, on SIGINT or by itself.                               *)
ServerStops(c) ==
    /\ pc[c] = "serving"
    /\ Terminate(c, "down")
    /\ UNCHANGED <<volume, pwfile>>

(* Documented recovery: with no container running, a left lock is removed. *)
OperatorUnlocks ==
    /\ Idle
    /\ lock = "stale"
    /\ Rmdir
    /\ UNCHANGED <<files, local>>

(* With no container running, PGDATA is replaced by an empty directory.    *)
OperatorClears ==
    /\ Idle
    /\ cluster' = "none" /\ probe' = FALSE /\ hba' = "none"
    /\ database' = "none"
    /\ UNCHANGED <<held, local>>

-----------------------------------------------------------------------------
(* Before the data directory is touched, and the write probe. *)

(* Lines 183-194; what fails before the probe touches nothing.  $$ is 1 in *)
(* every container: all of them use the same file name.                    *)
Probe(c) ==
    /\ At(c, "probe")
    /\ probe' = TRUE
    /\ Goto(c, "unprobe")
    /\ UNCHANGED <<cluster, hba, held, database, self>>

Unprobe(c) ==
    /\ At(c, "unprobe")
    /\ probe' = FALSE
    /\ Goto(c, "gate")
    /\ UNCHANGED <<cluster, hba, held, database, self>>

(* Line 196: is there a PG_VERSION?                                        *)
Gate(c) ==
    /\ At(c, "gate")
    /\ Goto(c, IF HasVersion THEN "major" ELSE "scan")
    /\ UNCHANGED <<volume, self>>

(* Line 197: without one, the directory must be empty.                     *)
Scan(c) ==
    /\ At(c, "scan")
    /\ Require(c, Empty, "password")
    /\ UNCHANGED files

(* Mutant: the host rules written only for a new cluster.                 *)
MajorKeepsHBA(c) ==
    /\ At(c, "major")
    /\ Require(c, cluster \in {"versioned", "complete"}, "runtime")
    /\ UNCHANGED files

(* Mutant: the host rules written before the version is compared.         *)
MajorUnchecked(c) ==
    /\ At(c, "major")
    /\ Require(c, HasVersion, "hba")
    /\ UNCHANGED files

(* Lines 202-204: cat and compare; PG_VERSION may be gone again.           *)
Major(c) ==
    /\ At(c, "major")
    /\ Require(c, cluster \in {"versioned", "complete"}, "hba")
    /\ UNCHANGED files

(* write_host_authentication opens the file with truncation ...            *)
TruncateHBA(c) ==
    /\ \/ At(c, "hba")     /\ Goto(c, "hbaBody")
       \/ At(c, "initHba") /\ Goto(c, "initHbaBody")
    /\ hba' = "truncated"
    /\ UNCHANGED <<cluster, probe, held, database, self>>

(* ... and fills it.  The file may have been removed or overwritten since: *)
(* the text then goes nowhere, replaces the other one, or mixes with it.   *)
WriteHBA(c) ==
    /\ \/ At(c, "hbaBody")     /\ Goto(c, "runtime")
       \/ At(c, "initHbaBody") /\ Goto(c, "tempStart")
    /\ LET text == Profile(env[c]) IN
       hba' \in CASE hba \in {"truncated", text} -> {text}
                  [] hba = "none"               -> {"none"}
                  [] OTHER                      -> {hba, text, "mixed"}
    /\ UNCHANGED <<cluster, probe, held, database, self>>

-----------------------------------------------------------------------------
(* initialize_database *)

ReadInitialPassword(c) ==
    /\ At(c, "password")
    /\ Require(c, env[c].password, "mkdir")
    /\ UNCHANGED files

(* Mutant: `mkdir -p', which an existing directory does not stop.         *)
AcquireLockShared(c) ==
    /\ At(c, "mkdir")
    /\ lock' = c
    /\ Goto(c, "pwfile")
    /\ UNCHANGED <<files, unremoved, self>>

(* mkdir either makes the lock directory or fails, and no trap is set yet. *)
AcquireLock(c) ==
    /\ At(c, "mkdir")
    /\ \/ /\ lock = "free"
          /\ lock' = c
          /\ Goto(c, "pwfile")
          /\ UNCHANGED <<unremoved, self>>
       \/ /\ lock # "free"
          /\ ExitScript(c)
    /\ UNCHANGED files

(* Lines 129-133: the password file, then the traps.                       *)
WritePasswordFile(c) ==
    /\ At(c, "pwfile")
    /\ pwfile' = [pwfile EXCEPT ![c] = TRUE]
    /\ Goto(c, "initdb")
    /\ UNCHANGED <<volume, env, sig, loaded>>

(* initdb refuses a directory that is not empty and leaves it alone.       *)
InitdbCheck(c) ==
    /\ At(c, "initdb")
    /\ Require(c, Empty, "bootstrap")
    /\ UNCHANGED files

(* Files of the cluster appear, PG_VERSION among the first.                *)
InitdbProgress(c) ==
    /\ pc[c] = "bootstrap"
    /\ \/ cluster = "none"    /\ cluster' = "started"
       \/ cluster = "started" /\ cluster' = "versioned"
    /\ UNCHANGED <<probe, hba, held, database, local>>

(* Its own host rules are there by then, unless somebody replaced them.    *)
InitdbComplete(c) ==
    /\ pc[c] = "bootstrap"
    /\ cluster = "versioned"
    /\ cluster' = "complete"
    /\ hba' \in {"default", hba} \ {"none"}
    /\ database' = IF env[c].db = "user" THEN "none" ELSE "asked"
    /\ Goto(c, "initHba")
    /\ UNCHANGED <<probe, held, self>>

(* initdb removes what is in the directory when it fails by itself.        *)
InitdbFail(c) ==
    /\ pc[c] = "bootstrap"
    /\ cluster' = "none" /\ probe' = FALSE /\ hba' = "none"
    /\ ExitScript(c)
    /\ UNCHANGED database

(* pg_ctl start: the server reads the host rules or refuses to start.      *)
StartTemporaryServer(c) ==
    /\ At(c, "tempStart")
    /\ Require(c, hba \notin {"none", "truncated"}, "createDb")
    /\ UNCHANGED files

(* Lines 150-154: the name is checked only now, after initdb.              *)
CreateDatabase(c) ==
    /\ At(c, "createDb")
    /\ Require(c, env[c].db # "malformed", "tempStop")
    /\ database' = IF env[c].db = "other" THEN "made" ELSE database
    /\ UNCHANGED <<cluster, probe, hba>>

StopTemporaryServer(c) ==
    /\ At(c, "tempStop")
    /\ Goto(c, "rmPwfile")
    /\ UNCHANGED <<volume, self>>

(* Line 157, the two halves of cleanup_initialization.                     *)
RemovePasswordFile(c) ==
    /\ At(c, "rmPwfile")
    /\ pwfile' = [pwfile EXCEPT ![c] = FALSE]
    /\ Goto(c, "rmLock")
    /\ UNCHANGED <<volume, env, sig, loaded>>

ReleaseLock(c) ==
    /\ At(c, "rmLock")
    /\ Rmdir \/ (RmdirFails(c) /\ UNCHANGED lock)
    /\ Goto(c, "untrap")
    /\ UNCHANGED <<files, self>>

(* Lines 158-161: until here a signal runs cleanup_initialization again.   *)
ClearTraps(c) ==
    /\ At(c, "untrap")
    /\ lock' = Orphaned(c, lock)
    /\ Goto(c, "runtime")
    /\ UNCHANGED <<files, unremoved, self>>

-----------------------------------------------------------------------------
(* The way into the server. *)

ValidateRuntimeFiles(c) ==
    /\ At(c, "runtime")
    /\ Require(c, env[c].files, "exec")
    /\ UNCHANGED files

(* exec postgres: it needs a cluster of its version and host rules.        *)
ExecServer(c) ==
    /\ At(c, "exec")
    /\ cluster \in {"versioned", "complete"}
    /\ hba \notin {"none", "truncated"}
    /\ Goto(c, "serving")
    /\ loaded' = [loaded EXCEPT ![c] = hba]
    /\ UNCHANGED <<volume, env, pwfile, sig>>

(* A command fails and the script ends: no space, no permission, a server  *)
(* that does not start.  A failed write of the password file leaves it     *)
(* empty.                                                                  *)
CommandFails(c) ==
    /\ \/ \E step \in {"probe", "unprobe", "hba", "hbaBody", "pwfile",
                       "initdb", "initHba", "initHbaBody", "tempStart",
                       "tempStop", "exec"} : At(c, step)
       \/ At(c, "initdbKilled")
       \/ At(c, "createDb") /\ env[c].db = "other"
    /\ ExitScript(c)
    /\ UNCHANGED files

ScriptStep(c) ==
    \/ Probe(c) \/ Unprobe(c) \/ Gate(c) \/ Scan(c) \/ Major(c)
    \/ TruncateHBA(c) \/ WriteHBA(c)
    \/ ReadInitialPassword(c) \/ AcquireLock(c) \/ WritePasswordFile(c)
    \/ InitdbCheck(c) \/ InitdbProgress(c)
    \/ InitdbComplete(c) \/ InitdbFail(c) \/ StartTemporaryServer(c)
    \/ CreateDatabase(c) \/ StopTemporaryServer(c) \/ RemovePasswordFile(c)
    \/ ReleaseLock(c) \/ ClearTraps(c)
    \/ ValidateRuntimeFiles(c) \/ ExecServer(c)
    \/ CommandFails(c) \/ HandleSignal(c)

Next ==
    \/ \E c \in Containers :
          \/ ScriptStep(c)
          \/ \E e \in Envs : Start(c, e)
          \/ Signal(c) \/ Kill(c) \/ InitdbKilled(c) \/ ServerStops(c)
    \/ OperatorUnlocks
    \/ OperatorClears

Spec == Init /\ [][Next]_vars

(* A shell runs its next command, and initdb, pg_ctl and createdb end.     *)
(* Nothing is ever killed by fairness.                                     *)
FairSpec == Spec /\ \A c \in Containers : WF_vars(ScriptStep(c))

-----------------------------------------------------------------------------
(* What the script promises.                                               *)

(* A trapped signal waits only between the traps of line 133 and line 160. *)
SignalsTrapped == \A c \in Containers : sig[c] => pc[c] \in TrapSteps

(* Every variable has its type, for any containers and environments, and   *)
(* signals wait only where they are trapped.                               *)
TypeOK ==
    /\ cluster \in Clusters
    /\ hba \in HBAs
    /\ lock \in Containers \cup {"free", "stale"}
    /\ unremoved \in Containers \cup {"nobody"}
    /\ probe \in BOOLEAN
    /\ database \in {"none", "asked", "made"}
    /\ pc \in [Containers -> Steps]
    /\ env \in [Containers -> Envs]
    /\ pwfile \in [Containers -> BOOLEAN]
    /\ sig \in [Containers -> BOOLEAN]
    /\ loaded \in [Containers -> HBAs]
    /\ SignalsTrapped

(* At most one container works on the directory from the moment initdb has *)
(* accepted it as empty until the lock is released (lines 135-157).        *)
OneInitializer ==
    \A c, d \in Containers :
        pc[c] \in Working /\ pc[d] \in Working => c = d

(* Why it holds.  The lock does not protect the whole critical section: a  *)
(* signal between lines 157 and 160 runs cleanup_initialization again and  *)
(* can remove the lock of the container that came next.  That container is *)
(* then stopped by initdb, for the directory holds the complete cluster of *)
(* the one that removed its lock; and no third container gets to work.     *)
LockInv ==
    \A c \in Containers :
        /\ pc[c] \in Working =>
              /\ lock = c
              /\ \A d \in Containers : pc[d] \notin Waiting \cup {"untrap"}
        /\ pc[c] \in Waiting => lock = c \/ cluster = "complete"
        /\ pc[c] \in Initdb => cluster \notin {"complete", "foreign"}
        /\ pc[c] \in (Working \cup {"untrap"}) \ Initdb
              => cluster = "complete"
        /\ lock = c => \/ pc[c] \in Working \cup Waiting
                       \/ pc[c] = "untrap" /\ unremoved = c
        /\ unremoved = c => \/ lock = "stale"
                            \/ lock = c /\ pc[c] = "untrap"

(* The password is in /tmp only between lines 131 and 157.  However the    *)
(* script ends, no container that ended by itself and no running server    *)
(* still has it; only SIGKILL can leave it in the tmpfs of a dead one.     *)
PasswordFileConfined ==
    \A c \in Containers :
        pwfile[c] => pc[c] \in {"killed"} \cup (TrapSteps \ {"rmLock", "untrap"})

(* The container that held a lock directory which is now left behind was   *)
(* itself killed, failed in the gap between mkdir and the traps, or could  *)
(* not remove the directory when it came to it.  Every other way its       *)
(* script ends, at any command and with any signal, removes it.            *)
StaleLockOrigin ==
    [][\A c \in Containers :
          lock = c /\ lock' = "stale" =>
             pc'[c] = "killed" \/ pc[c] = "pwfile" \/ unremoved' = c]_vars

(* A cluster initdb has begun and is at work on no more.                   *)
Abandoned ==
    /\ cluster \in {"started", "versioned"}
    /\ \A c \in Containers : pc[c] # "bootstrap"

(* An unfinished cluster is abandoned only when the very container whose   *)
(* initdb was at work on it gets a SIGKILL, as a whole or for initdb       *)
(* alone: a failed initdb, a signal and the loss of the lock to another    *)
(* container leave PGDATA empty or the cluster complete.  It bounds what   *)
(* the gate of line 196 may meet.                                          *)
AbandonedOrigin ==
    [][~Abandoned /\ Abandoned' =>
          \E c \in Containers :
             /\ pc[c] = "bootstrap"
             /\ pc'[c] \in {"killed", "initdbKilled"}]_vars

(* The rules a running server has read are those of its own environment,   *)
(* whatever starts, failures and kills came before.  This needs one server *)
(* at a time, as docs/DEPLOYMENT.md requires.                              *)
ServerMatchesProfile ==
    \A c \in Containers :
        pc[c] = "serving" => loaded[c] = Profile(env[c])

(* A complete cluster, or one of another major version, stays what it is   *)
(* until an operator replaces it with every container stopped: no script   *)
(* run, no failed initdb and no lost race takes it away.                   *)
DataPreserved ==
    [][(cluster \in {"complete", "foreign"} /\ cluster' # cluster) => Idle]_vars

(* A directory of another major version is refused before its host rules   *)
(* are rewritten.                                                          *)
ForeignUntouched ==
    [][(cluster = "foreign" /\ hba' # hba) => Idle]_vars

(* A trapped signal ends the container; neither the wait for the running   *)
(* command nor the handler loses it.                                       *)
SignalEndsContainer ==
    \A c \in Containers : sig[c] ~> pc[c] \in Down

-----------------------------------------------------------------------------
(* What docs and tests say of it, and the code does not do.                *)

(* docs/RUNTIME-SECURITY.md:5-7: initialization is all-or-stop, and what   *)
(* it leaves unfinished remains blocked.  A server runs only on a cluster  *)
(* that initdb completed, and with the database its initializer asked for. *)
AllOrStop ==
    \A c \in Containers :
        pc[c] = "serving" => cluster = "complete" /\ database # "asked"

(* docs/RUNTIME-SECURITY.md:5: an atomic lock prevents concurrent          *)
(* initialization.  At most one container is between its mkdir and the     *)
(* rmdir of the lock.                                                      *)
LockExcludes ==
    \A c, d \in Containers :
        {pc[c], pc[d]} \subseteq Waiting \cup Working => c = d
=============================================================================
