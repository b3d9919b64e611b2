-------------------------- MODULE EntrypointProofs --------------------------
(***************************************************************************)
(* Theorems about Entrypoint, for any set of containers, any environments  *)
(* and, but for the last three, any number of them running at once.        *)
(***************************************************************************)
EXTENDS Entrypoint, FiniteSetTheorems, TLAPS

USE DEF At, Goto, Require, ExitScript, Terminate, CleanupInitialization,
        LeaveBehind, Rmdir, RmdirFails, Orphaned, files, held, volume,
        self, local

(* Every reachable state is well typed: no step, and no way the script is  *)
(* ended, leaves a value outside the types of TypeOK.                      *)
LEMMA TypeInit == Init => TypeOK
<1>1. \A c \in Containers : (CHOOSE e \in Envs : TRUE) \in Envs
  BY EnvsAssumption
<1> QED
  BY <1>1 DEF Init, TypeOK, SignalsTrapped, Clusters, HBAs, Steps, Down

LEMMA SignalsNext ==
    ASSUME TypeOK, [Next]_vars PROVE SignalsTrapped'
<1>t. /\ pc \in [Containers -> Steps] /\ sig \in [Containers -> BOOLEAN]
      /\ SignalsTrapped
  BY DEF TypeOK
<1> USE <1>t DEF SignalsTrapped
<1>1. ASSUME UNCHANGED <<pc, sig>> PROVE SignalsTrapped'
  BY <1>1
<1>2. ASSUME NEW c \in Containers, NEW step, Goto(c, step), sig' = sig,
             ~sig[c]
      PROVE  SignalsTrapped'
  BY <1>2
<1>3. ASSUME NEW c \in Containers, NEW status, Terminate(c, status)
      PROVE  SignalsTrapped'
  BY <1>3
<1>4. ASSUME NEW c \in Containers, ScriptStep(c) PROVE SignalsTrapped'
  <2> HIDE DEF Terminate, Goto
  <2>1. CASE InitdbProgress(c)
    BY <2>1, <1>1 DEF InitdbProgress
  <2>2. CASE pc[c] = "bootstrap" /\ InitdbComplete(c)
    BY <2>2 DEF InitdbComplete, Goto, TrapSteps
  <2>3. CASE Probe(c) \/ Unprobe(c) \/ Gate(c) \/ TruncateHBA(c) \/ WriteHBA(c)
    BY <2>3, <1>2 DEF Probe, Unprobe, Gate, TruncateHBA, WriteHBA
  <2>4. CASE \/ Scan(c) \/ Major(c) \/ ReadInitialPassword(c)
             \/ InitdbCheck(c) \/ StartTemporaryServer(c)
             \/ CreateDatabase(c) \/ ValidateRuntimeFiles(c)
    BY <2>4, <1>2, <1>3
       DEF Scan, Major, ReadInitialPassword, InitdbCheck,
           StartTemporaryServer, CreateDatabase, ValidateRuntimeFiles
  <2>5. CASE \/ AcquireLock(c) \/ WritePasswordFile(c)
             \/ StopTemporaryServer(c) \/ RemovePasswordFile(c)
             \/ ReleaseLock(c) \/ ClearTraps(c) \/ ExecServer(c)
    BY <2>5, <1>2, <1>3
       DEF AcquireLock, WritePasswordFile, StopTemporaryServer,
           RemovePasswordFile, ReleaseLock, ClearTraps, ExecServer
  <2>6. CASE InitdbFail(c) \/ CommandFails(c) \/ HandleSignal(c)
    BY <2>6, <1>3 DEF InitdbFail, CommandFails, HandleSignal
  <2> QED
    BY <1>4, <2>1, <2>2, <2>3, <2>4, <2>5, <2>6 DEF ScriptStep, InitdbComplete
<1>5. ASSUME NEW c \in Containers, NEW e \in Envs, Start(c, e)
      PROVE  SignalsTrapped'
  BY <1>5 DEF Start, Down, TrapSteps
<1>6. ASSUME NEW c \in Containers, Signal(c) \/ InitdbKilled(c)
      PROVE  SignalsTrapped'
  BY <1>6 DEF Signal, InitdbKilled, TrapSteps
<1>7. ASSUME NEW c \in Containers, Kill(c) \/ ServerStops(c)
      PROVE  SignalsTrapped'
  BY <1>7 DEF Kill, ServerStops
<1>8. CASE UNCHANGED vars \/ OperatorUnlocks \/ OperatorClears
  BY <1>8 DEF vars, OperatorUnlocks, OperatorClears
<1> QED
  BY <1>4, <1>5, <1>6, <1>7, <1>8 DEF Next

LEMMA TypeNext == TypeOK /\ [Next]_vars => TypeOK'
<1> SUFFICES ASSUME TypeOK, [Next]_vars PROVE TypeOK'
  OBVIOUS
<1>s. SignalsTrapped'
  BY SignalsNext
<1> USE <1>s DEF TypeOK, Clusters, HBAs, Steps, Down, Waiting, Working, Elsewhere
<1>1. CASE UNCHANGED vars
  BY <1>1 DEF vars
<1>2. ASSUME NEW c \in Containers, ScriptStep(c) PROVE TypeOK'
  <2>1. CASE Probe(c)
    BY <2>1 DEF Probe
  <2>2. CASE Unprobe(c)
    BY <2>2 DEF Unprobe
  <2>3. CASE Gate(c)
    BY <2>3 DEF Gate
  <2>4. CASE Scan(c)
    BY <2>4 DEF Scan
  <2>5. CASE Major(c)
    BY <2>5 DEF Major
  <2>6. CASE TruncateHBA(c)
    BY <2>6 DEF TruncateHBA
  <2>7. CASE WriteHBA(c)
    BY <2>7 DEF WriteHBA, Profile
  <2>8. CASE ReadInitialPassword(c)
    BY <2>8 DEF ReadInitialPassword
  <2>9. CASE AcquireLock(c)
    BY <2>9 DEF AcquireLock
  <2>10. CASE WritePasswordFile(c)
    BY <2>10 DEF WritePasswordFile
  <2>11. CASE InitdbCheck(c)
    BY <2>11 DEF InitdbCheck
  <2>12. CASE InitdbProgress(c)
    BY <2>12 DEF InitdbProgress
  <2>13. CASE InitdbComplete(c)
    BY <2>13 DEF InitdbComplete
  <2>14. CASE InitdbFail(c)
    BY <2>14 DEF InitdbFail
  <2>15. CASE StartTemporaryServer(c)
    BY <2>15 DEF StartTemporaryServer
  <2>16. CASE CreateDatabase(c)
    BY <2>16 DEF CreateDatabase
  <2>17. CASE StopTemporaryServer(c)
    BY <2>17 DEF StopTemporaryServer
  <2>18. CASE RemovePasswordFile(c)
    BY <2>18 DEF RemovePasswordFile
  <2>19. CASE ReleaseLock(c)
    BY <2>19 DEF ReleaseLock
  <2>20. CASE ClearTraps(c)
    BY <2>20 DEF ClearTraps
  <2>21. CASE ValidateRuntimeFiles(c)
    BY <2>21 DEF ValidateRuntimeFiles
  <2>22. CASE ExecServer(c)
    BY <2>22 DEF ExecServer
  <2>23. CASE CommandFails(c)
    BY <2>23 DEF CommandFails
  <2>24. CASE HandleSignal(c)
    BY <2>24 DEF HandleSignal
  <2> QED
    BY <1>2, <2>1, <2>2, <2>3, <2>4, <2>5, <2>6, <2>7, <2>8, <2>9,
       <2>10, <2>11, <2>12, <2>13, <2>14, <2>15, <2>16, <2>17, <2>18,
       <2>19, <2>20, <2>21, <2>22, <2>23, <2>24
       DEF ScriptStep
<1>3. ASSUME NEW c \in Containers, NEW e \in Envs, Start(c, e) PROVE TypeOK'
  BY <1>3 DEF Start
<1>4. ASSUME NEW c \in Containers, Signal(c) \/ Kill(c) \/ InitdbKilled(c) \/ ServerStops(c)
      PROVE  TypeOK'
  <2>1. CASE Signal(c)
    BY <2>1 DEF Signal
  <2>2. CASE Kill(c)
    BY <2>2 DEF Kill
  <2>3. CASE ServerStops(c)
    BY <2>3 DEF ServerStops
  <2>4. CASE InitdbKilled(c)
    BY <2>4 DEF InitdbKilled
  <2> QED
    BY <1>4, <2>1, <2>2, <2>3, <2>4
<1>5. CASE OperatorUnlocks \/ OperatorClears
  BY <1>5 DEF OperatorUnlocks, OperatorClears
<1> QED
  BY <1>1, <1>2, <1>3, <1>4, <1>5 DEF Next

THEOREM TypeCorrect == Spec => []TypeOK
BY TypeInit, TypeNext, PTL DEF Spec

-----------------------------------------------------------------------------
(* The lock and the directory.  LockInv is inductive together with the     *)
(* types of lock and pc.                                                   *)
LEMMA LockInit == Init => LockInv
BY ContainersAssumption
   DEF Init, LockInv, Initdb, Working, Waiting, TrapSteps

LEMMA LockNext == TypeOK /\ LockInv /\ [Next]_vars => LockInv'
<1> SUFFICES ASSUME TypeOK, LockInv, [Next]_vars PROVE LockInv'
  OBVIOUS
<1>t. /\ lock \in Containers \cup {"free", "stale"}
      /\ pc \in [Containers -> Steps]
      /\ sig \in [Containers -> BOOLEAN]
      /\ unremoved \in Containers \cup {"nobody"}
      /\ \A c \in Containers : sig[c] => pc[c] \in TrapSteps
  BY DEF TypeOK, SignalsTrapped
<1>i. LockInv
  OBVIOUS
<1> USE ContainersAssumption, <1>t, <1>i
    DEF LockInv, Initdb, Working, Waiting, TrapSteps, Down
<1>1. CASE UNCHANGED vars
  BY <1>1 DEF vars
<1>2. ASSUME NEW c \in Containers, ScriptStep(c) PROVE LockInv'
  <2>1. CASE Probe(c)
    BY <2>1 DEF Probe
  <2>2. CASE Unprobe(c)
    BY <2>2 DEF Unprobe
  <2>3. CASE Gate(c)
    BY <2>3 DEF Gate
  <2>4. CASE Scan(c)
    BY <2>4 DEF Scan
  <2>5. CASE Major(c)
    BY <2>5 DEF Major
  <2>6. CASE TruncateHBA(c)
    BY <2>6 DEF TruncateHBA
  <2>7. CASE WriteHBA(c)
    BY <2>7 DEF WriteHBA
  <2>8. CASE ReadInitialPassword(c)
    BY <2>8 DEF ReadInitialPassword
  <2>9. CASE AcquireLock(c)
    BY <2>9 DEF AcquireLock
  <2>10. CASE WritePasswordFile(c)
    BY <2>10 DEF WritePasswordFile
  <2>11. CASE InitdbCheck(c)
    BY <2>11 DEF InitdbCheck, Empty
  <2>12. CASE InitdbProgress(c)
    BY <2>12 DEF InitdbProgress
  <2>13. CASE InitdbComplete(c)
    BY <2>13 DEF InitdbComplete
  <2>14. CASE InitdbFail(c)
    BY <2>14 DEF InitdbFail
  <2>15. CASE StartTemporaryServer(c)
    BY <2>15 DEF StartTemporaryServer
  <2>16. CASE CreateDatabase(c)
    BY <2>16 DEF CreateDatabase
  <2>17. CASE StopTemporaryServer(c)
    BY <2>17 DEF StopTemporaryServer
  <2>18. CASE RemovePasswordFile(c)
    BY <2>18 DEF RemovePasswordFile
  <2>19. CASE ReleaseLock(c)
    BY <2>19 DEF ReleaseLock
  <2>20. CASE ClearTraps(c)
    BY <2>20 DEF ClearTraps
  <2>21. CASE ValidateRuntimeFiles(c)
    BY <2>21 DEF ValidateRuntimeFiles
  <2>22. CASE ExecServer(c)
    BY <2>22 DEF ExecServer
  <2>23. CASE CommandFails(c)
    BY <2>23 DEF CommandFails
  <2>24. CASE HandleSignal(c)
    BY <2>24 DEF HandleSignal
  <2> QED
    BY <1>2, <2>1, <2>2, <2>3, <2>4, <2>5, <2>6, <2>7, <2>8, <2>9,
       <2>10, <2>11, <2>12, <2>13, <2>14, <2>15, <2>16, <2>17, <2>18,
       <2>19, <2>20, <2>21, <2>22, <2>23, <2>24
       DEF ScriptStep
<1>3. ASSUME NEW c \in Containers, NEW e \in Envs, Start(c, e) PROVE LockInv'
  BY <1>3 DEF Start
<1>4. ASSUME NEW c \in Containers, Signal(c) PROVE LockInv'
  BY <1>4 DEF Signal
<1>5. ASSUME NEW c \in Containers, Kill(c) PROVE LockInv'
  BY <1>5 DEF Kill
<1>6. ASSUME NEW c \in Containers, InitdbKilled(c) \/ ServerStops(c)
      PROVE  LockInv'
  BY <1>6 DEF InitdbKilled, ServerStops
<1>7. CASE OperatorUnlocks
  BY <1>7 DEF OperatorUnlocks
<1>8. CASE OperatorClears
  BY <1>8 DEF OperatorClears, Idle, Alive
<1> QED
  BY <1>1, <1>2, <1>3, <1>4, <1>5, <1>6, <1>7, <1>8 DEF Next

(* The invariant behind the lock holds in every reachable state: whoever   *)
(* works on the directory owns the lock, and who lost it finds a complete  *)
(* cluster there (entrypoint.sh lines 124-162 and 13-22).                  *)
THEOREM LockSafe == Spec => []LockInv
BY TypeInit, TypeNext, LockInit, LockNext, PTL DEF Spec

(* No two containers are past initdb's look at the directory and before    *)
(* the release of the lock, however many start at once and wherever they   *)
(* fail, are signalled or are killed.                                      *)
THEOREM OneInitializerSafe == Spec => []OneInitializer
<1>1. LockInv => OneInitializer
  BY DEF LockInv, OneInitializer
<1> QED
  BY <1>1, LockSafe, PTL

(* No step of a container changes a complete cluster, or one of another    *)
(* major version: only an operator does, with every container stopped.     *)
THEOREM DataSafe == Spec => DataPreserved
<1>1. LockInv /\ [Next]_vars =>
        [(cluster \in {"complete", "foreign"} /\ cluster' # cluster) => Idle]_vars
  <2> SUFFICES ASSUME LockInv, Next, cluster \in {"complete", "foreign"},
                      cluster' # cluster
               PROVE  Idle
    OBVIOUS
  <2>1. ASSUME NEW c \in Containers, ScriptStep(c) PROVE FALSE
    <3>1. CASE pc[c] = "bootstrap" /\ InitdbFail(c)
      BY <3>1 DEF LockInv, Initdb
    <3>2. CASE InitdbProgress(c) \/ InitdbComplete(c)
      BY <3>2 DEF InitdbProgress, InitdbComplete
    <3>3. CASE UNCHANGED cluster
      BY <3>3
    <3> QED
      BY <2>1, <3>1, <3>2, <3>3
         DEF ScriptStep, Probe, Unprobe, Gate, Scan, Major,
             TruncateHBA, WriteHBA, ReadInitialPassword, AcquireLock,
             WritePasswordFile, InitdbCheck, InitdbFail,
             StartTemporaryServer, CreateDatabase, StopTemporaryServer,
             RemovePasswordFile, ReleaseLock, ClearTraps,
             ValidateRuntimeFiles, ExecServer, CommandFails, HandleSignal
  <2>2. ASSUME NEW c \in Containers,
               \/ \E e \in Envs : Start(c, e)
               \/ Signal(c) \/ Kill(c) \/ InitdbKilled(c) \/ ServerStops(c)
        PROVE  FALSE
    BY <2>2 DEF Start, Signal, Kill, InitdbKilled, ServerStops
  <2>3. CASE OperatorUnlocks \/ OperatorClears
    BY <2>3 DEF OperatorUnlocks, OperatorClears
  <2> QED
    BY <2>1, <2>2, <2>3 DEF Next
<1> QED
  BY <1>1, LockSafe, PTL DEF Spec, DataPreserved

(* A container whose lock is left behind was killed itself, failed in the  *)
(* gap between the mkdir and the traps, or could not remove the directory. *)
THEOREM StaleLockSafe == Spec => StaleLockOrigin
<1>1. ASSUME TypeOK, LockInv, Next,
             NEW c \in Containers, lock = c, lock' = "stale"
      PROVE  pc'[c] = "killed" \/ pc[c] = "pwfile" \/ unremoved' = c
  <2>t. pc \in [Containers -> Steps]
    BY <1>1 DEF TypeOK
  <2> USE ContainersAssumption, <1>1
  <2>1. ASSUME NEW d \in Containers, ExitScript(d)
        PROVE  pc[c] = "pwfile" \/ unremoved' = c
    BY <2>1 DEF LockInv, Working, Waiting, TrapSteps
  <2>2. ASSUME NEW d \in Containers, Kill(d) PROVE pc'[c] = "killed"
    BY <2>2, <2>t DEF Kill
  <2>3. ASSUME NEW d \in Containers, ScriptStep(d)
        PROVE  ExitScript(d) \/ unremoved' = c
    <3>1. CASE AcquireLock(d) \/ ReleaseLock(d) \/ HandleSignal(d)
      BY <3>1 DEF AcquireLock, ReleaseLock, HandleSignal
    <3>2. CASE ClearTraps(d)
      BY <3>2 DEF ClearTraps, LockInv, Working, Waiting
    <3>3. CASE UNCHANGED lock
      BY <3>3
    <3> HIDE DEF ExitScript
    <3> QED
      BY <2>3, <3>1, <3>2, <3>3
         DEF ScriptStep, Probe, Unprobe, Gate, Scan, Major, TruncateHBA,
             WriteHBA, ReadInitialPassword, WritePasswordFile, InitdbCheck,
             InitdbProgress, InitdbComplete, InitdbFail,
             StartTemporaryServer, CreateDatabase, StopTemporaryServer,
             RemovePasswordFile, ValidateRuntimeFiles,
             ExecServer, CommandFails
  <2>4. ASSUME NEW d \in Containers,
               \/ \E e \in Envs : Start(d, e)
               \/ Signal(d) \/ InitdbKilled(d) \/ ServerStops(d)
        PROVE  FALSE
    BY <2>4 DEF Start, Signal, InitdbKilled, ServerStops
  <2>5. ~(OperatorUnlocks \/ OperatorClears)
    BY DEF OperatorUnlocks, OperatorClears
  <2> QED
    BY <2>1, <2>2, <2>3, <2>4, <2>5 DEF Next
<1>2. TypeOK /\ LockInv /\ [Next]_vars =>
        [\A c \in Containers :
            lock = c /\ lock' = "stale" =>
              pc'[c] = "killed" \/ pc[c] = "pwfile" \/ unremoved' = c]_vars
  BY <1>1
<1> QED
  BY <1>2, TypeCorrect, LockSafe, PTL DEF Spec, StaleLockOrigin

(* Only a SIGKILL of the container whose initdb is at work, or of that     *)
(* initdb, leaves a cluster unfinished with nobody at work on it.          *)
THEOREM AbandonedSafe == Spec => AbandonedOrigin
<1> DEFINE Died == \E c \in Containers :
                      /\ pc[c] = "bootstrap"
                      /\ pc'[c] \in {"killed", "initdbKilled"}
<1>1. ASSUME TypeOK, Next, ~Abandoned, Abandoned' PROVE Died
  <2>t. pc \in [Containers -> Steps]
    BY <1>1 DEF TypeOK
  <2> USE <1>1
  <2>1. ASSUME NEW c \in Containers, ScriptStep(c) PROVE FALSE
    <3>1. CASE InitdbProgress(c)
      BY <3>1 DEF InitdbProgress, Abandoned
    <3>2. CASE InitdbComplete(c) \/ InitdbFail(c)
      BY <3>2 DEF InitdbComplete, InitdbFail, Abandoned
    <3>3. CASE /\ UNCHANGED cluster
               /\ pc[c] # "bootstrap"
               /\ \A d \in Containers : d # c => pc'[d] = pc[d]
      BY <3>3 DEF Abandoned
    <3> QED
      BY <2>1, <2>t, <3>1, <3>2, <3>3
         DEF ScriptStep, Probe, Unprobe, Gate, Scan, Major, TruncateHBA,
             WriteHBA, ReadInitialPassword, AcquireLock, WritePasswordFile,
             InitdbCheck, StartTemporaryServer, CreateDatabase,
             StopTemporaryServer, RemovePasswordFile, ReleaseLock,
             ClearTraps, ValidateRuntimeFiles, ExecServer, CommandFails,
             HandleSignal
  <2>2. ASSUME NEW c \in Containers, Kill(c) \/ InitdbKilled(c) PROVE Died
    <3>1. /\ UNCHANGED cluster
          /\ pc'[c] \in {"killed", "initdbKilled"}
          /\ \A d \in Containers : d # c => pc'[d] = pc[d]
      BY <2>2, <2>t DEF Kill, InitdbKilled
    <3> QED
      BY <3>1 DEF Abandoned
  <2>3. ASSUME NEW c \in Containers,
               \/ \E e \in Envs : Start(c, e)
               \/ Signal(c) \/ ServerStops(c)
        PROVE  FALSE
    BY <2>3, <2>t DEF Start, Signal, ServerStops, Abandoned, Down
  <2>4. ~(OperatorUnlocks \/ OperatorClears)
    BY DEF OperatorUnlocks, OperatorClears, Abandoned
  <2> QED
    BY <2>1, <2>2, <2>3, <2>4 DEF Next
<1>2. TypeOK /\ [Next]_vars => [~Abandoned /\ Abandoned' => Died]_vars
  BY <1>1
<1> QED
  BY <1>2, TypeCorrect, PTL DEF Spec, AbandonedOrigin

-----------------------------------------------------------------------------
(* The password file. *)
LEMMA PasswordNext ==
    TypeOK /\ PasswordFileConfined /\ [Next]_vars => PasswordFileConfined'
<1> SUFFICES ASSUME TypeOK, PasswordFileConfined, [Next]_vars
             PROVE  PasswordFileConfined'
  OBVIOUS
<1>t. pc \in [Containers -> Steps] /\ pwfile \in [Containers -> BOOLEAN]
  BY DEF TypeOK
<1>i. PasswordFileConfined
  OBVIOUS
<1> USE <1>t, <1>i DEF PasswordFileConfined, TrapSteps, Down
<1>1. CASE UNCHANGED vars
  BY <1>1 DEF vars
<1>2. ASSUME NEW c \in Containers, ScriptStep(c) PROVE PasswordFileConfined'
  <2>1. CASE Probe(c)
    BY <2>1 DEF Probe
  <2>2. CASE Unprobe(c)
    BY <2>2 DEF Unprobe
  <2>3. CASE Gate(c)
    BY <2>3 DEF Gate
  <2>4. CASE Scan(c)
    BY <2>4 DEF Scan
  <2>5. CASE Major(c)
    BY <2>5 DEF Major
  <2>6. CASE TruncateHBA(c)
    BY <2>6 DEF TruncateHBA
  <2>7. CASE WriteHBA(c)
    BY <2>7 DEF WriteHBA
  <2>8. CASE ReadInitialPassword(c)
    BY <2>8 DEF ReadInitialPassword
  <2>9. CASE AcquireLock(c)
    BY <2>9 DEF AcquireLock
  <2>10. CASE WritePasswordFile(c)
    BY <2>10 DEF WritePasswordFile
  <2>11. CASE InitdbCheck(c)
    BY <2>11 DEF InitdbCheck
  <2>12. CASE InitdbProgress(c)
    BY <2>12 DEF InitdbProgress
  <2>13. CASE InitdbComplete(c)
    BY <2>13 DEF InitdbComplete
  <2>14. CASE InitdbFail(c)
    BY <2>14 DEF InitdbFail
  <2>15. CASE StartTemporaryServer(c)
    BY <2>15 DEF StartTemporaryServer
  <2>16. CASE CreateDatabase(c)
    BY <2>16 DEF CreateDatabase
  <2>17. CASE StopTemporaryServer(c)
    BY <2>17 DEF StopTemporaryServer
  <2>18. CASE RemovePasswordFile(c)
    BY <2>18 DEF RemovePasswordFile
  <2>19. CASE ReleaseLock(c)
    BY <2>19 DEF ReleaseLock
  <2>20. CASE ClearTraps(c)
    BY <2>20 DEF ClearTraps
  <2>21. CASE ValidateRuntimeFiles(c)
    BY <2>21 DEF ValidateRuntimeFiles
  <2>22. CASE ExecServer(c)
    BY <2>22 DEF ExecServer
  <2>23. CASE CommandFails(c)
    BY <2>23 DEF CommandFails
  <2>24. CASE HandleSignal(c)
    BY <2>24 DEF HandleSignal
  <2> QED
    BY <1>2, <2>1, <2>2, <2>3, <2>4, <2>5, <2>6, <2>7, <2>8, <2>9,
       <2>10, <2>11, <2>12, <2>13, <2>14, <2>15, <2>16, <2>17, <2>18,
       <2>19, <2>20, <2>21, <2>22, <2>23, <2>24
       DEF ScriptStep
<1>3. ASSUME NEW c \in Containers, NEW e \in Envs, Start(c, e)
      PROVE  PasswordFileConfined'
  BY <1>3 DEF Start
<1>4. ASSUME NEW c \in Containers, Signal(c) PROVE PasswordFileConfined'
  BY <1>4 DEF Signal
<1>5. ASSUME NEW c \in Containers, Kill(c) PROVE PasswordFileConfined'
  BY <1>5 DEF Kill
<1>6. ASSUME NEW c \in Containers, InitdbKilled(c) \/ ServerStops(c)
      PROVE  PasswordFileConfined'
  BY <1>6 DEF InitdbKilled, ServerStops
<1>7. CASE OperatorUnlocks \/ OperatorClears
  BY <1>7 DEF OperatorUnlocks, OperatorClears
<1> QED
  BY <1>1, <1>2, <1>3, <1>4, <1>5, <1>6, <1>7 DEF Next

(* The password never outlives the initialization, except in the tmpfs of  *)
(* a container that was killed.                                            *)
THEOREM PasswordSafe == Spec => []PasswordFileConfined
<1>1. Init => PasswordFileConfined
  BY DEF Init, PasswordFileConfined
<1> QED
  BY <1>1, TypeInit, TypeNext, PasswordNext, PTL DEF Spec
-----------------------------------------------------------------------------
(* One container at a time, as docs/DEPLOYMENT.md asks for.                *)
OneAlive == \A c, d \in Containers : pc[c] \notin Down /\ pc[d] \notin Down => c = d

(* The steps between the host rules and the end of the server; those rules *)
(* are then of the profile, unless they are just being written.            *)
RulesWritten == {"tempStart", "createDb", "tempStop", "rmPwfile", "rmLock",
                 "untrap", "runtime", "exec"}
RulesInv ==
    \A c \in Containers :
        /\ pc[c] \in {"hba", "hbaBody"} => cluster \in {"versioned", "complete"}
        /\ pc[c] \in {"hbaBody", "initHbaBody"} => hba = "truncated"
        /\ pc[c] \in RulesWritten => hba = Profile(env[c])
        /\ pc[c] = "serving" => loaded[c] = Profile(env[c])

AloneInv == TypeOK /\ LockInv /\ OneAlive /\ RulesInv

LEMMA AloneInit == Init => OneAlive /\ RulesInv
BY DEF Init, OneAlive, RulesInv, RulesWritten, Down

(* Only Start brings a container up, and only when none is.                *)
LEMMA StartsAlone ==
  ASSUME MaxAlive = 1, OneAlive, NEW c \in Containers, NEW e \in Envs, Start(c, e)
  PROVE  \A d \in Containers : pc[d] \in Down
<1> SUFFICES ASSUME NEW d \in Containers, pc[d] \notin Down PROVE FALSE
  OBVIOUS
<1>1. Alive = {d}
  BY DEF Alive, OneAlive
<1>2. Cardinality(Alive) = 1
  BY <1>1, FS_Singleton
<1> QED
  BY <1>2 DEF Start

LEMMA StaysAlone ==
  ASSUME MaxAlive = 1, TypeOK, OneAlive, [Next]_vars
  PROVE  OneAlive'
<1>t. pc \in [Containers -> Steps]
  BY DEF TypeOK
<1> USE <1>t DEF OneAlive, Down
<1>1. CASE UNCHANGED vars
  BY <1>1 DEF vars
<1>2. ASSUME NEW c \in Containers, ScriptStep(c) PROVE OneAlive'
  <2>1. CASE Probe(c)
    BY <2>1 DEF Probe
  <2>2. CASE Unprobe(c)
    BY <2>2 DEF Unprobe
  <2>3. CASE Gate(c)
    BY <2>3 DEF Gate
  <2>4. CASE Scan(c)
    BY <2>4 DEF Scan
  <2>5. CASE Major(c)
    BY <2>5 DEF Major
  <2>6. CASE TruncateHBA(c)
    BY <2>6 DEF TruncateHBA
  <2>7. CASE WriteHBA(c)
    BY <2>7 DEF WriteHBA
  <2>8. CASE ReadInitialPassword(c)
    BY <2>8 DEF ReadInitialPassword
  <2>9. CASE AcquireLock(c)
    BY <2>9 DEF AcquireLock
  <2>10. CASE WritePasswordFile(c)
    BY <2>10 DEF WritePasswordFile
  <2>11. CASE InitdbCheck(c)
    BY <2>11 DEF InitdbCheck
  <2>12. CASE InitdbProgress(c)
    BY <2>12 DEF InitdbProgress
  <2>13. CASE InitdbComplete(c)
    BY <2>13 DEF InitdbComplete
  <2>14. CASE InitdbFail(c)
    BY <2>14 DEF InitdbFail
  <2>15. CASE StartTemporaryServer(c)
    BY <2>15 DEF StartTemporaryServer
  <2>16. CASE CreateDatabase(c)
    BY <2>16 DEF CreateDatabase
  <2>17. CASE StopTemporaryServer(c)
    BY <2>17 DEF StopTemporaryServer
  <2>18. CASE RemovePasswordFile(c)
    BY <2>18 DEF RemovePasswordFile
  <2>19. CASE ReleaseLock(c)
    BY <2>19 DEF ReleaseLock
  <2>20. CASE ClearTraps(c)
    BY <2>20 DEF ClearTraps
  <2>21. CASE ValidateRuntimeFiles(c)
    BY <2>21 DEF ValidateRuntimeFiles
  <2>22. CASE ExecServer(c)
    BY <2>22 DEF ExecServer
  <2>23. CASE CommandFails(c)
    BY <2>23 DEF CommandFails
  <2>24. CASE HandleSignal(c)
    BY <2>24 DEF HandleSignal
  <2> QED
    BY <1>2, <2>1, <2>2, <2>3, <2>4, <2>5, <2>6, <2>7, <2>8, <2>9,
       <2>10, <2>11, <2>12, <2>13, <2>14, <2>15, <2>16, <2>17, <2>18,
       <2>19, <2>20, <2>21, <2>22, <2>23, <2>24
       DEF ScriptStep
<1>3. ASSUME NEW c \in Containers, NEW e \in Envs, Start(c, e) PROVE OneAlive'
  <2>1. \A d \in Containers : pc[d] \in Down
    BY <1>3, StartsAlone
  <2> QED
    BY <1>3, <2>1 DEF Start
<1>4. ASSUME NEW c \in Containers, Signal(c) \/ Kill(c) \/ InitdbKilled(c) \/ ServerStops(c) PROVE OneAlive'
  BY <1>4 DEF Signal, Kill, InitdbKilled, ServerStops
<1>5. CASE OperatorUnlocks \/ OperatorClears
  BY <1>5 DEF OperatorUnlocks, OperatorClears
<1> QED
  BY <1>1, <1>2, <1>3, <1>4, <1>5 DEF Next

LEMMA RulesNext ==
  ASSUME MaxAlive = 1, AloneInv, [Next]_vars
  PROVE  RulesInv'
<1>t. /\ pc \in [Containers -> Steps] /\ env \in [Containers -> Envs]
      /\ loaded \in [Containers -> HBAs] /\ sig \in [Containers -> BOOLEAN]
  BY DEF AloneInv, TypeOK
<1>i. OneAlive /\ RulesInv
  BY DEF AloneInv
<1>l. \A c \in Containers : pc[c] = "initHba" => cluster = "complete"
  BY DEF AloneInv, LockInv, Working, Initdb
<1> USE <1>t, <1>i DEF OneAlive, RulesInv, RulesWritten, Down
<1>1. CASE UNCHANGED vars
  BY <1>1 DEF vars
<1>2. ASSUME NEW c \in Containers, ScriptStep(c) PROVE RulesInv'
  <2>1. CASE Probe(c)
    BY <2>1 DEF Probe
  <2>2. CASE Unprobe(c)
    BY <2>2 DEF Unprobe
  <2>3. CASE Gate(c)
    BY <2>3 DEF Gate
  <2>4. CASE Scan(c)
    BY <2>4 DEF Scan
  <2>5. CASE Major(c)
    BY <2>5 DEF Major
  <2>6. CASE TruncateHBA(c)
    BY <2>6 DEF TruncateHBA
  <2>7. CASE WriteHBA(c)
    BY <2>7 DEF WriteHBA
  <2>8. CASE ReadInitialPassword(c)
    BY <2>8 DEF ReadInitialPassword
  <2>9. CASE AcquireLock(c)
    BY <2>9 DEF AcquireLock
  <2>10. CASE WritePasswordFile(c)
    BY <2>10 DEF WritePasswordFile
  <2>11. CASE InitdbCheck(c)
    BY <2>11 DEF InitdbCheck
  <2>12. CASE InitdbProgress(c)
    BY <2>12 DEF InitdbProgress
  <2>13. CASE InitdbComplete(c)
    BY <2>13 DEF InitdbComplete
  <2>14. CASE InitdbFail(c)
    BY <2>14 DEF InitdbFail
  <2>15. CASE StartTemporaryServer(c)
    BY <2>15 DEF StartTemporaryServer
  <2>16. CASE CreateDatabase(c)
    BY <2>16 DEF CreateDatabase
  <2>17. CASE StopTemporaryServer(c)
    BY <2>17 DEF StopTemporaryServer
  <2>18. CASE RemovePasswordFile(c)
    BY <2>18 DEF RemovePasswordFile
  <2>19. CASE ReleaseLock(c)
    BY <2>19 DEF ReleaseLock
  <2>20. CASE ClearTraps(c)
    BY <2>20 DEF ClearTraps
  <2>21. CASE ValidateRuntimeFiles(c)
    BY <2>21 DEF ValidateRuntimeFiles
  <2>22. CASE ExecServer(c)
    BY <2>22 DEF ExecServer
  <2>23. CASE CommandFails(c)
    BY <2>23 DEF CommandFails
  <2>24. CASE HandleSignal(c)
    BY <2>24 DEF HandleSignal
  <2> QED
    BY <1>2, <2>1, <2>2, <2>3, <2>4, <2>5, <2>6, <2>7, <2>8, <2>9,
       <2>10, <2>11, <2>12, <2>13, <2>14, <2>15, <2>16, <2>17, <2>18,
       <2>19, <2>20, <2>21, <2>22, <2>23, <2>24
       DEF ScriptStep
<1>3. ASSUME NEW c \in Containers, NEW e \in Envs, Start(c, e) PROVE RulesInv'
  <2>1. \A d \in Containers : pc[d] \in Down
    BY <1>3, StartsAlone
  <2> QED
    BY <1>3, <2>1 DEF Start
<1>4. ASSUME NEW c \in Containers, Signal(c) \/ Kill(c) \/ InitdbKilled(c) \/ ServerStops(c) PROVE RulesInv'
  BY <1>4 DEF Signal, Kill, InitdbKilled, ServerStops
<1>5. CASE OperatorUnlocks
  BY <1>5 DEF OperatorUnlocks
<1>6. CASE OperatorClears
  BY <1>6 DEF OperatorClears, Idle, Alive
<1> QED
  BY <1>1, <1>2, <1>3, <1>4, <1>5, <1>6 DEF Next

LEMMA AloneAlways == ASSUME MaxAlive = 1 PROVE Spec => []AloneInv
<1>1. Init => AloneInv
  BY TypeInit, LockInit, AloneInit DEF AloneInv
<1>2. AloneInv /\ [Next]_vars => AloneInv'
  BY TypeNext, LockNext, StaysAlone, RulesNext DEF AloneInv
<1> QED
  BY <1>1, <1>2, PTL DEF Spec

(* With one container at a time, a running server has read the host rules  *)
(* of its own environment, whatever starts, failures and kills came before.*)
THEOREM ServerSafe == ASSUME MaxAlive = 1 PROVE Spec => []ServerMatchesProfile
<1>1. AloneInv => ServerMatchesProfile
  BY DEF AloneInv, RulesInv, ServerMatchesProfile
<1> QED
  BY <1>1, AloneAlways, PTL

(* And the host rules of a directory of another major version are not      *)
(* rewritten: whoever writes rules has seen its own version, and initdb    *)
(* has no failure to clean up after in such a directory.                   *)
THEOREM ForeignSafe == ASSUME MaxAlive = 1 PROVE Spec => ForeignUntouched
<1>1. ASSUME AloneInv, [Next]_vars, cluster = "foreign", hba' # hba
      PROVE  Idle
  <2>l. \A c \in Containers :
          /\ pc[c] \in {"initHba", "initHbaBody"} => cluster = "complete"
          /\ pc[c] = "bootstrap" => cluster # "foreign"
          /\ pc[c] \in {"hba", "hbaBody"} => cluster \in {"versioned", "complete"}
    BY <1>1 DEF AloneInv, LockInv, Working, Initdb, RulesInv
  <2>1. ASSUME NEW c \in Containers, ScriptStep(c) PROVE FALSE
    BY <1>1, <2>l, <2>1
       DEF ScriptStep, Probe, Unprobe, Gate, Scan,
           Major, TruncateHBA, WriteHBA, ReadInitialPassword, AcquireLock,
           WritePasswordFile, InitdbCheck, InitdbProgress, InitdbComplete, InitdbFail,
           StartTemporaryServer, CreateDatabase, StopTemporaryServer, RemovePasswordFile,
           ReleaseLock, ClearTraps, ValidateRuntimeFiles, ExecServer, CommandFails, HandleSignal
  <2>2. ASSUME NEW c \in Containers, NEW e \in Envs, Start(c, e) PROVE FALSE
    BY <1>1, <2>2 DEF Start
  <2>3. ASSUME NEW c \in Containers, Signal(c) \/ Kill(c) \/ InitdbKilled(c) \/ ServerStops(c) PROVE FALSE
    BY <1>1, <2>3 DEF Signal, Kill, InitdbKilled, ServerStops
  <2>4. CASE UNCHANGED vars \/ OperatorUnlocks
    BY <1>1, <2>4 DEF vars, OperatorUnlocks
  <2> QED
    BY <1>1, <2>1, <2>2, <2>3, <2>4 DEF Next, OperatorClears
<1>2. AloneInv /\ [Next]_vars => [cluster = "foreign" /\ hba' # hba => Idle]_vars
  BY <1>1
<1> QED
  BY <1>2, AloneAlways, PTL DEF Spec, ForeignUntouched
(* Without SIGKILL, and with one container at a time, a server runs on a   *)
(* complete cluster only: the branch for an existing cluster (line 196) is *)
(* never taken with one that initdb left unfinished.  The run all_or_stop  *)
(* shows what a single kill changes.                                       *)
ServesComplete == \A c \in Containers : pc[c] = "serving" => cluster = "complete"

(* A PG_VERSION without the rest is in the hands of a running initdb.      *)
VersionedIsOwned == cluster = "versioned" => \E c \in Containers : pc[c] = "bootstrap"

THEOREM ServesCompleteSafe ==
    ASSUME MaxAlive = 1, ~Kills PROVE Spec => []ServesComplete
<1> DEFINE I == VersionedIsOwned /\ ServesComplete
<1>1. Init => I
  BY DEF Init, VersionedIsOwned, ServesComplete
<1>2. AloneInv /\ I /\ [Next]_vars => I'
  <2> SUFFICES ASSUME AloneInv, VersionedIsOwned, ServesComplete, [Next]_vars
               PROVE  I'
    OBVIOUS
  <2>t. pc \in [Containers -> Steps]
    BY DEF AloneInv, TypeOK
  <2>i. /\ VersionedIsOwned /\ ServesComplete
        /\ \A c, d \in Containers : pc[c] \notin Down /\ pc[d] \notin Down => c = d
    BY DEF AloneInv, OneAlive
  <2> USE <2>t, <2>i DEF VersionedIsOwned, ServesComplete, Down
  <2>1. ASSUME NEW c \in Containers, ScriptStep(c) PROVE I'
    <3>1. CASE ExecServer(c)
      <4>1. cluster = "complete"
        BY <3>1 DEF ExecServer
      <4> QED
        BY <3>1, <4>1 DEF ExecServer
    <3>2. CASE InitdbProgress(c)
      BY <3>2 DEF InitdbProgress
    <3>3. CASE InitdbComplete(c) \/ InitdbFail(c)
      BY <3>3 DEF InitdbComplete, InitdbFail
    <3>4. CASE /\ UNCHANGED cluster /\ pc[c] # "bootstrap" /\ pc'[c] # "serving"
               /\ \A d \in Containers : d # c => pc'[d] = pc[d]
      BY <3>4
    <3> QED
      BY <2>1, <3>1, <3>2, <3>3, <3>4
         DEF ScriptStep, Probe, Unprobe, Gate, Scan, Major, TruncateHBA,
             WriteHBA, ReadInitialPassword, AcquireLock, WritePasswordFile,
             InitdbCheck, StartTemporaryServer, CreateDatabase,
             StopTemporaryServer, RemovePasswordFile, ReleaseLock,
             ClearTraps, ValidateRuntimeFiles, CommandFails, HandleSignal
  <2>2. ASSUME NEW c \in Containers, NEW e \in Envs, Start(c, e) PROVE I'
    BY <2>2 DEF Start
  <2>3. ASSUME NEW c \in Containers, Signal(c) \/ Kill(c) \/ InitdbKilled(c) \/ ServerStops(c) PROVE I'
    BY <2>3 DEF Signal, Kill, InitdbKilled, ServerStops
  <2>4. CASE UNCHANGED vars \/ OperatorUnlocks \/ OperatorClears
    BY <2>4 DEF vars, OperatorUnlocks, OperatorClears, Idle, Alive
  <2> QED
    BY <2>1, <2>2, <2>3, <2>4 DEF Next
<1> QED
  BY <1>1, <1>2, AloneAlways, PTL DEF Spec
=============================================================================
