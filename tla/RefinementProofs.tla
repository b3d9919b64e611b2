-------------------------- MODULE RefinementProofs --------------------------
(***************************************************************************)
(* Entrypoint implements ClusterLifecycle, for any containers.             *)
(***************************************************************************)
EXTENDS EntrypointRefinement, EntrypointProofs

USE DEF At, Require, ExitScript, Terminate, CleanupInitialization,
        LeaveBehind, Rmdir, RmdirFails, Orphaned, files, held, volume,
        self, local

(* The mapping depends only on the cluster, on who is in initdb and on who *)
(* is alive: a step that changes none of them is a stutter.                *)
LEMMA Stutter ==
    ASSUME cluster' = cluster,
           \A c \in Containers : /\ pc'[c] \in Initdb <=> pc[c] \in Initdb
                                 /\ pc'[c] \in Down <=> pc[c] \in Down
    PROVE  UNCHANGED Lifecycle!vars
<1>1. Initializing' = Initializing /\ Alive' = Alive
  BY DEF Initializing, Alive
<1>2. Owner' = Owner
  BY <1>1 DEF Owner
<1>3. Data' = Data
  BY DEF Data
<1> QED
  BY <1>1, <1>2, <1>3 DEF Lifecycle!vars

(* initdb is at work in one container at most, and that one is the owner.  *)
LEMMA OwnerIs == LockInv => \A c \in Containers : pc[c] \in Initdb => Owner = c
<1> SUFFICES ASSUME LockInv, NEW c \in Containers, pc[c] \in Initdb
             PROVE  Owner = c
  OBVIOUS
<1>1. Initializing = {c}
  BY DEF LockInv, Working, Initdb, Initializing
<1> QED
  BY <1>1 DEF Owner

(* ... and an owner is a container in which initdb is at work.             *)
LEMMA OwnerInitializes ==
    \A c \in Containers : Owner = c => pc[c] \in Initdb
BY ContainersAssumption DEF Owner, Initializing

(* A container that ends and takes nothing back leaves the lifecycle.      *)
LEMMA Leaves ==
    ASSUME TypeOK, LockInv, NEW c \in Containers, pc[c] \notin Down,
           NEW status \in Down, Goto(c, status), cluster' = cluster
    PROVE  Lifecycle!Leave(c)
<1>1. c \in Alive /\ Alive' = Alive \ {c}
  BY DEF Alive, Goto, TypeOK
<1>2. CASE pc[c] \in Initdb
  <2>1. Owner = c
    BY <1>2, OwnerIs
  <2>2. Initializing' = {}
    BY <1>2 DEF LockInv, Working, Initdb, Initializing, Goto, TypeOK, Down
  <2> QED
    BY <1>1, <2>1, <2>2 DEF Lifecycle!Leave, Owner, Data
<1>3. CASE pc[c] \notin Initdb
  <2>1. Initializing' = Initializing
    BY <1>3 DEF Initializing, Initdb, Goto, TypeOK, Down
  <2>2. Owner # c
    BY <1>3, OwnerInitializes
  <2> QED
    BY <1>1, <2>1, <2>2 DEF Lifecycle!Leave, Owner, Data
<1> QED
  BY <1>2, <1>3

(* A command that succeeds and is not initdb's changes no part of it.      *)
LEMMA Moves ==
    ASSUME TypeOK, NEW c \in Containers, pc[c] \notin Down \cup Initdb,
           NEW step, step \notin Down \cup Initdb,
           Goto(c, step), cluster' = cluster
    PROVE  UNCHANGED Lifecycle!vars
<1>1. \A d \in Containers : /\ pc'[d] \in Initdb <=> pc[d] \in Initdb
                            /\ pc'[d] \in Down <=> pc[d] \in Down
  BY DEF Goto, TypeOK
<1> QED
  BY <1>1, Stutter

LEMMA InitRefines == Init => Lifecycle!Init
BY DEF Init, Lifecycle!Init, Data, Owner, Initializing, Initdb, Alive, Down

LEMMA StepRefines ==
    TypeOK /\ LockInv /\ Next => Lifecycle!Next \/ UNCHANGED Lifecycle!vars
<1> SUFFICES ASSUME TypeOK, LockInv, Next
             PROVE  Lifecycle!Next \/ UNCHANGED Lifecycle!vars
  OBVIOUS
<1> USE DEF Down, Initdb
<1>t. pc \in [Containers -> Steps]
  BY DEF TypeOK
<1>x. ASSUME NEW c \in Containers, ExitScript(c), pc[c] \notin Down,
             cluster' = cluster
      PROVE  Lifecycle!Next
  <2>1. Goto(c, "down")
    BY <1>x
  <2>2. Lifecycle!Leave(c)
    BY <1>x, <2>1, Leaves
  <2> QED
    BY <2>2 DEF Lifecycle!Next
<1>1. ASSUME NEW c \in Containers, ScriptStep(c)
      PROVE  Lifecycle!Next \/ UNCHANGED Lifecycle!vars
  <2> HIDE DEF ExitScript
  <2>1. CASE Probe(c) \/ Unprobe(c) \/ Gate(c) \/ TruncateHBA(c)
    BY <2>1, Moves DEF Probe, Unprobe, Gate, TruncateHBA
  <2>2. CASE WriteHBA(c) \/ WritePasswordFile(c) \/ StopTemporaryServer(c)
    BY <2>2, Moves DEF WriteHBA, WritePasswordFile, StopTemporaryServer
  <2>3. CASE RemovePasswordFile(c) \/ ReleaseLock(c) \/ ClearTraps(c)
             \/ ExecServer(c)
    BY <2>3, Moves
       DEF RemovePasswordFile, ReleaseLock, ClearTraps, ExecServer
  <2>4. CASE Scan(c) \/ Major(c) \/ ReadInitialPassword(c)
    BY <2>4, <1>x, Moves DEF Scan, Major, ReadInitialPassword
  <2>5. CASE AcquireLock(c) \/ StartTemporaryServer(c)
    BY <2>5, <1>x, Moves DEF AcquireLock, StartTemporaryServer
  <2>6. CASE CreateDatabase(c) \/ ValidateRuntimeFiles(c)
    BY <2>6, <1>x, Moves DEF CreateDatabase, ValidateRuntimeFiles
  <2>7. CASE CommandFails(c)
    BY <2>7, <1>x DEF CommandFails
  <2>8. CASE HandleSignal(c)
    <3>1. Goto(c, "down") /\ cluster' = cluster /\ pc[c] \notin Down
      BY <2>8 DEF HandleSignal, TrapSteps
    <3> QED
      BY <3>1, Leaves DEF Lifecycle!Next
  <2>9. CASE InitdbCheck(c)
    <3>1. CASE ExitScript(c)
      BY <2>9, <3>1, <1>x DEF InitdbCheck
    <3>2. CASE Empty /\ Goto(c, "bootstrap")
      <4>1. \A d \in Containers : pc[d] \notin Initdb
        BY <2>9, <3>2 DEF InitdbCheck, LockInv, Working, Waiting
      <4>2. Initializing = {} /\ Initializing' = {c} /\ Alive' = Alive
        BY <2>9, <3>2, <4>1, <1>t
           DEF InitdbCheck, Goto, Initializing, Alive
      <4> QED
        BY <2>9, <3>2, <4>2, <1>t
           DEF InitdbCheck, Empty, Owner, Data, Alive,
               Lifecycle!Next, Lifecycle!Begin
    <3> QED
      BY <2>9, <3>1, <3>2 DEF InitdbCheck
  <2>10. CASE InitdbProgress(c)
    <3>1. Owner = c /\ Owner' = Owner /\ Alive' = Alive
      BY <2>10, OwnerIs DEF InitdbProgress, Owner, Initializing, Alive
    <3> QED
      BY <2>10, <3>1
         DEF InitdbProgress, Data, Lifecycle!Next, Lifecycle!Fill,
             Lifecycle!vars
  <2>11. CASE InitdbComplete(c)
    <3>1. Owner = c
      BY <2>11, OwnerIs DEF InitdbComplete
    <3>2. Initializing' = {} /\ Alive' = Alive
      BY <2>11, <1>t
         DEF InitdbComplete, Goto, Initializing, Alive, LockInv, Working
    <3> QED
      BY <2>11, <3>1, <3>2
         DEF InitdbComplete, Owner, Data, Lifecycle!Next, Lifecycle!Commit
  <2>12. CASE InitdbFail(c)
    <3>1. Owner = c
      BY <2>12, OwnerIs DEF InitdbFail
    <3>2. Initializing' = {} /\ c \in Alive /\ Alive' = Alive \ {c}
      BY <2>12, <1>t
         DEF InitdbFail, ExitScript, Goto, Initializing, Alive, LockInv,
             Working
    <3> QED
      BY <2>12, <3>1, <3>2
         DEF InitdbFail, Owner, Data, Lifecycle!Next, Lifecycle!Leave
  <2> QED
    BY <1>1, <2>1, <2>2, <2>3, <2>4, <2>5, <2>6, <2>7, <2>8, <2>9, <2>10,
       <2>11, <2>12 DEF ScriptStep
<1>2. ASSUME NEW c \in Containers, NEW e \in Envs, Start(c, e)
      PROVE  Lifecycle!Next
  <2>1. Initializing' = Initializing /\ c \notin Alive
        /\ Alive' = Alive \cup {c}
    BY <1>2, <1>t DEF Start, Goto, Initializing, Alive
  <2> QED
    BY <1>2, <2>1
       DEF Start, Owner, Data, Lifecycle!Next, Lifecycle!Arrive
<1>3. ASSUME NEW c \in Containers, Signal(c) \/ InitdbKilled(c)
      PROVE  UNCHANGED Lifecycle!vars
  <2>1. CASE Signal(c)
    BY <2>1, Stutter DEF Signal
  <2>2. CASE InitdbKilled(c)
    BY <2>2, <1>t, Stutter DEF InitdbKilled, Goto
  <2> QED
    BY <1>3, <2>1, <2>2
<1>4. ASSUME NEW c \in Containers, Kill(c) \/ ServerStops(c)
      PROVE  Lifecycle!Next
  <2>1. /\ pc[c] \notin Down /\ cluster' = cluster
        /\ \E status \in Down : Goto(c, status)
    BY <1>4 DEF Kill, ServerStops
  <2> QED
    BY <2>1, Leaves DEF Lifecycle!Next
<1>5. CASE OperatorUnlocks
  BY <1>5, Stutter DEF OperatorUnlocks
<1>6. CASE OperatorClears
  <2>1. Owner' = Owner /\ Alive = {} /\ Alive' = Alive
    BY <1>6 DEF OperatorClears, Idle, Owner, Initializing, Alive
  <2> QED
    BY <1>6, <2>1
       DEF OperatorClears, Data, Lifecycle!Next, Lifecycle!Replace
<1> QED
  BY <1>1, <1>2, <1>3, <1>4, <1>5, <1>6 DEF Next

(* Every behaviour of the containers is a life of a data directory as the  *)
(* documentation promises it.                                              *)
THEOREM Refinement == Spec => ImplementsLifecycle
<1>1. UNCHANGED vars => UNCHANGED Lifecycle!vars
  BY Stutter DEF vars
<1> QED
  BY <1>1, InitRefines, StepRefines, TypeCorrect, LockSafe, PTL
     DEF Spec, ImplementsLifecycle, Lifecycle!Spec
=============================================================================
