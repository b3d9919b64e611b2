--------------------------- MODULE MonitorProofs ----------------------------
(***************************************************************************)
(* Proofs about UpdateMonitor, for any number of runs, issues and          *)
(* versions: there is one dashboard, and it never goes back to an older    *)
(* version.  Both rest on the concurrency group of the workflow.           *)
(***************************************************************************)
EXTENDS UpdateMonitor, TLAPS

USE MonitorAssumption
USE DEF Versions, Reports, Moves, Ends

(* One run is active, what it has read is not older than what any issue    *)
(* says, and it creates an issue only when none is open.                   *)
OneActive == \A j, k \in Jobs : at[j] \in Active /\ at[k] \in Active => j = k
ReadLate == \A j \in Jobs : at[j] \in {"list", "edit", "create"} =>
              \A i \in Open : issue[i].latest <= latest[j]
CreatesFirst == ~doubled => \A j \in Jobs : at[j] = "create" => Open = {}

MonitorInv == MonitorTypeOK /\ OneActive /\ ReadLate /\ CreatesFirst /\ OneDashboard

LEMMA InitialMonitor == MonitorInit => MonitorInv
<1> SUFFICES ASSUME MonitorInit PROVE MonitorInv
  OBVIOUS
<1>1. Open = {} /\ \A j \in Jobs : at[j] = "idle"
  BY DEF MonitorInit, Open
<1>2. feed \in Versions /\ 1 \in 1 .. feed
  BY DEF MonitorInit
<1>3. MonitorTypeOK
  BY <1>1, <1>2 DEF MonitorInit, MonitorTypeOK
<1>4. QED
  BY <1>1, <1>3 DEF MonitorInv, OneActive, ReadLate, CreatesFirst, OneDashboard, Active

Others == PublishVersion \/ Select \/ CloseIssue

LEMMA OthersStep ==
  ASSUME MonitorInv, Others
  PROVE  MonitorInv'
<1> USE DEF MonitorInv, Others, PublishVersion, Select, CloseIssue
<1>1. MonitorTypeOK'
  BY DEF MonitorTypeOK, Open
<1>2. OneActive'
  BY DEF OneActive
<1>3. Open' \subseteq Open /\ \A i \in Open' : issue'[i] = issue[i]
  BY DEF MonitorTypeOK, Open
<1>4. ReadLate' /\ CreatesFirst' /\ OneDashboard'
  BY <1>3 DEF ReadLate, CreatesFirst, OneDashboard
<1>5. QED
  BY <1>1, <1>2, <1>4

LEMMA TurnStep ==
  ASSUME MonitorInv, NEW j \in Jobs, Trigger(j) \/ Begin(j) \/ Abort(j) \/ CompareVersions(j)
  PROVE  MonitorInv'
<1> USE DEF MonitorInv, Trigger, Begin, Abort, CompareVersions
<1>1. MonitorTypeOK'
  BY DEF MonitorTypeOK, Open, Active
<1>2. OneActive'
  BY DEF MonitorTypeOK, OneActive, Active
<1>3. ReadLate'
  BY DEF MonitorTypeOK, ReadLate, Open, Active
<1>4. CreatesFirst' /\ OneDashboard'
  BY DEF MonitorTypeOK, CreatesFirst, OneDashboard, Open, Active
<1>5. QED
  BY <1>1, <1>2, <1>3, <1>4

LEMMA ListStep ==
  ASSUME MonitorInv, NEW j \in Jobs, ListIssues(j) \/ ListBlind(j)
  PROVE  MonitorInv'
<1> USE DEF MonitorInv, ListIssues, ListBlind
<1>1. MonitorTypeOK'
  BY DEF MonitorTypeOK, Open, Active
<1>2. OneActive'
  BY DEF MonitorTypeOK, OneActive, Active
<1>3. ReadLate'
  BY DEF MonitorTypeOK, ReadLate, Open, Active
<1>4. CreatesFirst' /\ OneDashboard'
  BY DEF MonitorTypeOK, CreatesFirst, OneDashboard, Open, Active
<1>5. QED
  BY <1>1, <1>2, <1>3, <1>4

(* A run that writes is the only active one, and becomes idle.             *)
LEMMA WriteEnds ==
  ASSUME MonitorInv, NEW j \in Jobs, EditIssue(j) \/ CreateIssue(j)
  PROVE  /\ at' = [at EXCEPT ![j] = "idle"]
         /\ \A k \in Jobs : at'[k] \notin Active
         /\ latest' \in [Jobs -> 1 .. feed] /\ current' \in [Jobs -> 1 .. feed]
         /\ found' \in [Jobs -> Issues \cup {None}]
         /\ UNCHANGED <<feed, selected, doubled>>
         /\ Report(j) \in [current : 1 .. feed, latest : 1 .. feed]
<1>1. at[j] \in Active /\ at' = [at EXCEPT ![j] = "idle"]
  BY DEF EditIssue, CreateIssue, Active
<1>2. \A k \in Jobs : at'[k] \notin Active
  BY <1>1 DEF MonitorInv, MonitorTypeOK, OneActive, Active
<1>3. QED
  BY <1>1, <1>2 DEF MonitorInv, MonitorTypeOK, EditIssue, CreateIssue, Report

LEMMA WriteStep ==
  ASSUME MonitorInv, NEW j \in Jobs, EditIssue(j) \/ CreateIssue(j)
  PROVE  /\ MonitorInv'
         /\ \A i \in Open : issue'[i] # None => issue'[i].latest >= issue[i].latest
<1>1. \/ /\ at[j] = "edit"
         /\ issue' = [issue EXCEPT ![found[j]] = IF @ = None THEN None ELSE Report(j)]
      \/ at[j] = "create" /\ \E i \in Issues \ Open : issue' = [issue EXCEPT ![i] = Report(j)]
  BY DEF EditIssue, CreateIssue
<1>2. issue' \in [Issues -> Reports \cup {None}]
  BY <1>1, WriteEnds DEF MonitorInv, MonitorTypeOK
<1>3. \A i \in Open' : issue'[i].latest <= feed
  BY <1>1, WriteEnds DEF MonitorInv, MonitorTypeOK, Open, Report
<1>4. MonitorTypeOK'
  BY <1>2, <1>3, WriteEnds DEF MonitorInv, MonitorTypeOK
<1>5. OneActive' /\ ReadLate' /\ CreatesFirst'
  BY WriteEnds DEF OneActive, ReadLate, CreatesFirst, Active
<1>6. OneDashboard'
  <2>1. CASE at[j] = "edit"
    <3>1. Open' \subseteq Open
      BY <1>1, <2>1 DEF MonitorInv, MonitorTypeOK, Open
    <3>2. QED
      BY <3>1, WriteEnds DEF MonitorInv, OneDashboard
  <2>2. CASE at[j] = "create"
    <3>1. ~doubled => Open = {}
      BY <2>2 DEF MonitorInv, CreatesFirst
    <3>2. PICK i \in Issues : issue' = [issue EXCEPT ![i] = Report(j)]
      BY <1>1, <2>2
    <3>3. Open' \subseteq Open \cup {i}
      BY <3>2 DEF MonitorInv, MonitorTypeOK, Open
    <3>4. QED
      BY <3>1, <3>3, WriteEnds DEF OneDashboard
  <2>3. QED
    BY <1>1, <2>1, <2>2
<1>7. ASSUME NEW i \in Open, issue'[i] # None
      PROVE  issue'[i].latest >= issue[i].latest
  <2>1. issue[i].latest <= latest[j] /\ issue[i].latest \in Nat /\ latest[j] \in Nat
    BY <1>1 DEF MonitorInv, MonitorTypeOK, ReadLate, Open
  <2>2. issue'[i] = issue[i] \/ issue'[i] = Report(j)
    BY <1>1 DEF MonitorInv, MonitorTypeOK, Open
  <2>3. QED
    BY <2>1, <2>2 DEF Report
<1>8. QED
  BY <1>4, <1>5, <1>6, <1>7 DEF MonitorInv

LEMMA MonitorStep == MonitorInv /\ [MonitorNext]_monitorVars => MonitorInv'
<1> SUFFICES ASSUME MonitorInv, [MonitorNext]_monitorVars PROVE MonitorInv'
  OBVIOUS
<1>1. CASE UNCHANGED monitorVars
  BY <1>1 DEF monitorVars, MonitorInv, MonitorTypeOK, OneActive, ReadLate, CreatesFirst,
             OneDashboard, Open
<1>2. CASE MonitorNext
  BY <1>2, OthersStep, TurnStep, ListStep, WriteStep DEF MonitorNext, Others
<1>3. QED
  BY <1>1, <1>2

LEMMA MonitorInductive == MonitorSpec => []MonitorInv
  BY InitialMonitor, MonitorStep, PTL DEF MonitorSpec

(* Types: among them, that an issue names a published version.             *)
THEOREM MonitorTypeCorrect == MonitorSpec => []MonitorTypeOK
  BY MonitorInductive, PTL DEF MonitorInv

(* There is one dashboard as long as the search has not been blind.        *)
THEOREM OneDashboardSafe == MonitorSpec => []OneDashboard
  BY MonitorInductive, PTL DEF MonitorInv

(* An open issue never goes back to an older version.                      *)
THEOREM NeverOlderSafe == MonitorSpec => NoticeNeverOlder
<1>1. MonitorInv /\ [MonitorNext]_monitorVars =>
        [\A i \in Open : issue'[i] # None => issue'[i].latest >= issue[i].latest]_monitorVars
  <2> SUFFICES ASSUME MonitorInv, MonitorNext, NEW i \in Open, issue'[i] # None
               PROVE  issue'[i].latest >= issue[i].latest
    BY DEF monitorVars
  <2>1. issue[i].latest \in Nat
    BY DEF MonitorInv, MonitorTypeOK, Open
  <2>2. CASE issue'[i] = issue[i]
    BY <2>1, <2>2
  <2>3. CASE \E j \in Jobs : EditIssue(j) \/ CreateIssue(j)
    BY <2>3, WriteStep
  <2>4. CASE Others \/ \E j \in Jobs : \/ Trigger(j) \/ Begin(j) \/ Abort(j)
                                       \/ CompareVersions(j) \/ ListIssues(j) \/ ListBlind(j)
    <3>1. issue'[i] = issue[i]
      BY <2>4 DEF Others, PublishVersion, Select, CloseIssue, Trigger, Begin, Abort,
                  CompareVersions, ListIssues, ListBlind, MonitorInv, MonitorTypeOK, Open
    <3>2. QED
      BY <2>2, <3>1
  <2>5. QED
    BY <2>3, <2>4 DEF MonitorNext, Others
<1>2. QED
  BY <1>1, MonitorInductive, PTL DEF MonitorSpec, NoticeNeverOlder

=============================================================================
