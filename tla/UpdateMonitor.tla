--------------------------- MODULE UpdateMonitor ---------------------------
(***************************************************************************)
(* The weekly update monitor: runs of update-monitor.yml, in which         *)
(* scripts/check-postgresql-update.py compares the selected PostgreSQL     *)
(* version with the feed of postgresql.org and the workflow creates or     *)
(* edits one issue.  Versions of the maintained major are numbers.         *)
(***************************************************************************)
EXTENDS Naturals

CONSTANTS Jobs,        \* runs of the workflow that exist at one time
          Issues,      \* places for open issues of that title (bound)
          MaxVersion,  \* bound: versions published
          None

ASSUME MonitorAssumption == MaxVersion \in Nat \ {0} /\ None \notin Nat

VARIABLES feed,      \* the latest version in versions.json
          selected,  \* postgresql_version of lock-inputs.json on main
          at,        \* where a run is
          current,   \* the version in its checkout
          latest,    \* the version its report names
          found,     \* the issue it has found
          issue,     \* the open issues of the title: the report, or None
          doubled    \* history: an issue was created while another, which
                     \* the search did not show, was open

monitorVars == <<feed, selected, at, current, latest, found, issue, doubled>>

Active == {"compare", "list", "edit", "create"}
Versions == 1 .. MaxVersion
Open == {i \in Issues : issue[i] # None}

MonitorInit ==
  /\ feed = 1 /\ selected = 1
  /\ at = [j \in Jobs |-> "idle"]
  /\ current = [j \in Jobs |-> 1] /\ latest = [j \in Jobs |-> 1]
  /\ found = [j \in Jobs |-> None]
  /\ issue = [i \in Issues |-> None] /\ doubled = FALSE

PublishVersion == /\ feed < MaxVersion /\ feed' = feed + 1
                  /\ UNCHANGED <<selected, at, current, latest, found, issue, doubled>>

(* A maintainer merges new lock inputs, or closes an issue.                *)
Select == /\ \E v \in selected + 1 .. feed : selected' = v
          /\ UNCHANGED <<feed, at, current, latest, found, issue, doubled>>

CloseIssue == /\ \E i \in Open : issue' = [issue EXCEPT ![i] = None]
              /\ UNCHANGED <<feed, selected, at, current, latest, found, doubled>>

(* The schedule or a maintainer starts a run for what is on main, or one   *)
(* for an older commit is run again.  A run that waits in the concurrency  *)
(* group gives way to it.                                                  *)
Trigger(j) ==
  /\ at[j] = "idle"
  /\ at' = [k \in Jobs |-> IF k = j THEN "pending"
                           ELSE IF at[k] = "pending" THEN "idle" ELSE at[k]]
  /\ \E v \in 1 .. selected : current' = [current EXCEPT ![j] = v]
  /\ UNCHANGED <<feed, selected, latest, found, issue, doubled>>

Moves(j, to) == at' = [at EXCEPT ![j] = to]

Ends(j) == /\ Moves(j, "idle") /\ found' = [found EXCEPT ![j] = None]
           /\ current' = [current EXCEPT ![j] = 1] /\ latest' = [latest EXCEPT ![j] = 1]

(* Mutant: there is no concurrency group.                                  *)
BeginUngrouped(j) ==
  /\ at[j] = "pending" /\ Moves(j, "compare")
  /\ UNCHANGED <<feed, selected, current, latest, found, issue, doubled>>

Begin(j) ==
  /\ at[j] = "pending" /\ \A k \in Jobs : at[k] \notin Active
  /\ Moves(j, "compare")
  /\ UNCHANGED <<feed, selected, current, latest, found, issue, doubled>>

(* A step fails or the run reaches its time limit.                         *)
Abort(j) == /\ at[j] \in Active /\ Ends(j)
            /\ UNCHANGED <<feed, selected, issue, doubled>>

(* Mutant: the newest major of the feed instead of the maintained one.     *)
CompareNewestMajor(j) ==
  /\ at[j] = "compare" /\ Moves(j, "list")
  /\ latest' = [latest EXCEPT ![j] = feed + 1]
  /\ UNCHANGED <<feed, selected, current, found, issue, doubled>>

CompareVersions(j) ==
  /\ at[j] = "compare" /\ Moves(j, "list")
  /\ latest' = [latest EXCEPT ![j] = feed]
  /\ UNCHANGED <<feed, selected, current, found, issue, doubled>>

(* Mutant: an issue is found by the version it names.                      *)
ListByVersion(j) ==
  /\ at[j] = "list"
  /\ LET matches == {i \in Open : issue[i].latest = latest[j]}
     IN  \/ \E i \in matches : found' = [found EXCEPT ![j] = i] /\ Moves(j, "edit")
         \/ matches = {} /\ Moves(j, "create") /\ UNCHANGED found
  /\ UNCHANGED <<feed, selected, current, latest, issue, doubled>>

(* The first open issue that the search shows.                             *)
ListIssues(j) ==
  /\ at[j] = "list"
  /\ \/ \E i \in Open : found' = [found EXCEPT ![j] = i] /\ Moves(j, "edit")
     \/ Open = {} /\ Moves(j, "create") /\ UNCHANGED found
  /\ UNCHANGED <<feed, selected, current, latest, issue, doubled>>

(* The search is late or fails: without pipefail that is an empty answer.  *)
ListBlind(j) ==
  /\ at[j] = "list" /\ Open # {} /\ Open # Issues
  /\ Moves(j, "create") /\ doubled' = TRUE
  /\ UNCHANGED <<feed, selected, current, latest, found, issue>>

Report(j) == [current |-> current[j], latest |-> latest[j]]

(* Mutant: an issue that exists is left alone.                             *)
EditNothing(j) ==
  /\ at[j] = "edit" /\ Ends(j)
  /\ UNCHANGED <<feed, selected, issue, doubled>>

(* An issue that was closed meanwhile is edited and stays closed.          *)
EditIssue(j) ==
  /\ at[j] = "edit" /\ Ends(j)
  /\ issue' = [issue EXCEPT ![found[j]] = IF @ = None THEN None ELSE Report(j)]
  /\ UNCHANGED <<feed, selected, doubled>>

CreateIssue(j) ==
  /\ at[j] = "create" /\ Ends(j)
  /\ \E i \in Issues \ Open : issue' = [issue EXCEPT ![i] = Report(j)]
  /\ UNCHANGED <<feed, selected, doubled>>

MonitorNext ==
  \/ PublishVersion \/ Select \/ CloseIssue
  \/ \E j \in Jobs : \/ Trigger(j) \/ Begin(j) \/ Abort(j) \/ CompareVersions(j)
                     \/ ListIssues(j) \/ ListBlind(j) \/ EditIssue(j) \/ CreateIssue(j)

(* The schedule goes on, a waiting run gets its turn, and a step that runs *)
(* again and again does not fail every time.                               *)
MonitorFairness ==
  /\ WF_monitorVars(\E j \in Jobs : Trigger(j)) /\ WF_monitorVars(\E j \in Jobs : Begin(j))
  /\ SF_monitorVars(\E j \in Jobs : CompareVersions(j))
  /\ SF_monitorVars(\E j \in Jobs : ListIssues(j))
  /\ SF_monitorVars(\E j \in Jobs : EditIssue(j))
  /\ SF_monitorVars(\E j \in Jobs : CreateIssue(j))

MonitorSpec == MonitorInit /\ [][MonitorNext]_monitorVars /\ MonitorFairness

-----------------------------------------------------------------------------
(* Properties.                                                             *)

Reports == [current : Versions, latest : Versions]

(* Types; an issue names a version of the maintained major that was        *)
(* published.                                                              *)
MonitorTypeOK ==
  /\ feed \in Versions /\ selected \in 1 .. feed /\ doubled \in BOOLEAN
  /\ at \in [Jobs -> Active \cup {"idle", "pending"}]
  /\ current \in [Jobs -> 1 .. feed] /\ latest \in [Jobs -> 1 .. feed]
  /\ found \in [Jobs -> Issues \cup {None}]
  /\ issue \in [Issues -> Reports \cup {None}]
  /\ \A i \in Open : issue[i].latest <= feed

(* There is one dashboard, unless the search was late or failed once:      *)
(* schedule, manual runs and repeated ones do not open a second one.       *)
OneDashboard == ~doubled => \A i, k \in Open : i = k

(* An open issue never goes back to an older upstream version, although    *)
(* runs read the feed long before they write.                              *)
NoticeNeverOlder ==
  [][\A i \in Open : issue'[i] # None => issue'[i].latest >= issue[i].latest]_monitorVars

(* A published version is selected or a maintainer is told: an open issue  *)
(* asks for the review of it or of a later one.                            *)
UpdateNoticed ==
  \A v \in Versions : (feed >= v /\ selected < v) ~>
    \/ selected >= v
    \/ \E i \in Open : issue[i].latest >= v /\ issue[i].latest # issue[i].current

=============================================================================
