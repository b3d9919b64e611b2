---------------------------- MODULE ReleaseProofs ---------------------------
(***************************************************************************)
(* Proofs about ReleasePipeline, for any runs, tags, commits and builds:   *)
(* the types, the evidence and what a signature stands for, whatever       *)
(* people do, and that the workflow implements ImmutablePublication for    *)
(* the kept tags.                                                          *)
(***************************************************************************)
EXTENDS ReleaseRefinement, TLAPS

USE ReleaseAssumption

LEMMA JobsAre ==
  /\ Jobs = {"amd64", "arm64", "validate", "publish", "scan", "sign", "release"}
  /\ Archs \subseteq Jobs
  BY DEF Jobs, Archs

LEMMA KeptAre ==
  /\ Kept \subseteq Tags /\ Kept \subseteq TagsProtected /\ Kept \subseteq FailedOnly
  /\ TagsProtected \subseteq Tags
  BY DEF Kept

LEMMA NeedsAre ==
  /\ Needs["validate"] = {}
  /\ Needs["amd64"] = {"validate"} /\ Needs["arm64"] = {"validate"}
  /\ Needs["publish"] = {"validate", "amd64", "arm64"}
  /\ Needs["scan"] = {"validate", "publish"}
  /\ Needs["sign"] = {"validate", "publish", "scan"}
  /\ Needs["release"] = {"validate", "publish", "sign"}
  /\ \A j \in Jobs : Needs[j] \subseteq Jobs /\ j \notin Needs[j]
  BY DEF Needs, Jobs, Archs

(* Re-running a job re-runs whatever needs a job that is re-run.           *)
LEMMA DependentsClosed ==
  ASSUME NEW j \in Jobs, NEW k \in Jobs, NEW n \in Needs[k], n \in Dependents(j)
  PROVE  k \in Dependents(j)
  BY NeedsAre, JobsAre DEF Dependents

(* The jobs of a run that have begun, and what they have left.             *)
JobInv(r) ==
  /\ phase[r] # "none" => tag[r] \in Tags /\ sha[r] \in Commits
  /\ phase[r] = "none" => \A j \in Jobs : job[r][j] = "waiting"
  /\ \A j \in Jobs : job[r][j] # "waiting" =>
       \A n \in Needs[j] : job[r][n] = "success"
  /\ \A a \in Archs : job[r][a] = "success" =>
       archive[r][a] \in Digests /\ archive[r][a].commit = sha[r]
                                 /\ archive[r][a].arch = a
  /\ job[r]["publish"] = "success" => output[r] = archive[r]
  /\ job[r]["sign"] = "success" => bundle[r] = output[r]

Inv == TypeOK /\ \A r \in Runs : JobInv(r)

(* A run none of whose variables has changed keeps JobInv.                 *)
LEMMA Untouched ==
  ASSUME NEW r \in Runs, JobInv(r), phase'[r] = phase[r], tag'[r] = tag[r],
         sha'[r] = sha[r], job'[r] = job[r], archive'[r] = archive[r],
         output'[r] = output[r], bundle'[r] = bundle[r]
  PROVE  JobInv(r)'
  BY DEF JobInv

(* When a job of a run ends, the jobs that need it have not begun.         *)
LEMMA JobEnds ==
  ASSUME Inv, NEW r \in Runs, NEW j \in Jobs, NEW s \in {"success", "failure"},
         Ready(r, j), Result(r, j, s)
  PROVE  /\ job' \in [Runs -> [Jobs -> {"waiting", "success", "failure"}]]
         /\ phase' = phase /\ phase[r] = "active"
         /\ \A q \in Runs : q # r => job'[q] = job[q]
         /\ \A k \in Jobs : k # j => job'[r][k] = job[r][k]
         /\ job'[r][j] = s /\ job[r][j] = "waiting"
         /\ \A n \in Needs[j] : job[r][n] = "success"
         /\ \A k \in Jobs : j \in Needs[k] => job[r][k] = "waiting"
         /\ \A k \in Jobs : job'[r][k] # "waiting" =>
              \A n \in Needs[k] : job'[r][n] = "success"
<1>1. job \in [Runs -> [Jobs -> {"waiting", "success", "failure"}]]
  BY DEF Inv, TypeOK
<1>2. /\ job[r][j] = "waiting" /\ phase[r] = "active" /\ phase' = phase
      /\ \A n \in Needs[j] : job[r][n] = "success"
      /\ job' = [job EXCEPT ![r][j] = s]
  BY DEF Ready, Result
<1>3. \A k \in Jobs : job[r][k] # "waiting" => \A n \in Needs[k] : job[r][n] = "success"
  BY DEF Inv, JobInv
<1>4. \A k \in Jobs : j \in Needs[k] => job[r][k] = "waiting"
  BY <1>2, <1>3
<1>5. /\ \A q \in Runs : q # r => job'[q] = job[q]
      /\ \A k \in Jobs : k # j => job'[r][k] = job[r][k]
      /\ job'[r][j] = s
      /\ job' \in [Runs -> [Jobs -> {"waiting", "success", "failure"}]]
  BY <1>1, <1>2
<1>6. \A k \in Jobs : job'[r][k] # "waiting" => \A n \in Needs[k] : job'[r][n] = "success"
  BY <1>2, <1>3, <1>4, <1>5, NeedsAre
<1> QED BY <1>2, <1>4, <1>5, <1>6

(* What is known when publish, scan or sign may start.                     *)
LEMMA ArchivesComplete ==
  ASSUME Inv, NEW r \in Runs, \A a \in Archs : job[r][a] = "success"
  PROVE  archive[r] \in Indexes
  BY DEF Inv, TypeOK, JobInv, Indexes

LEMMA OutputComplete ==
  ASSUME Inv, NEW r \in Runs, job[r]["publish"] = "success"
  PROVE  output[r] = archive[r] /\ archive[r] \in Indexes
<1>1. "publish" \in Jobs /\ Needs["publish"] = {"validate", "amd64", "arm64"}
  BY JobsAre, NeedsAre
<1>2. \A a \in Archs : job[r][a] = "success"
  BY <1>1 DEF Inv, JobInv, Archs
<1> QED BY <1>2, ArchivesComplete DEF Inv, JobInv

-----------------------------------------------------------------------------
(* The invariant that holds whatever people do.                            *)

LEMMA InvInit == Init => Inv
  BY JobsAre DEF Init, Inv, TypeOK, JobInv, Commits

LEMMA InvPeople ==
  ASSUME Inv,
         NextDay \/ Merge \/ (\E t \in Tags : DeleteTag(t))
           \/ (\E r \in Runs, t \in Tags, c \in Commits : PushTag(r, t, c))
  PROVE  Inv'
<1>1. CASE NextDay \/ Merge
  BY <1>1, Untouched DEF Inv, TypeOK, NextDay, Merge, git, hosts, own
<1>2. CASE \E t \in Tags : DeleteTag(t)
  <2>1. PICK t \in Tags : DeleteTag(t)
    BY <1>2
  <2> QED BY <2>1, Untouched DEF Inv, TypeOK, DeleteTag, hosts, own
<1>3. CASE \E r \in Runs, t \in Tags, c \in Commits : PushTag(r, t, c)
  <2>1. PICK r \in Runs, t \in Tags, c \in Commits : PushTag(r, t, c)
    BY <1>3
  <2>2. TypeOK'
    BY <2>1 DEF Inv, TypeOK, PushTag, hosts
  <2>3. /\ phase'[r] = "pending" /\ tag'[r] = t /\ sha'[r] = c
        /\ job' = job /\ archive' = archive /\ output' = output /\ bundle' = bundle
        /\ \A j \in Jobs : job[r][j] = "waiting"
    BY <2>1 DEF Inv, TypeOK, JobInv, PushTag
  <2>4. JobInv(r)'
    BY <2>3, JobsAre DEF JobInv
  <2>5. \A q \in Runs \ {r} : JobInv(q)'
    BY <2>1, Untouched DEF Inv, TypeOK, PushTag
  <2> QED BY <2>2, <2>4, <2>5 DEF Inv
<1> QED BY <1>1, <1>2, <1>3

(* A run may be re-run, begin or end; only jobs go back to waiting, and    *)
(* with a job go the jobs that need it.                                    *)
LEMMA InvRun ==
  ASSUME Inv, NEW r \in Runs,
         RerunFailed(r) \/ (\E j \in Jobs : RerunFrom(r, j)) \/ BeginRun(r) \/ EndRun(r)
  PROVE  Inv'
<1>1. /\ UNCHANGED <<git, hosts, own>>
      /\ \E p \in {"pending", "active", "done"} : phase' = [phase EXCEPT ![r] = p]
      /\ phase[r] # "none"
      /\ \E J \in SUBSET Jobs :
           /\ job' = [job EXCEPT ![r] =
                        [k \in Jobs |-> IF k \in J THEN "waiting" ELSE job[r][k]]]
           /\ \A k \in Jobs, n \in J : n \in Needs[k] /\ k \notin J => job[r][k] = "waiting"
  <2>1. job \in [Runs -> [Jobs -> {"waiting", "success", "failure"}]]
    BY DEF Inv, TypeOK
  <2>2. CASE RerunFailed(r)
    <3> DEFINE J == {j \in Jobs : job[r][j] # "success"}
    <3>1. [j \in Jobs |-> IF job[r][j] = "success" THEN "success" ELSE "waiting"]
          = [k \in Jobs |-> IF k \in J THEN "waiting" ELSE job[r][k]]
      BY <2>1
    <3>2. \A k \in Jobs, n \in J : n \in Needs[k] /\ k \notin J => job[r][k] = "waiting"
      BY DEF Inv, JobInv
    <3> QED BY <2>2, <3>1, <3>2 DEF RerunFailed
  <2>3. CASE \E j \in Jobs : RerunFrom(r, j)
    <3>1. PICK j \in Jobs : RerunFrom(r, j)
      BY <2>3
    <3>2. \A k \in Jobs, n \in Dependents(j) : n \in Needs[k] => k \in Dependents(j)
      BY DependentsClosed
    <3>3. Dependents(j) \in SUBSET Jobs
      BY DEF Dependents
    <3> QED BY <3>1, <3>2, <3>3 DEF RerunFrom
  <2>4. CASE BeginRun(r) \/ EndRun(r)
    <3>1. job = [job EXCEPT ![r] = [k \in Jobs |-> IF k \in {} THEN "waiting" ELSE job[r][k]]]
      BY <2>1
    <3> QED BY <2>4, <3>1 DEF BeginRun, EndRun
  <2> QED BY <2>2, <2>3, <2>4
<1>2. PICK J \in SUBSET Jobs :
        /\ job' = [job EXCEPT ![r] =
                     [k \in Jobs |-> IF k \in J THEN "waiting" ELSE job[r][k]]]
        /\ \A k \in Jobs, n \in J : n \in Needs[k] /\ k \notin J => job[r][k] = "waiting"
  BY <1>1
<1>3. /\ job' \in [Runs -> [Jobs -> {"waiting", "success", "failure"}]]
      /\ \A k \in Jobs : job'[r][k] = IF k \in J THEN "waiting" ELSE job[r][k]
      /\ \A q \in Runs \ {r} : job'[q] = job[q]
  BY <1>2 DEF Inv, TypeOK
<1>4. TypeOK'
  BY <1>1, <1>3 DEF Inv, TypeOK, git, hosts, own
<1>5. phase'[r] # "none"
  BY <1>1 DEF Inv, TypeOK
<1>6. JobInv(r)'
  BY <1>1, <1>2, <1>3, <1>5, JobsAre, NeedsAre DEF Inv, JobInv, own
<1>7. \A q \in Runs \ {r} : JobInv(q)'
  BY <1>1, <1>3, Untouched DEF Inv, TypeOK, own
<1> QED BY <1>4, <1>6, <1>7 DEF Inv

(* A job that leaves nothing behind for its own run.                       *)
LEMMA InvOnlyJob ==
  ASSUME Inv, TypeOK', NEW r \in Runs, NEW j \in Jobs, NEW s \in {"success", "failure"},
         Ready(r, j), Result(r, j, s), UNCHANGED own,
         s = "success" => j \notin Archs \cup {"publish", "sign"}
  PROVE  Inv'
<1>1. /\ phase' = phase /\ phase[r] = "active"
      /\ \A q \in Runs : q # r => job'[q] = job[q]
      /\ \A k \in Jobs : k # j => job'[r][k] = job[r][k]
      /\ job'[r][j] = s
      /\ \A k \in Jobs : job'[r][k] # "waiting" =>
           \A n \in Needs[k] : job'[r][n] = "success"
  BY JobEnds
<1>2. JobInv(r)'
  BY <1>1, JobsAre DEF Inv, JobInv, own
<1>3. \A q \in Runs \ {r} : JobInv(q)'
  BY <1>1, Untouched DEF Inv, own
<1> QED BY <1>2, <1>3 DEF Inv

(* What an execution of the build job writes.                              *)
LEMMA BuildWrites ==
  ASSUME Inv, NEW r \in Runs, NEW a \in Archs, Build(r, a)
  PROVE  \E s \in {"success", "failure"}, v \in Variants :
           /\ Result(r, a, s)
           /\ archive' \in [Runs -> [Archs -> Digests \cup {None}]]
           /\ subject' \in [Runs -> [Archs -> Digests \cup {None}]]
           /\ \A q \in Runs, b \in Archs : q # r \/ b # a =>
                archive'[q][b] = archive[q][b] /\ subject'[q][b] = subject[q][b]
           /\ \A q \in Runs : q # r => archive'[q] = archive[q]
           /\ Made(sha[r], a, "export", v) \in Digests
           /\ s = "success" => /\ archive'[r][a] = Made(sha[r], a, "export", v)
                               /\ subject'[r][a] = Made(sha[r], a, "local", v)
<1>1. PICK v \in Outcomes[<<sha[r], a>>], kept \in SUBSET Uploads, s \in {"success", "failure"} :
        /\ s = "success" => kept = Uploads
        /\ Keep(r, a, kept, sha[r], v) /\ Result(r, a, s)
  BY DEF Build
<1>2. sha[r] \in Commits
  BY DEF Build, Ready, Inv, JobInv
<1>3. v \in Variants
  BY <1>2
<1>4. \A build \in {"local", "export"} : Made(sha[r], a, build, v) \in Digests
  BY <1>2, <1>3 DEF Made, Digests
<1>5. /\ archive \in [Runs -> [Archs -> Digests \cup {None}]]
      /\ subject \in [Runs -> [Archs -> Digests \cup {None}]]
  BY DEF Inv, TypeOK
<1>6. PICK x \in Digests \cup {None}, y \in Digests \cup {None} :
        /\ archive' = [archive EXCEPT ![r][a] = x] /\ subject' = [subject EXCEPT ![r][a] = y]
        /\ kept = Uploads =>
             x = Made(sha[r], a, "export", v) /\ y = Made(sha[r], a, "local", v)
  <2>1. archive[r][a] \in Digests \cup {None} /\ subject[r][a] \in Digests \cup {None}
    BY <1>5
  <2> QED BY <1>1, <1>4, <2>1 DEF Keep, Uploads
<1>7. /\ archive' \in [Runs -> [Archs -> Digests \cup {None}]]
      /\ subject' \in [Runs -> [Archs -> Digests \cup {None}]]
      /\ \A q \in Runs, b \in Archs : q # r \/ b # a =>
           archive'[q][b] = archive[q][b] /\ subject'[q][b] = subject[q][b]
      /\ \A q \in Runs : q # r => archive'[q] = archive[q]
      /\ archive'[r][a] = x /\ subject'[r][a] = y
  BY <1>5, <1>6
<1> QED BY <1>1, <1>3, <1>4, <1>6, <1>7

LEMMA BuildLeaves ==
  ASSUME NEW r \in Runs, NEW a \in Archs, Build(r, a)
  PROVE  UNCHANGED <<git, hosts, tag, sha, output, bundle>>
  BY DEF Build, Keep

LEMMA InvBuild ==
  ASSUME Inv, NEW r \in Runs, NEW a \in Archs, Build(r, a)
  PROVE  Inv'
<1>1. PICK s \in {"success", "failure"}, v \in Variants :
        /\ Result(r, a, s)
        /\ archive' \in [Runs -> [Archs -> Digests \cup {None}]]
        /\ subject' \in [Runs -> [Archs -> Digests \cup {None}]]
        /\ \A q \in Runs, b \in Archs : q # r \/ b # a =>
             archive'[q][b] = archive[q][b] /\ subject'[q][b] = subject[q][b]
        /\ \A q \in Runs : q # r => archive'[q] = archive[q]
        /\ Made(sha[r], a, "export", v) \in Digests
        /\ s = "success" => /\ archive'[r][a] = Made(sha[r], a, "export", v)
                            /\ subject'[r][a] = Made(sha[r], a, "local", v)
  BY BuildWrites
<1>2. /\ phase' = phase /\ phase[r] = "active"
      /\ job' \in [Runs -> [Jobs -> {"waiting", "success", "failure"}]]
      /\ \A q \in Runs : q # r => job'[q] = job[q]
      /\ \A k \in Jobs : k # a => job'[r][k] = job[r][k]
      /\ job'[r][a] = s
      /\ \A k \in Jobs : a \in Needs[k] => job[r][k] = "waiting"
      /\ \A k \in Jobs : job'[r][k] # "waiting" =>
           \A n \in Needs[k] : job'[r][n] = "success"
  <2>1. Ready(r, a) /\ a \in Jobs
    BY JobsAre DEF Build
  <2> QED BY <1>1, <2>1, JobEnds
<1>3. sha[r] \in Commits
  BY <1>2 DEF Inv, JobInv
<1>5. UNCHANGED <<git, hosts, tag, sha, output, bundle>>
  BY BuildLeaves
<1>6. TypeOK'
  BY <1>1, <1>2, <1>5 DEF Inv, TypeOK, git, hosts
<1>7. /\ \A q \in Runs : q # r => archive'[q] = archive[q]
      /\ \A b \in Archs : b # a => archive'[r][b] = archive[r][b]
      /\ s = "success" => /\ archive'[r][a] \in Digests
                          /\ archive'[r][a].commit = sha[r] /\ archive'[r][a].arch = a
  BY <1>1 DEF Made
<1>8. job'[r]["publish"] = "waiting" /\ job'[r]["sign"] = "waiting"
  <2>1. job[r]["publish"] = "waiting"
    BY <1>2, NeedsAre, JobsAre DEF Archs
  <2>2. job[r]["sign"] = "waiting"
    BY <2>1, NeedsAre, JobsAre DEF Inv, JobInv
  <2> QED BY <1>2, <2>1, <2>2, JobsAre DEF Archs
<1>9. JobInv(r)'
  <2>1. \A b \in Archs : job'[r][b] = "success" =>
          archive'[r][b] \in Digests /\ archive'[r][b].commit = sha'[r]
                                     /\ archive'[r][b].arch = b
    BY <1>2, <1>5, <1>7, JobsAre DEF Inv, JobInv
  <2> QED BY <1>2, <1>5, <1>8, <2>1 DEF Inv, JobInv
<1>10. \A q \in Runs \ {r} : JobInv(q)'
  BY <1>2, <1>5, <1>7, Untouched DEF Inv
<1> QED BY <1>6, <1>9, <1>10 DEF Inv

LEMMA InvPublish ==
  ASSUME Inv, NEW r \in Runs, Publish(r)
  PROVE  Inv'
<1>1. /\ phase' = phase /\ phase[r] = "active"
      /\ job' \in [Runs -> [Jobs -> {"waiting", "success", "failure"}]]
      /\ \A q \in Runs : q # r => job'[q] = job[q]
      /\ \A k \in Jobs : k # "publish" => job'[r][k] = job[r][k]
      /\ \A n \in Needs["publish"] : job[r][n] = "success"
      /\ \A k \in Jobs : "publish" \in Needs[k] => job[r][k] = "waiting"
      /\ \A k \in Jobs : job'[r][k] # "waiting" =>
           \A n \in Needs[k] : job'[r][n] = "success"
  BY JobEnds, JobsAre DEF Publish
<1>2. archive[r] \in Indexes
  BY <1>1, ArchivesComplete, NeedsAre DEF Archs
<1>3. TypeOK'
  BY <1>1, <1>2 DEF Inv, TypeOK, Publish, git
<1>4. /\ output'[r] = archive[r]
      /\ \A q \in Runs : q # r => output'[q] = output[q]
  BY DEF Inv, TypeOK, Publish
<1>5. job'[r]["sign"] = "waiting"
  BY <1>1, NeedsAre, JobsAre
<1>6. JobInv(r)'
  BY <1>1, <1>4, <1>5, JobsAre DEF Inv, JobInv, Publish, Archs
<1>7. \A q \in Runs \ {r} : JobInv(q)'
  BY <1>1, <1>4, Untouched DEF Inv, Publish
<1> QED BY <1>3, <1>6, <1>7 DEF Inv

LEMMA InvSign ==
  ASSUME Inv, NEW r \in Runs, Sign(r)
  PROVE  Inv'
<1>1. /\ phase' = phase /\ phase[r] = "active"
      /\ job' \in [Runs -> [Jobs -> {"waiting", "success", "failure"}]]
      /\ \A q \in Runs : q # r => job'[q] = job[q]
      /\ \A k \in Jobs : k # "sign" => job'[r][k] = job[r][k]
      /\ \A n \in Needs["sign"] : job[r][n] = "success"
      /\ \A k \in Jobs : job'[r][k] # "waiting" =>
           \A n \in Needs[k] : job'[r][n] = "success"
  BY JobEnds, JobsAre DEF Sign
<1>2. output[r] \in Indexes /\ tag[r] \in Tags
  BY <1>1, OutputComplete, NeedsAre DEF Inv, JobInv
<1>3. TypeOK'
  <2>1. signed' \subseteq Indexes \X Tags
    BY <1>2 DEF Inv, TypeOK, Sign
  <2>2. bundle' \in [Runs -> Indexes \cup {None}]
    BY <1>2 DEF Inv, TypeOK, Sign
  <2> QED BY <1>1, <2>1, <2>2 DEF Inv, TypeOK, Sign, git
<1>4. /\ bundle'[r] = output[r]
      /\ \A q \in Runs : q # r => bundle'[q] = bundle[q]
  BY DEF Inv, TypeOK, Sign
<1>5. JobInv(r)'
  BY <1>1, <1>4, JobsAre DEF Inv, JobInv, Sign, Archs
<1>6. \A q \in Runs \ {r} : JobInv(q)'
  BY <1>1, <1>4, Untouched DEF Inv, Sign
<1> QED BY <1>3, <1>5, <1>6 DEF Inv

LEMMA InvJob ==
  ASSUME Inv, NEW r \in Runs, Job(r)
  PROVE  Inv'
<1>1. CASE \E j \in Jobs : JobFails(r, j)
  <2>1. PICK j \in Jobs : JobFails(r, j)
    BY <1>1
  <2>2. TypeOK'
    BY <2>1, JobEnds DEF JobFails, Inv, TypeOK, git, hosts, own
  <2> QED BY <2>1, <2>2, InvOnlyJob DEF JobFails
<1>2. CASE \E a \in Archs : Build(r, a)
  BY <1>2, InvBuild
<1>3. CASE Validate(r)
  <2>1. TypeOK'
    BY <1>3, JobEnds, JobsAre DEF Validate, Inv, TypeOK, git, hosts, own
  <2> QED BY <1>3, <2>1, InvOnlyJob, JobsAre DEF Validate, Archs
<1>4. CASE Publish(r)
  BY <1>4, InvPublish
<1>5. CASE PublishFails(r)
  <2>1. /\ job' \in [Runs -> [Jobs -> {"waiting", "success", "failure"}]]
        /\ phase' = phase
        /\ \A n \in Needs["publish"] : job[r][n] = "success"
    BY <1>5, JobEnds, JobsAre DEF PublishFails
  <2>2. archive[r] \in Indexes
    BY <2>1, ArchivesComplete, NeedsAre DEF Archs
  <2>3. TypeOK'
    BY <1>5, <2>1, <2>2 DEF PublishFails, Inv, TypeOK, git, own
  <2> QED BY <1>5, <2>3, InvOnlyJob, JobsAre DEF PublishFails
<1>6. CASE Scan(r)
  <2>1. /\ job' \in [Runs -> [Jobs -> {"waiting", "success", "failure"}]]
        /\ phase' = phase
        /\ \A n \in Needs["scan"] : job[r][n] = "success"
    BY <1>6, JobEnds, JobsAre DEF Scan
  <2>2. output[r] \in Indexes
    BY <2>1, OutputComplete, NeedsAre
  <2>3. TypeOK'
    BY <1>6, <2>1, <2>2 DEF Scan, Inv, TypeOK, git, own
  <2> QED BY <1>6, <2>3, InvOnlyJob, JobsAre DEF Scan, Archs
<1>7. CASE Sign(r)
  BY <1>7, InvSign
<1>8. CASE SignFails(r)
  <2>1. /\ job' \in [Runs -> [Jobs -> {"waiting", "success", "failure"}]]
        /\ phase' = phase /\ phase[r] = "active"
        /\ \A n \in Needs["sign"] : job[r][n] = "success"
    BY <1>8, JobEnds, JobsAre DEF SignFails
  <2>2. output[r] \in Indexes /\ tag[r] \in Tags
    BY <2>1, OutputComplete, NeedsAre DEF Inv, JobInv
  <2>3. TypeOK'
    BY <1>8, <2>1, <2>2 DEF SignFails, Inv, TypeOK, git, own
  <2> QED BY <1>8, <2>3, InvOnlyJob, JobsAre DEF SignFails
<1>9. CASE Release(r)
  <2>1. /\ job' \in [Runs -> [Jobs -> {"waiting", "success", "failure"}]]
        /\ phase' = phase
        /\ \A n \in Needs["release"] : job[r][n] = "success"
    BY <1>9, JobEnds, JobsAre DEF Release
  <2>2. bundle[r] \in Indexes
    <3>1. job[r]["publish"] = "success" /\ job[r]["sign"] = "success"
      BY <2>1, NeedsAre
    <3> QED BY <3>1, OutputComplete DEF Inv, JobInv
  <2>3. TypeOK'
    BY <1>9, <2>1, <2>2 DEF Release, Inv, TypeOK, git, own
  <2> QED BY <1>9, <2>3, InvOnlyJob, JobsAre DEF Release, Archs
<1> QED BY <1>1, <1>2, <1>3, <1>4, <1>5, <1>6, <1>7, <1>8, <1>9 DEF Job

LEMMA InvStep == Inv /\ [Next]_vars => Inv'
<1> SUFFICES ASSUME Inv, [Next]_vars PROVE Inv'
  OBVIOUS
<1>1. CASE UNCHANGED vars
  BY <1>1, Untouched DEF Inv, TypeOK, vars, git, hosts, own
<1>2. CASE Next
  BY <1>2, InvPeople, InvRun, InvJob DEF Next
<1> QED BY <1>1, <1>2

(* Every reachable state of the release workflow is well typed, whatever   *)
(* is re-run and whichever tags are deleted: no job ever publishes, signs  *)
(* or announces something that an earlier job has not produced.            *)
THEOREM TypeCorrect == Spec => []TypeOK
<1>1. Inv => TypeOK
  BY DEF Inv
<1> QED BY InvInit, InvStep, <1>1, PTL DEF Spec

-----------------------------------------------------------------------------
(* Evidence and archive of a build that succeeded come from one execution  *)
(* of its job.                                                             *)
SameBuild(d, e) == [d EXCEPT !.build = "export"] = [e EXCEPT !.build = "export"]

EvidenceInv ==
  \A r \in Runs, a \in Archs :
    job[r][a] = "success" => SameBuild(subject[r][a], archive[r][a])

LEMMA EvidenceKept ==
  ASSUME EvidenceInv, UNCHANGED <<archive, subject>>,
         \A r \in Runs, a \in Archs : job'[r][a] = "success" => job[r][a] = "success"
  PROVE  EvidenceInv'
  BY DEF EvidenceInv

LEMMA EvidenceBuild ==
  ASSUME Inv, EvidenceInv, NEW r \in Runs, NEW a \in Archs, Build(r, a)
  PROVE  EvidenceInv'
<1>1. PICK s \in {"success", "failure"}, v \in Variants :
        /\ Result(r, a, s)
        /\ \A q \in Runs, b \in Archs : q # r \/ b # a =>
             archive'[q][b] = archive[q][b] /\ subject'[q][b] = subject[q][b]
        /\ s = "success" => /\ archive'[r][a] = Made(sha[r], a, "export", v)
                            /\ subject'[r][a] = Made(sha[r], a, "local", v)
  BY BuildWrites
<1>4. s = "success" => SameBuild(subject'[r][a], archive'[r][a])
  BY <1>1 DEF SameBuild, Made
<1>5. /\ \A q \in Runs, b \in Archs : q # r \/ b # a => job'[q][b] = job[q][b]
      /\ job'[r][a] = s
  BY <1>1, JobEnds, JobsAre DEF Build
<1>6. ASSUME NEW q \in Runs, NEW b \in Archs, job'[q][b] = "success"
      PROVE  SameBuild(subject'[q][b], archive'[q][b])
  <2>1. CASE q = r /\ b = a
    BY <1>4, <1>5, <1>6, <2>1
  <2>2. CASE q # r \/ b # a
    BY <1>1, <1>5, <1>6, <2>2 DEF EvidenceInv
  <2> QED BY <2>1, <2>2
<1> QED BY <1>6 DEF EvidenceInv

(* No other job makes a build succeed.                                     *)
LEMMA EvidenceJob ==
  ASSUME Inv, EvidenceInv, NEW r \in Runs, Job(r)
  PROVE  EvidenceInv'
<1>1. CASE \E a \in Archs : Build(r, a)
  BY <1>1, EvidenceBuild
<1>2. CASE \E j \in Jobs : JobFails(r, j)
  <2>1. PICK j \in Jobs : JobFails(r, j)
    BY <1>2
  <2>2. \A q \in Runs, k \in Jobs : job'[q][k] = "success" => job[q][k] = "success"
    BY <2>1, JobEnds DEF JobFails
  <2> QED BY <2>1, <2>2, EvidenceKept, JobsAre DEF JobFails, own
<1>3. ASSUME NEW j \in Jobs \ Archs, NEW s \in {"success", "failure"},
             Ready(r, j), Result(r, j, s), UNCHANGED <<archive, subject>>
      PROVE  EvidenceInv'
  <2>1. \A q \in Runs, a \in Archs : job'[q][a] = job[q][a]
    BY <1>3, JobEnds, JobsAre
  <2> QED BY <1>3, <2>1, EvidenceKept
<1>4. CASE Validate(r) \/ Publish(r) \/ PublishFails(r)
  BY <1>3, <1>4, JobsAre DEF Validate, Publish, PublishFails, own, Archs
<1>5. CASE Scan(r) \/ Sign(r) \/ SignFails(r) \/ Release(r)
  BY <1>3, <1>5, JobsAre DEF Scan, Sign, SignFails, Release, own, Archs
<1> QED BY <1>1, <1>2, <1>4, <1>5 DEF Job

LEMMA EvidenceStep == Inv /\ EvidenceInv /\ [Next]_vars => EvidenceInv'
<1> SUFFICES ASSUME Inv, EvidenceInv, [Next]_vars PROVE EvidenceInv'
  OBVIOUS
<1>1. CASE UNCHANGED vars
  BY <1>1, EvidenceKept DEF vars, own
<1>2. CASE NextDay \/ Merge \/ (\E t \in Tags : DeleteTag(t))
           \/ (\E r \in Runs, t \in Tags, c \in Commits : PushTag(r, t, c))
  <2>1. UNCHANGED <<archive, subject, job>>
    BY <1>2 DEF NextDay, Merge, DeleteTag, PushTag, own
  <2> QED BY <2>1, EvidenceKept
<1>3. ASSUME NEW r \in Runs,
             RerunFailed(r) \/ (\E j \in Jobs : RerunFrom(r, j)) \/ BeginRun(r) \/ EndRun(r)
      PROVE  EvidenceInv'
  <2>1. \A q \in Runs, k \in Jobs : job'[q][k] = "success" => job[q][k] = "success"
    <3> USE DEF Inv, TypeOK
    <3>1. CASE RerunFailed(r)
      BY <3>1 DEF RerunFailed
    <3>2. CASE \E j \in Jobs : RerunFrom(r, j)
      BY <3>2 DEF RerunFrom
    <3>3. CASE BeginRun(r) \/ EndRun(r)
      BY <3>3 DEF BeginRun, EndRun
    <3> QED BY <1>3, <3>1, <3>2, <3>3
  <2>2. UNCHANGED <<archive, subject>>
    BY <1>3 DEF RerunFailed, RerunFrom, BeginRun, EndRun, own
  <2> QED BY <2>1, <2>2, EvidenceKept, JobsAre
<1>4. ASSUME NEW r \in Runs, Job(r) PROVE EvidenceInv'
  BY <1>4, EvidenceJob
<1> QED BY <1>1, <1>2, <1>3, <1>4 DEF Next

(* The evidence a run attests for an architecture and the manifest it      *)
(* signs come from one execution of the build job, for any runs, failures  *)
(* and re-runs: a build that is run again takes publish and sign with it.  *)
THEOREM EvidenceSafe == Spec => []EvidenceFits
<1>1. Init => EvidenceInv
  BY JobsAre DEF Init, EvidenceInv
<1>2. Inv /\ EvidenceInv => EvidenceFits
  <2> SUFFICES ASSUME Inv, EvidenceInv, NEW r \in Runs, job[r]["sign"] = "success",
                      NEW a \in Archs
               PROVE  SameBuild(subject[r][a], bundle[r][a])
    BY DEF EvidenceFits, SameBuild
  <2>1. job[r]["publish"] = "success"
    BY NeedsAre, JobsAre DEF Inv, JobInv
  <2>2. job[r][a] = "success"
    BY <2>1, NeedsAre, JobsAre DEF Inv, JobInv, Archs
  <2>3. bundle[r] = archive[r]
    BY <2>1 DEF Inv, JobInv
  <2> QED BY <2>2, <2>3 DEF EvidenceInv
<1> QED BY InvInit, InvStep, EvidenceStep, <1>1, <1>2, PTL DEF Spec

-----------------------------------------------------------------------------
(* What a signature stands for, also whatever people do.                   *)

GateInv(r) ==
  /\ job[r]["validate"] = "success" => sha[r] <= main /\ <<sha[r], tag[r]>> \in Agrees
  /\ job[r]["scan"] = "success" => output[r] \in scanned
  /\ job[r]["sign"] = "success" => <<output[r], tag[r]>> \in signed

Gated == Inv /\ SignedWasGated /\ \A r \in Runs : GateInv(r)

LEMMA GateKept ==
  ASSUME Inv, NEW r \in Runs, GateInv(r), main' \in Nat, main <= main',
         scanned \subseteq scanned', signed \subseteq signed',
         tag'[r] = tag[r], sha'[r] = sha[r], output'[r] = output[r],
         \A k \in Jobs : job'[r][k] = "success" => job[r][k] = "success"
  PROVE  GateInv(r)'
<1>1. job[r]["validate"] = "success" => sha[r] \in Nat /\ main \in Nat
  BY JobsAre DEF Inv, TypeOK, JobInv, Commits
<1> QED BY <1>1, JobsAre DEF GateInv

(* Commits never leave main, and an index that passed the scan has passed. *)
LEMMA SignedKept ==
  ASSUME Inv, SignedWasGated, main' \in Nat, main <= main',
         scanned \subseteq scanned', signed' = signed
  PROVE  SignedWasGated'
<1> SUFFICES ASSUME NEW s \in signed
             PROVE  s[1] \in scanned' /\ \E c \in Commits : Candidate(s[1], s[2], c)'
  BY DEF SignedWasGated
<1>1. PICK c \in Commits : Candidate(s[1], s[2], c)
  BY DEF SignedWasGated
<1>2. c \in Nat /\ main \in Nat
  BY DEF Commits, Inv, TypeOK
<1>3. Candidate(s[1], s[2], c)'
  BY <1>1, <1>2 DEF Candidate
<1> QED BY <1>3 DEF SignedWasGated

LEMMA OutputIsCandidate ==
  ASSUME Gated, NEW r \in Runs, job[r]["publish"] = "success"
  PROVE  tag[r] \in Tags /\ sha[r] \in Commits /\ Candidate(output[r], tag[r], sha[r])
<1>1. /\ "publish" \in Jobs /\ Needs["publish"] = {"validate", "amd64", "arm64"}
      /\ output[r] = archive[r]
  BY JobsAre, NeedsAre, OutputComplete DEF Gated
<1>2. \A n \in {"validate", "amd64", "arm64"} : job[r][n] = "success"
  BY <1>1 DEF Gated, Inv, JobInv
<1>3. phase[r] # "none"
  BY <1>1, JobsAre DEF Gated, Inv, JobInv
<1>4. tag[r] \in Tags /\ sha[r] \in Commits
  BY <1>3 DEF Gated, Inv, JobInv
<1>5. sha[r] <= main /\ <<sha[r], tag[r]>> \in Agrees
  BY <1>2 DEF Gated, GateInv
<1>6. \A a \in Archs : archive[r][a].commit = sha[r] /\ archive[r][a].arch = a
  BY <1>2 DEF Gated, Inv, JobInv, Archs
<1> QED BY <1>1, <1>4, <1>5, <1>6 DEF Candidate

LEMMA GatedInit == Init => Gated
  BY InvInit, JobsAre DEF Init, Gated, GateInv, SignedWasGated

(* Steps that leave outputs, scans and signatures alone.                   *)
LEMMA GatedOther ==
  ASSUME Gated, Inv', UNCHANGED <<scanned, signed>>, main' \in Nat, main <= main',
         \A q \in Runs : /\ phase[q] # "none" => tag'[q] = tag[q] /\ sha'[q] = sha[q]
                         /\ output'[q] = output[q]
                         /\ \A k \in Jobs : job'[q][k] = "success" => job[q][k] = "success"
  PROVE  Gated'
<1>1. SignedWasGated'
  BY SignedKept DEF Gated
<1>2. ASSUME NEW q \in Runs PROVE GateInv(q)'
  <2>1. CASE phase[q] # "none"
    BY <2>1, GateKept DEF Gated
  <2>2. CASE phase[q] = "none"
    BY <2>2, JobsAre DEF Gated, Inv, JobInv, GateInv
  <2> QED BY <2>1, <2>2
<1> QED BY <1>1, <1>2 DEF Gated

(* One job of one run ends, and the other runs keep what they have.        *)
LEMMA GatedRest ==
  ASSUME Gated, NEW r \in Runs, NEW j \in Jobs, NEW s \in {"success", "failure"},
         Ready(r, j), Result(r, j, s), UNCHANGED <<git, tag, sha>>,
         scanned \subseteq scanned', signed \subseteq signed',
         \A q \in Runs \ {r} : output'[q] = output[q]
  PROVE  /\ \A q \in Runs \ {r} : GateInv(q)'
         /\ main' = main /\ main' \in Nat /\ main <= main'
<1>1. main' = main /\ main' \in Nat /\ main <= main'
  BY DEF Gated, Inv, TypeOK, git
<1>2. \A q \in Runs : q # r => job'[q] = job[q]
  BY JobEnds DEF Gated
<1> QED BY <1>1, <1>2, GateKept DEF Gated

LEMMA GatedJob ==
  ASSUME Gated, Inv', NEW r \in Runs, Job(r)
  PROVE  Gated'
<1> USE JobsAre
<1>0. main \in Nat
  BY DEF Gated, Inv, TypeOK
<1>1. CASE \E j \in Jobs : JobFails(r, j)
  <2>1. PICK j \in Jobs : JobFails(r, j)
    BY <1>1
  <2>2. \A q \in Runs : \A k \in Jobs : job'[q][k] = "success" => job[q][k] = "success"
    BY <2>1, JobEnds DEF JobFails, Gated
  <2> QED BY <2>1, <2>2, <1>0, GatedOther DEF JobFails, git, hosts, own
<1>2. CASE \E a \in Archs : Build(r, a)
  <2>1. PICK a \in Archs : Build(r, a)
    BY <1>2
  <2>2. PICK s \in {"success", "failure"} : Result(r, a, s)
    BY <2>1 DEF Build
  <2>3. /\ \A q \in Runs \ {r} : GateInv(q)'
        /\ main' = main /\ main' \in Nat /\ main <= main'
    BY <2>1, <2>2, GatedRest DEF Build, Keep, hosts
  <2>4. \A k \in Jobs : k # a => job'[r][k] = job[r][k]
    BY <2>1, <2>2, JobEnds DEF Build, Gated
  <2>5. GateInv(r)'
    BY <2>1, <2>3, <2>4 DEF Build, Keep, Gated, GateInv, Archs, hosts
  <2>6. SignedWasGated'
    BY <2>1, <2>3, SignedKept DEF Build, Keep, Gated, hosts
  <2> QED BY <2>3, <2>5, <2>6 DEF Gated
<1>3. CASE Validate(r)
  <2>1. /\ \A q \in Runs \ {r} : GateInv(q)'
        /\ main' = main /\ main' \in Nat /\ main <= main'
    BY <1>3, GatedRest DEF Validate, hosts, own
  <2>2. \A k \in Jobs : k # "validate" => job'[r][k] = job[r][k]
    BY <1>3, JobEnds DEF Validate, Gated
  <2>3. GateInv(r)'
    BY <1>3, <2>1, <2>2 DEF Validate, Gated, GateInv, hosts, own
  <2>4. SignedWasGated'
    BY <1>3, <2>1, SignedKept DEF Validate, Gated, hosts
  <2> QED BY <2>1, <2>3, <2>4 DEF Gated
<1>4. CASE Publish(r)
  <2>1. /\ \A q \in Runs \ {r} : GateInv(q)'
        /\ main' = main /\ main' \in Nat /\ main <= main'
    <3>1. \A q \in Runs \ {r} : output'[q] = output[q]
      BY <1>4 DEF Publish, Gated, Inv, TypeOK
    <3> QED BY <1>4, <3>1, GatedRest DEF Publish
  <2>2. /\ \A k \in Jobs : k # "publish" => job'[r][k] = job[r][k]
        /\ \A k \in Jobs : "publish" \in Needs[k] => job[r][k] = "waiting"
    BY <1>4, JobEnds DEF Publish, Gated
  <2>3. GateInv(r)'
    BY <1>4, <2>1, <2>2, NeedsAre DEF Publish, Gated, GateInv
  <2>4. SignedWasGated'
    BY <1>4, <2>1, SignedKept DEF Publish, Gated
  <2> QED BY <2>1, <2>3, <2>4 DEF Gated
<1>5. CASE PublishFails(r)
  <2>1. \A q \in Runs : \A k \in Jobs : job'[q][k] = "success" => job[q][k] = "success"
    BY <1>5, JobEnds DEF PublishFails, Gated
  <2> QED BY <1>5, <2>1, <1>0, GatedOther DEF PublishFails, git, own
<1>6. CASE Scan(r)
  <2>1. /\ \A q \in Runs \ {r} : GateInv(q)'
        /\ main' = main /\ main' \in Nat /\ main <= main'
    BY <1>6, GatedRest DEF Scan, own
  <2>2. \A k \in Jobs : k # "scan" => job'[r][k] = job[r][k]
    BY <1>6, JobEnds DEF Scan, Gated
  <2>3. GateInv(r)'
    BY <1>6, <2>1, <2>2 DEF Scan, Gated, GateInv, own
  <2>4. SignedWasGated'
    BY <1>6, <2>1, SignedKept DEF Scan, Gated
  <2> QED BY <2>1, <2>3, <2>4 DEF Gated
<1>7. CASE Sign(r) \/ SignFails(r)
  <2>1. PICK s \in {"success", "failure"} :
          /\ Ready(r, "sign") /\ Result(r, "sign", s)
          /\ signed' = signed \cup {<<output[r], tag[r]>>}
          /\ UNCHANGED <<git, oci, scanned, announced, tag, sha, archive, subject, output>>
    BY <1>7 DEF Sign, SignFails, own
  <2>2. /\ \A q \in Runs \ {r} : GateInv(q)'
        /\ main' = main /\ main' \in Nat /\ main <= main'
    BY <2>1, GatedRest
  <2>3. /\ \A k \in Jobs : k # "sign" => job'[r][k] = job[r][k]
        /\ job[r]["publish"] = "success" /\ job[r]["scan"] = "success"
    BY <2>1, JobEnds, NeedsAre DEF Gated
  <2>4. GateInv(r)'
    BY <2>1, <2>2, <2>3 DEF Gated, GateInv
  <2>5. SignedWasGated'
    <3>1. output[r] \in scanned
      BY <2>3 DEF Gated, GateInv
    <3>2. sha[r] \in Commits /\ Candidate(output[r], tag[r], sha[r])
      BY <2>3, OutputIsCandidate
    <3>3. Candidate(output[r], tag[r], sha[r])'
      BY <2>1, <2>2, <3>2 DEF Candidate
    <3>4. ASSUME NEW x \in signed
          PROVE  x[1] \in scanned' /\ \E c \in Commits : Candidate(x[1], x[2], c)'
      <4>1. PICK c \in Commits : Candidate(x[1], x[2], c)
        BY DEF Gated, SignedWasGated
      <4>2. Candidate(x[1], x[2], c)'
        BY <2>2, <4>1 DEF Candidate
      <4> QED BY <2>1, <4>2 DEF Gated, SignedWasGated
    <3> QED BY <2>1, <3>1, <3>2, <3>3, <3>4 DEF SignedWasGated
  <2> QED BY <2>2, <2>4, <2>5 DEF Gated
<1>8. CASE Release(r)
  <2>1. /\ \A q \in Runs \ {r} : GateInv(q)'
        /\ main' = main /\ main' \in Nat /\ main <= main'
    BY <1>8, GatedRest DEF Release, own
  <2>2. \A k \in Jobs : k # "release" => job'[r][k] = job[r][k]
    BY <1>8, JobEnds DEF Release, Gated
  <2>3. GateInv(r)'
    BY <1>8, <2>1, <2>2 DEF Release, Gated, GateInv, own
  <2>4. SignedWasGated'
    BY <1>8, <2>1, SignedKept DEF Release, Gated
  <2> QED BY <2>1, <2>3, <2>4 DEF Gated
<1> QED BY <1>1, <1>2, <1>3, <1>4, <1>5, <1>6, <1>7, <1>8 DEF Job

LEMMA GatedStep == Gated /\ [Next]_vars => Gated'
<1> SUFFICES ASSUME Gated, [Next]_vars PROVE Gated'
  OBVIOUS
<1>1. Inv'
  BY InvStep DEF Gated
<1>2. main \in Nat
  BY DEF Gated, Inv, TypeOK
<1>3. CASE UNCHANGED vars
  BY <1>1, <1>2, <1>3, GatedOther DEF vars, git, hosts, own
<1>4. CASE NextDay \/ Merge \/ \E t \in Tags : DeleteTag(t)
  BY <1>1, <1>2, <1>4, GatedOther DEF NextDay, Merge, DeleteTag, hosts, own
<1>5. CASE \E r \in Runs, t \in Tags, c \in Commits : PushTag(r, t, c)
  <2>1. PICK r \in Runs, t \in Tags, c \in Commits : PushTag(r, t, c)
    BY <1>5
  <2>2. \A q \in Runs : phase[q] # "none" => tag'[q] = tag[q] /\ sha'[q] = sha[q]
    BY <2>1 DEF PushTag, Gated, Inv, TypeOK
  <2> QED BY <1>1, <1>2, <2>1, <2>2, GatedOther DEF PushTag, hosts
<1>6. CASE \E r \in Runs : \/ RerunFailed(r) \/ BeginRun(r) \/ EndRun(r)
                           \/ \E j \in Jobs : RerunFrom(r, j)
  <2>1. PICK r \in Runs : \/ RerunFailed(r) \/ BeginRun(r) \/ EndRun(r)
                          \/ \E j \in Jobs : RerunFrom(r, j)
    BY <1>6
  <2>2. \A q \in Runs : \A k \in Jobs : job'[q][k] = "success" => job[q][k] = "success"
    <3>1. job \in [Runs -> [Jobs -> {"waiting", "success", "failure"}]]
      BY DEF Gated, Inv, TypeOK
    <3>2. CASE RerunFailed(r)
      BY <3>1, <3>2 DEF RerunFailed
    <3>3. CASE \E j \in Jobs : RerunFrom(r, j)
      BY <3>1, <3>3 DEF RerunFrom
    <3>4. CASE BeginRun(r) \/ EndRun(r)
      BY <3>4 DEF BeginRun, EndRun
    <3> QED BY <2>1, <3>2, <3>3, <3>4
  <2>3. UNCHANGED <<git, hosts, own>>
    BY <2>1 DEF RerunFailed, BeginRun, EndRun, RerunFrom
  <2> QED BY <1>1, <1>2, <2>2, <2>3, GatedOther DEF git, hosts, own
<1>7. CASE \E r \in Runs : Job(r)
  BY <1>1, <1>7, GatedJob
<1> QED BY <1>3, <1>4, <1>5, <1>6, <1>7 DEF Next

(* Whatever is re-run and whichever tags are deleted or moved, a signature *)
(* is only given to a scanned index whose manifests were all built from    *)
(* one commit of main that agrees with the tag in the signer's identity.   *)
THEOREM SignedSafe == Spec => []SignedWasGated
<1>1. Gated => SignedWasGated
  BY DEF Gated
<1> QED BY GatedInit, GatedStep, <1>1, PTL DEF Spec

LEMMA CommitTagStep ==
  ASSUME Gated, CommitTagFits, [Next]_vars
  PROVE  CommitTagFits'
<1>1. main \in Nat /\ main' \in Nat /\ main <= main'
  <2>1. main \in Nat
    BY DEF Gated, Inv, TypeOK
  <2>2. main' = main \/ main' = main + 1
    <3>1. CASE \E r \in Runs : Job(r)
      BY <3>1, BuildLeaves DEF Job, JobFails, Validate, Publish, PublishFails, Scan, Sign,
                               SignFails, Release, git
    <3> QED BY <3>1 DEF Next, vars, git, NextDay, Merge, DeleteTag, PushTag, RerunFailed,
                        RerunFrom, BeginRun, EndRun
  <2> QED BY <2>1, <2>2
<1>2. CASE UNCHANGED oci
  BY <1>1, <1>2 DEF CommitTagFits, Commits
<1>3. CASE \E r \in Runs : Publish(r) \/ PublishFails(r)
  <2>1. PICK r \in Runs : Publish(r) \/ PublishFails(r)
    BY <1>3
  <2>2. Ready(r, "publish") /\ phase[r] # "none"
    BY <2>1 DEF Publish, PublishFails, Ready
  <2>3. \A n \in {"validate", "amd64", "arm64"} : job[r][n] = "success"
    BY <2>2, NeedsAre DEF Ready
  <2>4. /\ tag[r] \in Tags /\ sha[r] \in Commits /\ sha[r] <= main
        /\ \A a \in Archs : archive[r][a].commit = sha[r] /\ archive[r][a].arch = a
    <3>1. tag[r] \in Tags /\ sha[r] \in Commits
      BY <2>2 DEF Gated, Inv, JobInv
    <3>2. sha[r] <= main
      BY <2>3 DEF Gated, GateInv
    <3>3. \A a \in Archs : archive[r][a].commit = sha[r] /\ archive[r][a].arch = a
      BY <2>3 DEF Gated, Inv, JobInv, Archs
    <3> QED BY <3>1, <3>2, <3>3
  <2>5. PICK names \in SUBSET {tag[r], sha[r]} :
          \A c \in Commits : oci'[c] = IF c \in names THEN archive[r] ELSE oci[c]
    <3>1. CASE PublishFails(r)
      BY <3>1 DEF PublishFails
    <3>2. CASE Publish(r)
      <4>1. \A c \in Commits :
              oci'[c] = IF c \in {tag[r], sha[r]} THEN archive[r] ELSE oci[c]
        BY <3>2, <2>4 DEF Publish, Gated, Inv, TypeOK
      <4> QED BY <4>1
    <3> QED BY <2>1, <3>1, <3>2
  <2>6. \A c \in Commits : oci'[c] = oci[c] \/ (c = sha[r] /\ oci'[c] = archive[r])
    BY <2>4, <2>5
  <2> QED BY <1>1, <2>4, <2>6 DEF CommitTagFits, Commits
<1>4. UNCHANGED oci \/ \E r \in Runs : Publish(r) \/ PublishFails(r)
  <2>1. CASE \E r \in Runs : Job(r)
    BY <2>1, BuildLeaves DEF Job, JobFails, Validate, Scan, Sign, SignFails, Release, hosts
  <2> QED BY <2>1 DEF Next, vars, hosts, NextDay, Merge, DeleteTag, PushTag, RerunFailed,
                      RerunFrom, BeginRun, EndRun
<1> QED BY <1>2, <1>3, <1>4

(* The tag of a commit names images of that commit of main, whichever runs *)
(* write it, and however often.                                            *)
THEOREM CommitTagSafe == Spec => []CommitTagFits
<1>1. Init => CommitTagFits
  BY DEF Init, CommitTagFits
<1>2. Gated /\ CommitTagFits /\ [Next]_vars => CommitTagFits'
  BY CommitTagStep
<1> QED BY GatedInit, GatedStep, <1>1, <1>2, PTL DEF Spec

-----------------------------------------------------------------------------
(* A protected Git tag has one run, and the sequences of a day are         *)
(* validated one after the other.                                          *)

GitInv ==
  /\ \A r \in Runs : phase[r] # "none" /\ tag[r] \in TagsProtected =>
       ref[tag[r]] = sha[r]
  /\ \A q, r \in Runs :
       /\ phase[q] # "none" /\ phase[r] # "none"
       /\ tag[q] = tag[r] /\ tag[r] \in TagsProtected
       => q = r
  /\ SequenceUnique

LEMMA GitInit == Init => GitInv
  BY DEF Init, GitInv, SequenceUnique, Validated

(* Steps that push no tag and validate none.                               *)
LEMMA GitKept ==
  ASSUME GitInv, UNCHANGED <<tag, sha>>,
         \A t \in TagsProtected : ref'[t] = ref[t],
         \A q \in Runs : /\ phase'[q] # "none" => phase[q] # "none"
                         /\ job'[q]["validate"] = "success" => job[q]["validate"] = "success"
  PROVE  GitInv'
  BY DEF GitInv, SequenceUnique, Validated

LEMMA GitPush ==
  ASSUME Inv, GitInv, NEW r \in Runs, NEW t \in Tags, NEW c \in Commits, PushTag(r, t, c)
  PROVE  GitInv'
<1>1. /\ ref'[t] = c /\ \A u \in Tags : u # t => ref'[u] = ref[u]
      /\ tag'[r] = t /\ sha'[r] = c /\ phase[r] = "none"
      /\ \A q \in Runs : q # r => tag'[q] = tag[q] /\ sha'[q] = sha[q] /\ phase'[q] = phase[q]
      /\ job' = job
  BY DEF PushTag, Inv, TypeOK
<1>2. \A q \in Runs : phase[q] # "none" /\ tag[q] \in TagsProtected =>
        tag[q] \in Tags /\ tag[q] # t /\ ref[tag[q]] = sha[q]
  BY DEF PushTag, GitInv, Inv, JobInv
<1>3. job[r]["validate"] # "success"
  BY <1>1, JobsAre DEF Inv, JobInv
<1> QED BY <1>1, <1>2, <1>3 DEF GitInv, SequenceUnique, Validated

LEMMA GitValidate ==
  ASSUME Inv, GitInv, NEW r \in Runs, Validate(r)
  PROVE  GitInv'
<1>1. /\ phase' = phase /\ ref' = ref /\ tag' = tag /\ sha' = sha
      /\ phase[r] # "none"
      /\ \A q \in Runs : q # r => job'[q] = job[q]
  BY JobEnds, JobsAre DEF Validate, git, own
<1>2. ASSUME NEW q \in Runs, q # r, Validated(q),
             {tag[q], tag[r]} \subseteq TagsProtected,
             Date[tag[q]] = Date[tag[r]], Seq[tag[q]] = Seq[tag[r]]
      PROVE  FALSE
  <2>1. tag[q] \in Tags /\ tag[r] \in Tags /\ sha[q] \in Commits
    BY <1>1, <1>2 DEF Inv, JobInv, Validated
  <2>2. tag[q] # tag[r] /\ ref[tag[q]] # None
    BY <1>1, <1>2, <2>1 DEF GitInv, Validated
  <2>3. Seq[tag[q]] \in Others(tag[r])
    BY <1>2, <2>1, <2>2 DEF Others
  <2>4. Seq[tag[q]] < Seq[tag[r]]
    BY <2>3 DEF Validate, NextSequence
  <2> QED BY <1>2, <2>1, <2>4
<1>3. \A q \in Runs : Validated(q)' => q = r \/ Validated(q)
  BY <1>1 DEF Validated
<1>4. SequenceUnique'
  BY <1>1, <1>2, <1>3 DEF GitInv, SequenceUnique
<1> QED BY <1>1, <1>4 DEF GitInv

LEMMA GitStep ==
  ASSUME Inv, GitInv, [Next]_vars
  PROVE  GitInv'
<1> USE JobsAre
<1>1. CASE UNCHANGED vars
  BY <1>1, GitKept DEF vars, git, own
<1>2. CASE NextDay \/ Merge \/ \E t \in Tags : DeleteTag(t)
  <2>1. \A t \in TagsProtected : ref'[t] = ref[t]
    BY <1>2, KeptAre DEF NextDay, Merge, DeleteTag, Inv, TypeOK
  <2> QED BY <1>2, <2>1, GitKept DEF NextDay, Merge, DeleteTag, own
<1>3. CASE \E r \in Runs, t \in Tags, c \in Commits : PushTag(r, t, c)
  BY <1>3, GitPush
<1>4. CASE \E r \in Runs : \/ RerunFailed(r) \/ BeginRun(r) \/ EndRun(r)
                           \/ \E j \in Jobs : RerunFrom(r, j)
  <2>1. PICK r \in Runs : \/ RerunFailed(r) \/ BeginRun(r) \/ EndRun(r)
                          \/ \E j \in Jobs : RerunFrom(r, j)
    BY <1>4
  <2>2. \A q \in Runs : phase'[q] # "none" => phase[q] # "none"
    BY <2>1 DEF RerunFailed, BeginRun, EndRun, RerunFrom, Inv, TypeOK
  <2>3. \A q \in Runs : job'[q]["validate"] = "success" => job[q]["validate"] = "success"
    <3>1. job \in [Runs -> [Jobs -> {"waiting", "success", "failure"}]]
      BY DEF Inv, TypeOK
    <3>2. CASE RerunFailed(r)
      BY <3>1, <3>2 DEF RerunFailed
    <3>3. CASE \E j \in Jobs : RerunFrom(r, j)
      BY <3>1, <3>3 DEF RerunFrom
    <3>4. CASE BeginRun(r) \/ EndRun(r)
      BY <3>4 DEF BeginRun, EndRun
    <3> QED BY <2>1, <3>2, <3>3, <3>4
  <2>4. UNCHANGED <<git, own>>
    BY <2>1 DEF RerunFailed, BeginRun, EndRun, RerunFrom
  <2> QED BY <2>2, <2>3, <2>4, GitKept DEF git, own
<1>5. CASE \E r \in Runs : Job(r)
  <2>1. PICK r \in Runs : Job(r)
    BY <1>5
  <2>2. CASE Validate(r)
    BY <2>2, GitValidate
  <2>3. CASE ~Validate(r)
    <3>1. PICK j \in Jobs, s \in {"success", "failure"} :
            /\ Ready(r, j) /\ Result(r, j, s) /\ UNCHANGED <<git, tag, sha>>
            /\ j = "validate" => s = "failure"
      BY <2>1, <2>3 DEF Job, JobFails, Build, Keep, Publish, PublishFails, Scan, Sign,
                        SignFails, Release, Archs, own
    <3>2. /\ phase' = phase
          /\ \A q \in Runs : q # r => job'[q] = job[q]
          /\ \A k \in Jobs : k # j => job'[r][k] = job[r][k]
          /\ job'[r][j] = s
      BY <3>1, JobEnds
    <3> QED BY <3>1, <3>2, GitKept DEF git
  <2> QED BY <2>2, <2>3
<1> QED BY <1>1, <1>2, <1>3, <1>4, <1>5 DEF Next

(* Among the Git tags a ruleset protects no daily sequence is given twice, *)
(* for any number of tags and runs in flight and any jobs re-run.          *)
THEOREM SequenceSafe == Spec => []SequenceUnique
<1>1. Inv /\ GitInv /\ [Next]_vars => Inv' /\ GitInv'
  BY InvStep, GitStep
<1>2. GitInv => SequenceUnique
  BY DEF GitInv
<1> QED BY InvInit, GitInit, <1>1, <1>2, PTL DEF Spec

-----------------------------------------------------------------------------
(* A kept tag is named once.                                               *)

Built(r) == /\ phase[r] # "none"
            /\ \A a \in Archs : job[r][a] = "success"

PublicationInv ==
  /\ \A r \in Runs : job[r]["publish"] = "success" /\ tag[r] \in Kept =>
       oci[tag[r]] = archive[r]
  /\ \A t \in Kept : oci[t] # None =>
       \E r \in Runs : Built(r) /\ tag[r] = t /\ oci[t] = archive[r]

Whole == Gated /\ GitInv /\ PublicationInv /\ OneCandidate

LEMMA WholeInit == Init => Whole
  BY GatedInit, GitInit, JobsAre, KeptAre DEF Init, Whole, PublicationInv, OneCandidate

(* The only archives a run can publish are those its tag already names.    *)
LEMMA NamedOnce ==
  ASSUME Inv, GitInv, PublicationInv, NEW r \in Runs, Built(r), tag[r] \in Kept,
         oci[tag[r]] # None
  PROVE  oci[tag[r]] = archive[r]
  BY KeptAre DEF GitInv, PublicationInv, Built

(* Steps that write neither the registry nor an archive that was built for *)
(* a kept tag.                                                             *)
LEMMA PublicationKept ==
  ASSUME Inv, PublicationInv, UNCHANGED oci,
         \A q \in Runs : Built(q) => tag'[q] = tag[q],
         \A q \in Runs : Built(q) /\ tag[q] \in Kept => Built(q)' /\ archive'[q] = archive[q],
         \A q \in Runs : job'[q]["publish"] = "success" => job[q]["publish"] = "success"
  PROVE  PublicationInv'
<1>1. ASSUME NEW q \in Runs, job'[q]["publish"] = "success", tag'[q] \in Kept
      PROVE  oci'[tag'[q]] = archive'[q]
  <2>1. /\ job[q]["publish"] = "success" /\ "publish" \in Jobs
        /\ Needs["publish"] = {"validate", "amd64", "arm64"}
    BY <1>1, JobsAre, NeedsAre
  <2>2. Built(q)
    BY <2>1 DEF Inv, JobInv, Built, Archs
  <2> QED BY <1>1, <2>1, <2>2 DEF PublicationInv
<1>2. ASSUME NEW t \in Kept, oci'[t] # None
      PROVE  \E r \in Runs : Built(r)' /\ tag'[r] = t /\ oci'[t] = archive'[r]
  BY <1>2 DEF PublicationInv
<1> QED BY <1>1, <1>2 DEF PublicationInv

(* Steps that announce nothing and leave what was announced as it is.      *)
LEMMA CandidateKept ==
  ASSUME Inv, OneCandidate, UNCHANGED announced, main' \in Nat, main <= main',
         scanned \subseteq scanned', signed \subseteq signed',
         \A t \in Kept : announced[t] # None => oci'[t] = oci[t] /\ ref'[t] = ref[t]
  PROVE  OneCandidate'
<1> SUFFICES ASSUME NEW t \in Kept, announced[t] # None
             PROVE  /\ announced'[t] = oci'[t]
                    /\ announced'[t] \in scanned'
                    /\ <<announced'[t], t>> \in signed'
                    /\ Candidate(announced[t], t, ref[t])'
  BY DEF OneCandidate
<1>1. /\ announced[t] = oci[t] /\ announced[t] \in scanned
      /\ <<announced[t], t>> \in signed /\ Candidate(announced[t], t, ref[t])
  BY DEF OneCandidate
<1>2. main \in Nat /\ ref[t] \in Nat
  BY <1>1 DEF Inv, TypeOK, Candidate, Commits
<1>3. Candidate(announced[t], t, ref[t])'
  BY <1>1, <1>2 DEF Candidate
<1> QED BY <1>1, <1>3

(* The step of a job maps to Publish, to Announce or to no step.           *)
LEMMA PublishWhole ==
  ASSUME Whole, NEW r \in Runs, Publish(r) \/ PublishFails(r)
  PROVE  /\ PublicationInv' /\ OneCandidate'
         /\ [Publication!Next]_(Publication!vars)
<1>1. PICK s \in {"success", "failure"}, names \in SUBSET {tag[r], sha[r]} :
        /\ Ready(r, "publish") /\ Result(r, "publish", s)
        /\ oci' = [n \in Tags \cup Commits |-> IF n \in names THEN archive[r] ELSE oci[n]]
        /\ s = "success" => tag[r] \in names
        /\ UNCHANGED <<git, scanned, signed, announced, tag, sha, archive>>
  <2>1. CASE PublishFails(r)
    BY <2>1 DEF PublishFails, own
  <2>2. CASE Publish(r)
    <3>1. oci' = [n \in Tags \cup Commits |->
                    IF n \in {tag[r], sha[r]} THEN archive[r] ELSE oci[n]]
      BY <2>2 DEF Publish, Whole, Gated, Inv, TypeOK
    <3> QED BY <2>2, <3>1 DEF Publish
  <2> QED BY <2>1, <2>2
<1>2. /\ phase' = phase /\ phase[r] # "none"
      /\ \A q \in Runs : q # r => job'[q] = job[q]
      /\ \A k \in Jobs : k # "publish" => job'[r][k] = job[r][k]
      /\ job'[r]["publish"] = s
      /\ \A n \in Needs["publish"] : job[r][n] = "success"
  BY <1>1, JobEnds, JobsAre DEF Whole, Gated
<1>3. Built(r) /\ archive[r] \in Indexes /\ tag[r] \in Tags /\ sha[r] \in Commits
  BY <1>2, ArchivesComplete, NeedsAre DEF Built, Archs, Whole, Gated, Inv, JobInv
<1>4. tag[r] \in names => oci'[tag[r]] = archive[r]
  BY <1>1, <1>3
<1>5. \A t \in Kept : oci'[t] # oci[t] => t = tag[r] /\ oci[t] = None /\ oci'[t] = archive[r]
  BY <1>1, <1>3, NamedOnce, KeptAre DEF Whole, Gated
<1>6. archive[r] # None
  BY <1>3
<1>7. \A q \in Runs : Built(q) => Built(q)'
  BY <1>2, JobsAre DEF Built, Archs
<1>8. PublicationInv'
  <2>1. ASSUME NEW q \in Runs, job'[q]["publish"] = "success", tag'[q] \in Kept
        PROVE  oci'[tag'[q]] = archive'[q]
    <3>1. CASE q = r
      BY <1>1, <1>2, <1>4, <2>1, <3>1
    <3>2. CASE q # r
      <4>1. /\ job[q]["publish"] = "success" /\ "publish" \in Jobs
            /\ Needs["publish"] = {"validate", "amd64", "arm64"}
        BY <1>2, <2>1, <3>2, JobsAre, NeedsAre
      <4>2. tag[q] \in Kept /\ archive[q] \in Indexes
        BY <1>1, <2>1, <4>1, OutputComplete DEF Whole, Gated, Inv, JobInv
      <4>3. oci[tag[q]] = archive[q] /\ archive[q] # None
        BY <4>1, <4>2 DEF Whole, PublicationInv
      <4> QED BY <1>1, <1>5, <4>2, <4>3
    <3> QED BY <3>1, <3>2
  <2>2. ASSUME NEW t \in Kept, oci'[t] # None
        PROVE  \E q \in Runs : Built(q)' /\ tag'[q] = t /\ oci'[t] = archive'[q]
    <3>1. CASE oci'[t] = oci[t]
      BY <1>1, <1>7, <2>2, <3>1 DEF Whole, PublicationInv
    <3>2. CASE oci'[t] # oci[t]
      BY <1>1, <1>3, <1>5, <1>7, <3>2
    <3> QED BY <3>1, <3>2
  <2> QED BY <2>1, <2>2 DEF PublicationInv
<1>9. OneCandidate'
  <2>1. \A t \in Kept : announced[t] # None => oci[t] # None
    BY DEF Whole, OneCandidate
  <2>2. main' = main /\ main \in Nat /\ ref' = ref
    BY <1>1 DEF Whole, Gated, Inv, TypeOK, git
  <2>3. \A t \in Kept : announced[t] # None => oci'[t] = oci[t] /\ ref'[t] = ref[t]
    BY <1>5, <2>1, <2>2
  <2>4. /\ Inv /\ OneCandidate /\ announced' = announced
        /\ main' \in Nat /\ main <= main'
        /\ scanned \subseteq scanned' /\ signed \subseteq signed'
    BY <1>1, <2>2 DEF Whole, Gated
  <2> QED BY <2>3, <2>4, CandidateKept
<1>10. [Publication!Next]_(Publication!vars)
  <2> DEFINE pub == [t \in Kept |-> oci[t]]
  <2>1. CASE \A t \in Kept : oci'[t] = oci[t]
    <3>1. pub' = pub
      BY <2>1
    <3>2. UNCHANGED Publication!vars
      BY <1>1, <3>1 DEF Publication!vars
    <3> QED BY <3>2
  <2>2. CASE \E t \in Kept : oci'[t] # oci[t]
    <3>1. oci[tag[r]] = None /\ oci'[tag[r]] = archive[r]
      BY <1>5, <2>2
    <3>2. PICK t \in Kept : t = tag[r]
      BY <1>5, <2>2
    <3>3. Publication!Publish(t)
      <4>1. pub[t] = None /\ pub'[t] \in Indexes
        BY <1>3, <3>1, <3>2
      <4>2. pub' = [pub EXCEPT ![t] = pub'[t]]
        BY <1>5, <3>2
      <4> QED BY <1>1, <4>1, <4>2 DEF Publication!Publish
    <3>4. Publication!Next
      BY <3>3 DEF Publication!Next
    <3> QED BY <3>4
  <2> QED BY <2>1, <2>2
<1> QED BY <1>8, <1>9, <1>10

LEMMA ReleaseWhole ==
  ASSUME Whole, NEW r \in Runs, Release(r)
  PROVE  /\ PublicationInv' /\ OneCandidate'
         /\ [Publication!Next]_(Publication!vars)
<1>1. /\ phase' = phase /\ phase[r] # "none"
      /\ \A q \in Runs : q # r => job'[q] = job[q]
      /\ \A k \in Jobs : k # "release" => job'[r][k] = job[r][k]
      /\ job[r]["publish"] = "success" /\ job[r]["sign"] = "success"
  BY JobEnds, JobsAre, NeedsAre DEF Release, Whole, Gated
<1>2. /\ tag[r] \in Tags /\ sha[r] \in Commits /\ Candidate(output[r], tag[r], sha[r])
      /\ output[r] = archive[r] /\ output[r] \in Indexes /\ bundle[r] = output[r]
  BY <1>1, OutputIsCandidate, OutputComplete DEF Whole, Gated, Inv, JobInv
<1>3. /\ tag[r] \in Kept => oci[tag[r]] = output[r]
      /\ <<output[r], tag[r]>> \in signed
  BY <1>1, <1>2 DEF Whole, PublicationInv, Gated, GateInv
<1>4. job[r]["scan"] = "success" /\ output[r] \in scanned
  <2>1. "sign" \in Jobs /\ "scan" \in Needs["sign"]
    BY JobsAre, NeedsAre
  <2>2. job[r]["scan"] = "success"
    BY <1>1, <2>1 DEF Whole, Gated, Inv, JobInv
  <2> QED BY <2>2 DEF Whole, Gated, GateInv
<1>5. tag[r] \in Kept => ref[tag[r]] = sha[r]
  BY <1>1, KeptAre DEF Whole, GitInv
<1>6. /\ announced' = [announced EXCEPT ![tag[r]] = output[r]]
      /\ announced[tag[r]] = None
      /\ UNCHANGED <<git, oci, scanned, signed, own>>
  BY <1>2 DEF Release
<1>7. PublicationInv'
  BY <1>1, <1>6, PublicationKept, JobsAre DEF Whole, Gated, Built, Archs, own
<1>8. OneCandidate'
  <2>1. ASSUME NEW t \in Kept, announced'[t] # None
        PROVE  /\ announced'[t] = oci'[t] /\ announced'[t] \in scanned'
               /\ <<announced'[t], t>> \in signed'
               /\ Candidate(announced[t], t, ref[t])'
    <3>1. CASE t = tag[r]
      <4>1. announced'[t] = output[r]
        BY <1>2, <1>6, <3>1 DEF Whole, Gated, Inv, TypeOK
      <4> QED BY <1>2, <1>3, <1>4, <1>5, <1>6, <3>1, <4>1 DEF Candidate, git
    <3>2. CASE t # tag[r]
      <4>1. announced'[t] = announced[t]
        BY <1>6, <3>2, KeptAre DEF Whole, Gated, Inv, TypeOK
      <4> QED BY <1>6, <2>1, <4>1 DEF Whole, OneCandidate, Candidate, git
    <3> QED BY <3>1, <3>2
  <2> QED BY <2>1 DEF OneCandidate
<1>9. [Publication!Next]_(Publication!vars)
  <2> DEFINE pub == [t \in Kept |-> oci[t]]
             ann == [t \in Kept |-> announced[t]]
  <2>1. pub' = pub
    BY <1>6
  <2>2. CASE tag[r] \in Kept
    <3>1. PICK t \in Kept : t = tag[r]
      BY <2>2
    <3>2. /\ pub[t] = output[r] /\ ann[t] = None
          /\ ann' = [ann EXCEPT ![t] = pub[t]]
      BY <1>2, <1>3, <1>6, <2>2, <3>1, KeptAre DEF Whole, Gated, Inv, TypeOK
    <3>3. Publication!Announce(t)
      BY <1>2, <2>1, <3>2 DEF Publication!Announce
    <3> QED BY <3>3 DEF Publication!Next
  <2>3. CASE tag[r] \notin Kept
    <3>1. ann' = ann
      BY <1>2, <1>6, <2>3, KeptAre DEF Whole, Gated, Inv, TypeOK
    <3> QED BY <2>1, <3>1 DEF Publication!vars
  <2> QED BY <2>2, <2>3
<1> QED BY <1>7, <1>8, <1>9

(* The other steps publish nothing and announce nothing.                   *)
LEMMA OtherWhole ==
  ASSUME Whole, UNCHANGED <<oci, announced>>, main' \in Nat, main <= main',
         scanned \subseteq scanned', signed \subseteq signed',
         \A t \in Kept : ref[t] # None => ref'[t] = ref[t],
         \A q \in Runs : Built(q) => tag'[q] = tag[q],
         \A q \in Runs : Built(q) /\ tag[q] \in Kept => Built(q)' /\ archive'[q] = archive[q],
         \A q \in Runs : job'[q]["publish"] = "success" => job[q]["publish"] = "success"
  PROVE  /\ PublicationInv' /\ OneCandidate'
         /\ [Publication!Next]_(Publication!vars)
<1>1. PublicationInv'
  BY PublicationKept DEF Whole, Gated
<1>2. \A t \in Kept : announced[t] # None => ref[t] # None
  BY DEF Whole, OneCandidate, Candidate
<1>3. OneCandidate'
  BY <1>2, CandidateKept DEF Whole, Gated
<1>4. UNCHANGED Publication!vars
  BY DEF Publication!vars
<1> QED BY <1>1, <1>3, <1>4

LEMMA JobWhole ==
  ASSUME Whole, NEW r \in Runs, Job(r)
  PROVE  /\ PublicationInv' /\ OneCandidate'
         /\ [Publication!Next]_(Publication!vars)
<1>1. CASE Publish(r) \/ PublishFails(r)
  BY <1>1, PublishWhole
<1>2. CASE Release(r)
  BY <1>2, ReleaseWhole
<1>3. CASE ~(Publish(r) \/ PublishFails(r) \/ Release(r))
  <2>1. PICK j \in Jobs, s \in {"success", "failure"} :
          /\ Ready(r, j) /\ Result(r, j, s)
          /\ UNCHANGED <<git, oci, announced, tag, sha>>
          /\ scanned \subseteq scanned' /\ signed \subseteq signed'
          /\ j = "publish" => s = "failure"
          /\ j \notin Archs => archive' = archive
          /\ \A q \in Runs \ {r} : archive'[q] = archive[q]
    <3>1. CASE \E a \in Archs : Build(r, a)
      <4>1. PICK a \in Archs : Build(r, a)
        BY <3>1
      <4>2. \A q \in Runs \ {r} : archive'[q] = archive[q]
        BY <4>1 DEF Build, Keep, Whole, Gated, Inv, TypeOK
      <4> QED BY <4>1, <4>2, JobsAre DEF Build, Keep, Archs, hosts
    <3>2. CASE \E j \in Jobs : JobFails(r, j)
      BY <3>2 DEF JobFails, hosts, own
    <3>3. CASE Validate(r) \/ Scan(r) \/ Sign(r) \/ SignFails(r)
      BY <3>3, JobsAre DEF Validate, Scan, Sign, SignFails, hosts, own
    <3> QED BY <1>3, <3>1, <3>2, <3>3 DEF Job
  <2>2. /\ phase' = phase
        /\ \A q \in Runs : q # r => job'[q] = job[q]
        /\ \A k \in Jobs : k # j => job'[r][k] = job[r][k]
        /\ job'[r][j] = s /\ job[r][j] = "waiting"
    BY <2>1, JobEnds DEF Whole, Gated
  <2>3. \A q \in Runs : Built(q) =>
          Built(q)' /\ tag'[q] = tag[q] /\ archive'[q] = archive[q]
    <3> SUFFICES ASSUME NEW q \in Runs, Built(q)
                 PROVE  Built(q)' /\ tag'[q] = tag[q] /\ archive'[q] = archive[q]
      OBVIOUS
    <3>1. \A a \in Archs : job[q][a] = "success" /\ a \in Jobs
      BY JobsAre DEF Built
    <3>2. q = r => j \notin Archs
      BY <2>2, <3>1
    <3>3. \A a \in Archs : job'[q][a] = "success"
      BY <2>2, <3>1, <3>2
    <3>4. Built(q)'
      BY <2>2, <3>3 DEF Built
    <3>5. archive'[q] = archive[q]
      BY <2>1, <3>2
    <3>6. tag'[q] = tag[q]
      BY <2>1
    <3> QED BY <3>4, <3>5, <3>6
  <2>4. \A q \in Runs : job'[q]["publish"] = "success" => job[q]["publish"] = "success"
    BY <2>1, <2>2, JobsAre
  <2>5. main' = main /\ main \in Nat /\ ref' = ref
    BY <2>1 DEF git, Whole, Gated, Inv, TypeOK
  <2> QED BY <2>1, <2>3, <2>4, <2>5, OtherWhole
<1> QED BY <1>1, <1>2, <1>3

LEMMA WholeStep ==
  ASSUME Whole, [Next]_vars
  PROVE  Whole' /\ [Publication!Next]_(Publication!vars)
<1>1. Gated' /\ GitInv'
  BY GatedStep, GitStep DEF Whole, Gated
<1>2. main \in Nat
  BY DEF Whole, Gated, Inv, TypeOK
<1> SUFFICES /\ PublicationInv' /\ OneCandidate'
             /\ [Publication!Next]_(Publication!vars)
  BY <1>1 DEF Whole
<1>3. CASE UNCHANGED vars
  BY <1>2, <1>3, OtherWhole DEF vars, git, hosts, own, Built
<1>4. CASE NextDay \/ Merge \/ \E t \in Tags : DeleteTag(t)
  <2>1. \A t \in Kept : ref'[t] = ref[t]
    BY <1>4, KeptAre DEF NextDay, Merge, DeleteTag, Whole, Gated, Inv, TypeOK
  <2> QED BY <1>2, <1>4, <2>1, OtherWhole DEF NextDay, Merge, DeleteTag, hosts, own, Built
<1>5. CASE \E r \in Runs, t \in Tags, c \in Commits : PushTag(r, t, c)
  <2>1. PICK r \in Runs, t \in Tags, c \in Commits : PushTag(r, t, c)
    BY <1>5
  <2>2. /\ \A q \in Runs : q # r => tag'[q] = tag[q] /\ phase'[q] = phase[q]
        /\ phase[r] = "none"
        /\ \A u \in Kept : ref[u] # None => ref'[u] = ref[u]
    BY <2>1, KeptAre DEF PushTag, Whole, Gated, Inv, TypeOK
  <2>3. \A q \in Runs : Built(q) =>
          Built(q)' /\ tag'[q] = tag[q] /\ archive'[q] = archive[q]
    BY <2>1, <2>2 DEF Built, PushTag
  <2> QED BY <1>2, <2>1, <2>2, <2>3, OtherWhole DEF PushTag, hosts
<1>6. CASE \E r \in Runs : RerunFailed(r) \/ BeginRun(r) \/ EndRun(r)
  <2>1. PICK r \in Runs : RerunFailed(r) \/ BeginRun(r) \/ EndRun(r)
    BY <1>6
  <2>2. UNCHANGED <<git, hosts, own>>
    BY <2>1 DEF RerunFailed, BeginRun, EndRun
  <2>3. \A q \in Runs : \A j \in Jobs : job'[q][j] = "success" <=> job[q][j] = "success"
    <3>1. job \in [Runs -> [Jobs -> {"waiting", "success", "failure"}]]
      BY DEF Whole, Gated, Inv, TypeOK
    <3>2. CASE RerunFailed(r)
      BY <3>1, <3>2 DEF RerunFailed
    <3>3. CASE BeginRun(r) \/ EndRun(r)
      BY <3>3 DEF BeginRun, EndRun
    <3> QED BY <2>1, <3>2, <3>3
  <2>4. \A q \in Runs : phase[q] # "none" => phase'[q] # "none"
    BY <2>1 DEF RerunFailed, BeginRun, EndRun, Whole, Gated, Inv, TypeOK
  <2>5. \A q \in Runs : Built(q) =>
          Built(q)' /\ tag'[q] = tag[q] /\ archive'[q] = archive[q]
    BY <2>2, <2>3, <2>4, JobsAre DEF own, Built
  <2> QED BY <1>2, <2>2, <2>3, <2>5, OtherWhole, JobsAre DEF git, hosts
<1>7. CASE \E r \in Runs : Job(r)
  BY <1>7, JobWhole
<1>8. CASE \E r \in Runs, j \in Jobs : RerunFrom(r, j)
  <2>1. PICK r \in Runs, j \in Jobs : RerunFrom(r, j)
    BY <1>8
  <2>2. /\ tag[r] \notin Kept /\ phase[r] = "done"
        /\ \A q \in Runs : q # r => job'[q] = job[q] /\ phase'[q] = phase[q]
        /\ \A q \in Runs : \A k \in Jobs :
             job'[q][k] = "success" => job[q][k] = "success"
        /\ UNCHANGED <<git, hosts, own>>
    BY <2>1, KeptAre DEF RerunFrom, Whole, Gated, Inv, TypeOK
  <2>3. \A q \in Runs : Built(q) /\ tag[q] \in Kept => Built(q)'
    BY <2>2 DEF Built
  <2> QED BY <1>2, <2>2, <2>3, OtherWhole, JobsAre DEF git, hosts, own
<1> QED BY <1>3, <1>4, <1>5, <1>6, <1>7, <1>8 DEF Next

LEMMA WholeAlways == Spec => []Whole
<1>1. Whole /\ [Next]_vars => Whole'
  BY WholeStep
<1> QED BY WholeInit, <1>1, PTL DEF Spec

(* For a kept tag the Git tag, the commit, the index in the registry, the  *)
(* scan, the signature and the GitHub Release identify one candidate,      *)
(* whatever is done with other tags in the meantime.                       *)
THEOREM OneCandidateSafe == Spec => []OneCandidate
<1>1. Whole => OneCandidate
  BY DEF Whole
<1> QED BY WholeAlways, <1>1, PTL

(* And the workflow implements ImmutablePublication for the kept tags: a   *)
(* release tag names one index for ever, through partial publication and   *)
(* re-runs of failed jobs.  The run rerun_moves_tag shows what happens to  *)
(* a tag of whose runs any job is re-run.                                  *)
THEOREM PublicationRefined == Spec => ImplementsPublication
<1>1. Init => Publication!Init
  BY KeptAre DEF Init, Publication!Init
<1>2. Whole /\ [Next]_vars => [Publication!Next]_(Publication!vars)
  BY WholeStep
<1> QED BY <1>1, <1>2, WholeAlways, PTL DEF Spec, ImplementsPublication, Publication!Spec

=============================================================================
