-------------------------- MODULE ReleasePipeline --------------------------
(***************************************************************************)
(* .github/workflows/release.yml with scripts/release.py: the runs of the  *)
(* release workflow, one for every push of a release tag, with what they   *)
(* share: the Git tags, the tags of the registry, the signatures and the   *)
(* GitHub Releases.  People push (and may delete) tags, merge commits and  *)
(* re-run jobs; any job may fail half way.                                 *)
(*                                                                         *)
(* One action is one job; inside a job only the writes to the registry     *)
(* that others can see are taken apart.  A build is identified by its      *)
(* commit, its architecture and a variant, because two builds of one       *)
(* commit need not give the same digest.                                   *)
(***************************************************************************)
EXTENDS Naturals, FiniteSets

CONSTANTS Runs,       \* the workflow runs
          Tags,       \* release tags
          Date, Seq,  \* the date and the daily sequence in a tag
          LastCommit, \* the commits 1 .. LastCommit reach main in this order
          LastDay,    \* the days 1 .. LastDay
          Agrees,     \* <<c, t>>: locks, Containerfile and changelog of c fit t
          Variants,   \* what distinguishes two builds of one commit
          Outcomes,   \* Outcomes[c, a]: the variants a build of c for a can give
          None,
          TagsProtected, \* the Git tags a ruleset forbids to delete or move
          FailedOnly  \* the tags of whose runs only failed jobs are re-run

Commits == 1 .. LastCommit
Archs == {"amd64", "arm64"}
Digests == [commit: Commits, arch: Archs, build: {"local", "export"}, variant: Variants]
Indexes == [Archs -> Digests]   \* an index is the pair of its manifests

ASSUME ReleaseAssumption ==
  /\ LastCommit \in Nat /\ LastDay \in Nat
  /\ Date \in [Tags -> Nat] /\ Seq \in [Tags -> Nat \ {0}]
  /\ Agrees \subseteq Commits \X Tags
  /\ Outcomes \in [Commits \X Archs -> SUBSET Variants]
  /\ TagsProtected \subseteq Tags /\ FailedOnly \subseteq Tags
  /\ None \notin Tags \cup Commits \cup Digests \cup Indexes
  /\ Tags \cap Commits = {}

(* The tags people treat as docs/RELEASE.md asks them to.                  *)
Kept == TagsProtected \cap FailedOnly

Jobs == Archs \cup {"validate", "publish", "scan", "sign", "release"}

(* Mutant: sign does not wait for the scan.                                *)
NeedsNoScan == [j \in Jobs |->
  CASE j = "validate" -> {}
    [] j \in Archs    -> {"validate"}
    [] j = "publish"  -> {"validate"} \cup Archs
    [] j \in {"scan", "sign"} -> {"validate", "publish"}
    [] j = "release"  -> {"validate", "publish", "sign"}]

(* Mutant: publish takes whatever archives there are.                      *)
NeedsNoBuild == [j \in Jobs |->
  CASE j = "validate" -> {}
    [] j \in Archs \cup {"publish"} -> {"validate"}
    [] j = "scan"     -> {"validate", "publish"}
    [] j = "sign"     -> {"validate", "publish", "scan"}
    [] j = "release"  -> {"validate", "publish", "sign"}]

(* The needs of every job; the two builds are the legs of one matrix.      *)
Needs == [j \in Jobs |->
  CASE j = "validate" -> {}
    [] j \in Archs    -> {"validate"}
    [] j = "publish"  -> {"validate"} \cup Archs
    [] j = "scan"     -> {"validate", "publish"}
    [] j = "sign"     -> {"validate", "publish", "scan"}
    [] j = "release"  -> {"validate", "publish", "sign"}]

(* A job and the jobs that need it, directly or not: all that follow the   *)
(* builds need publish themselves, so two steps reach them.                *)
Dependents(j) ==
  {k \in Jobs : j \in {k} \cup Needs[k] \cup UNION {Needs[n] : n \in Needs[k]}}

VARIABLES day, main,  \* today, and the last commit on main
          ref,        \* the commit of a Git tag, or None
          oci,        \* the index of a release tag or of a sha-<12> tag
          scanned,    \* the indexes that passed the registry scan
          signed,     \* <<index, tag>>: signed under the identity of the tag
          announced,  \* the index in the evidence of a GitHub Release
          phase,      \* of a run: none, pending, active or done
          tag, sha,   \* what a run was started for
          job,        \* the state of the jobs of a run
          archive,    \* the image artifact of a run for an architecture
          subject,    \* the digest its provenance artifact is about
          output,     \* the digest output of its publish job
          bundle      \* the index its signature artifact is about

git == <<day, main, ref>>
hosts == <<oci, scanned, signed, announced>>
own == <<tag, sha, archive, subject, output, bundle>>
vars == <<git, hosts, phase, job, own>>

TypeOK ==
  /\ day \in Nat /\ main \in 0 .. LastCommit
  /\ ref \in [Tags -> Commits \cup {None}]
  /\ oci \in [Tags \cup Commits -> Indexes \cup {None}]
  /\ scanned \subseteq Indexes
  /\ signed \subseteq Indexes \X Tags
  /\ announced \in [Tags -> Indexes \cup {None}]
  /\ phase \in [Runs -> {"none", "pending", "active", "done"}]
  /\ tag \in [Runs -> Tags \cup {None}]
  /\ sha \in [Runs -> Commits \cup {None}]
  /\ \A r \in Runs : phase[r] # "none" => tag[r] # None /\ sha[r] # None
  /\ job \in [Runs -> [Jobs -> {"waiting", "success", "failure"}]]
  /\ archive \in [Runs -> [Archs -> Digests \cup {None}]]
  /\ subject \in [Runs -> [Archs -> Digests \cup {None}]]
  /\ output \in [Runs -> Indexes \cup {None}]
  /\ bundle \in [Runs -> Indexes \cup {None}]

Init ==
  /\ day = 1 /\ main = 0
  /\ ref = [t \in Tags |-> None]
  /\ oci = [n \in Tags \cup Commits |-> None]
  /\ scanned = {} /\ signed = {}
  /\ announced = [t \in Tags |-> None]
  /\ phase = [r \in Runs |-> "none"]
  /\ tag = [r \in Runs |-> None]
  /\ sha = [r \in Runs |-> None]
  /\ job = [r \in Runs |-> [j \in Jobs |-> "waiting"]]
  /\ archive = [r \in Runs |-> [a \in Archs |-> None]]
  /\ subject = [r \in Runs |-> [a \in Archs |-> None]]
  /\ output = [r \in Runs |-> None]
  /\ bundle = [r \in Runs |-> None]

-----------------------------------------------------------------------------
(* People.                                                                 *)

NextDay == /\ day < LastDay /\ day' = day + 1
           /\ UNCHANGED <<main, ref, hosts, phase, job, own>>

Merge == /\ main < LastCommit /\ main' = main + 1
         /\ UNCHANGED <<day, ref, hosts, phase, job, own>>

(* A pushed tag starts a run for the commit it names.                      *)
PushTag(r, t, c) ==
  /\ phase[r] = "none" /\ ref[t] = None
  /\ ref' = [ref EXCEPT ![t] = c]
  /\ phase' = [phase EXCEPT ![r] = "pending"]
  /\ tag' = [tag EXCEPT ![r] = t]
  /\ sha' = [sha EXCEPT ![r] = c]
  /\ UNCHANGED <<day, main, hosts, job, archive, subject, output, bundle>>

DeleteTag(t) == /\ t \notin TagsProtected /\ ref[t] # None
                /\ ref' = [ref EXCEPT ![t] = None]
                /\ UNCHANGED <<day, main, hosts, phase, job, own>>

(* Re-running the failed jobs also runs those that were skipped.           *)
RerunFailed(r) ==
  /\ phase[r] = "done"
  /\ \E j \in Jobs : job[r][j] = "failure"
  /\ job' = [job EXCEPT ![r] =
               [j \in Jobs |-> IF job[r][j] = "success" THEN "success" ELSE "waiting"]]
  /\ phase' = [phase EXCEPT ![r] = "pending"]
  /\ UNCHANGED <<git, hosts, own>>

(* Re-running one job runs those that need it too; for validate that is    *)
(* the whole run.                                                          *)
RerunFrom(r, j) ==
  /\ tag[r] \notin FailedOnly
  /\ phase[r] = "done" /\ job[r][j] # "waiting"
  /\ job' = [job EXCEPT ![r] =
               [k \in Jobs |-> IF k \in Dependents(j) THEN "waiting" ELSE job[r][k]]]
  /\ phase' = [phase EXCEPT ![r] = "pending"]
  /\ UNCHANGED <<git, hosts, own>>

-----------------------------------------------------------------------------
(* The workflow.                                                           *)

(* concurrency: one run of a tag at a time, and none is cancelled.         *)
BeginRun(r) ==
  /\ phase[r] = "pending"
  /\ \A q \in Runs : phase[q] = "active" => tag[q] # tag[r]
  /\ phase' = [phase EXCEPT ![r] = "active"]
  /\ UNCHANGED <<git, hosts, job, own>>

Ready(r, j) == /\ phase[r] = "active"
               /\ job[r][j] = "waiting"
               /\ \A n \in Needs[j] : job[r][n] = "success"

EndRun(r) == /\ phase[r] = "active"
             /\ \A j \in Jobs : ~Ready(r, j)
             /\ phase' = [phase EXCEPT ![r] = "done"]
             /\ UNCHANGED <<git, hosts, job, own>>

Result(r, j, s) == job' = [job EXCEPT ![r][j] = s] /\ UNCHANGED phase

(* A job fails, or is cancelled or times out, before it changes anything.  *)
JobFails(r, j) == /\ Ready(r, j)
                  /\ Result(r, j, "failure")
                  /\ UNCHANGED <<git, hosts, own>>

(* The sequences of the other tags of the same day.                        *)
Others(t) == {Seq[u] : u \in {v \in Tags \ {t} : ref[v] # None /\ Date[v] = Date[t]}}

(* Mutant: the other tags of the day are compared, but not for equality.   *)
NextSequenceLoose(t) == /\ \A s \in Others(t) : s <= Seq[t]
                        /\ Seq[t] = 1 \/ Seq[t] - 1 \in Others(t)

NextSequence(t) == /\ \A s \in Others(t) : s < Seq[t]
                   /\ Seq[t] = 1 \/ Seq[t] - 1 \in Others(t)

(* Mutant: a tag outside main is released.                                 *)
ValidateAnyBranch(r) ==
  /\ Ready(r, "validate")
  /\ ref[tag[r]] = sha[r]
  /\ Date[tag[r]] = day /\ NextSequence(tag[r])
  /\ <<sha[r], tag[r]>> \in Agrees
  /\ announced[tag[r]] = None
  /\ Result(r, "validate", "success")
  /\ UNCHANGED <<git, hosts, own>>

(* release.py: the tag still names the commit, the commit is on main, the  *)
(* date is today's, the sequence is the next one.  Then no GitHub Release. *)
Validate(r) ==
  /\ Ready(r, "validate")
  /\ ref[tag[r]] = sha[r] /\ sha[r] <= main
  /\ Date[tag[r]] = day /\ NextSequence(tag[r])
  /\ <<sha[r], tag[r]>> \in Agrees
  /\ announced[tag[r]] = None
  /\ Result(r, "validate", "success")
  /\ UNCHANGED <<git, hosts, own>>

(* An execution of the build job makes one image for the tests, with       *)
(* provenance, and then exports another as the archive that is scanned.    *)
Made(c, a, build, v) == [commit |-> c, arch |-> a, build |-> build, variant |-> v]

(* The artifacts are uploaded one after the other, the evidence also when  *)
(* a step before has failed; a second execution replaces what it uploads.  *)
Uploads == {"archive", "evidence"}
Keep(r, a, kept, c, v) ==
  /\ archive' = [archive EXCEPT ![r][a] = IF "archive" \in kept THEN Made(c, a, "export", v) ELSE @]
  /\ subject' = [subject EXCEPT ![r][a] = IF "evidence" \in kept THEN Made(c, a, "local", v) ELSE @]
  /\ UNCHANGED <<git, hosts, tag, sha, output, bundle>>

(* Mutant: a missing archive is no error (if-no-files-found).              *)
BuildKeepsNothing(r, a) ==
  /\ Ready(r, a)
  /\ \E v \in Outcomes[<<sha[r], a>>], kept \in SUBSET Uploads, s \in {"success", "failure"} :
       /\ s = "success" => "evidence" \in kept
       /\ Keep(r, a, kept, sha[r], v) /\ Result(r, a, s)

(* Mutant: the tag is checked out again, and may have been moved.          *)
BuildTagHead(r, a) ==
  /\ Ready(r, a) /\ ref[tag[r]] # None
  /\ \E v \in Outcomes[<<sha[r], a>>], kept \in SUBSET Uploads, s \in {"success", "failure"} :
       /\ s = "success" => kept = Uploads
       /\ Keep(r, a, kept, ref[tag[r]], v) /\ Result(r, a, s)

(* Mutant: an evidence artifact that exists is neither replaced by a       *)
(* re-run nor an error.                                                    *)
BuildFirstEvidence(r, a) ==
  /\ Ready(r, a)
  /\ \E v \in Outcomes[<<sha[r], a>>], kept \in SUBSET Uploads, s \in {"success", "failure"} :
       /\ s = "success" => kept = Uploads
       /\ Keep(r, a, IF subject[r][a] = None THEN kept ELSE kept \ {"evidence"}, sha[r], v)
       /\ Result(r, a, s)

(* build: it succeeds when it has uploaded both artifacts, and fails after *)
(* it has uploaded any of them, also both, or none.                        *)
Build(r, a) ==
  /\ Ready(r, a)
  /\ \E v \in Outcomes[<<sha[r], a>>], kept \in SUBSET Uploads, s \in {"success", "failure"} :
       /\ s = "success" => kept = Uploads
       /\ Keep(r, a, kept, sha[r], v) /\ Result(r, a, s)

(* publish, after approval: the index of both archives gets the release    *)
(* tag and the commit tag.                                                 *)
Publish(r) ==
  /\ Ready(r, "publish")
  /\ oci' = [oci EXCEPT ![tag[r]] = archive[r], ![sha[r]] = archive[r]]
  /\ output' = [output EXCEPT ![r] = archive[r]]
  /\ Result(r, "publish", "success")
  /\ UNCHANGED <<git, scanned, signed, announced, tag, sha, archive, subject, bundle>>

(* ... or fails after it has written one of the tags, or both.             *)
PublishFails(r) ==
  /\ Ready(r, "publish")
  /\ \E names \in SUBSET {tag[r], sha[r]} :
       oci' = [n \in Tags \cup Commits |->
                 IF n \in names THEN archive[r] ELSE oci[n]]
  /\ Result(r, "publish", "failure")
  /\ UNCHANGED <<git, scanned, signed, announced, own>>

Scan(r) ==
  /\ Ready(r, "scan")
  /\ scanned' = scanned \cup {output[r]}
  /\ Result(r, "scan", "success")
  /\ UNCHANGED <<git, oci, signed, announced, own>>

Sign(r) ==
  /\ Ready(r, "sign")
  /\ signed' = signed \cup {<<output[r], tag[r]>>}
  /\ bundle' = [bundle EXCEPT ![r] = output[r]]
  /\ Result(r, "sign", "success")
  /\ UNCHANGED <<git, oci, scanned, announced, tag, sha, archive, subject, output>>

(* ... or fails after the signature, before the bundles are kept.          *)
SignFails(r) ==
  /\ Ready(r, "sign")
  /\ signed' = signed \cup {<<output[r], tag[r]>>}
  /\ Result(r, "sign", "failure")
  /\ UNCHANGED <<git, oci, scanned, announced, own>>

(* gh release create --verify-tag: the tag exists, a release of it does    *)
(* not.                                                                    *)
Release(r) ==
  /\ Ready(r, "release")
  /\ ref[tag[r]] # None /\ announced[tag[r]] = None
  /\ announced' = [announced EXCEPT ![tag[r]] = bundle[r]]
  /\ Result(r, "release", "success")
  /\ UNCHANGED <<git, oci, scanned, signed, own>>

Job(r) == \/ \E j \in Jobs : JobFails(r, j)
          \/ \E a \in Archs : Build(r, a)
          \/ Validate(r) \/ Publish(r) \/ PublishFails(r) \/ Scan(r)
          \/ Sign(r) \/ SignFails(r) \/ Release(r)

Next == \/ NextDay \/ Merge
        \/ \E t \in Tags : DeleteTag(t)
        \/ \E r \in Runs, t \in Tags, c \in Commits : PushTag(r, t, c)
        \/ \E r \in Runs : \/ RerunFailed(r) \/ BeginRun(r) \/ EndRun(r) \/ Job(r)
                           \/ \E j \in Jobs : RerunFrom(r, j)

Spec == Init /\ [][Next]_vars

-----------------------------------------------------------------------------
(* Properties.                                                             *)

(* No two releases of protected tags share a sequence of a day, and no     *)
(* sequence is used for another commit (docs/RELEASE.md: release.py        *)
(* rejects "a reused daily sequence, lightweight or moved tags"), however  *)
(* pushes and validations of several tags interleave.                      *)
Validated(r) == phase[r] # "none" /\ job[r]["validate"] = "success"
SequenceUnique ==
  \A q, r \in Runs :
    Validated(q) /\ Validated(r) /\ {tag[q], tag[r]} \subseteq TagsProtected
    /\ Date[tag[q]] = Date[tag[r]] /\ Seq[tag[q]] = Seq[tag[r]]
      => tag[q] = tag[r] /\ sha[q] = sha[r]

(* The index i was built for the tag t from one commit on main.            *)
Candidate(i, t, c) == /\ c \in Commits /\ c <= main /\ <<c, t>> \in Agrees
                      /\ \A a \in Archs : i[a].commit = c /\ i[a].arch = a

(* A signature is only given to an index that passed the scan and was      *)
(* built from one commit of main that agrees with the tag, also when jobs  *)
(* are re-run and tags deleted at any time.                                *)
SignedWasGated ==
  \A s \in signed : s[1] \in scanned /\ \E c \in Commits : Candidate(s[1], s[2], c)

(* Tag, commit, index, scan, signature and GitHub Release of a kept tag    *)
(* identify one candidate (docs/RELEASE.md, Trust boundary), whatever      *)
(* happens to the other tags.                                              *)
OneCandidate ==
  \A t \in Kept : announced[t] # None =>
    /\ announced[t] = oci[t]
    /\ announced[t] \in scanned
    /\ <<announced[t], t>> \in signed
    /\ Candidate(announced[t], t, ref[t])

(* The tag of a commit names images of that commit, and the commit is on   *)
(* main, while runs of several release tags write it in any order, partly  *)
(* and again, and Git tags are moved under them.  It may go from one index *)
(* of the commit to another: see PublishedTagsImmutable.                   *)
CommitTagFits ==
  \A c \in Commits : oci[c] # None =>
    c <= main /\ \A a \in Archs : oci[c][a].commit = c /\ oci[c][a].arch = a

(* The evidence a run attests for an architecture and the manifest it      *)
(* signs come from one execution of the build job, although the job fails  *)
(* after either upload, is run again, and replaces what it uploads.        *)
EvidenceFits ==
  \A r \in Runs : job[r]["sign"] = "success" =>
    \A a \in Archs :
      [subject[r][a] EXCEPT !.build = "export"] = [bundle[r][a] EXCEPT !.build = "export"]

(* A tag in the registry, of a release or of a commit, is never moved      *)
(* (docs/VERSION.md: "Release tags are immutable", and "an immutable       *)
(* `sha-<short-commit>` traceability tag").                                *)
PublishedTagsImmutable ==
  [][\A n \in Tags \cup Commits : oci[n] # None => oci'[n] = oci[n]]_vars

(* The provenance attested for an architecture digest is about that digest *)
(* (docs/RELEASE.md: "Architecture digests receive SPDX and                *)
(* build-provenance predicates").                                          *)
ProvenanceMatchesDigest ==
  \A r \in Runs : job[r]["sign"] = "success" =>
    \A a \in Archs : subject[r][a] = output[r][a]

=============================================================================
