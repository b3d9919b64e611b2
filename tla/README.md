# Verification of postgresql-ubi

TLA+ models of the program logic of this repository: the container entry point,
the pipelines that select, acquire, build and publish the image, and the tools
around them (control views, update monitor). TLC checks the models on small
instances; TLAPS proves the most important properties for every value of the
constants.

## 1. The system

### Components

| Component | Source | State it keeps | Operations | Interacts with |
| --- | --- | --- | --- | --- |
| Entry point | `container/entrypoint.sh` | the data volume: `PGDATA`, `pg_hba.conf`, the lock directory `${PGDATA}.postgresql-ubi.init.lock`; the password file in `/tmp` of one container | preflight and write probe, gate on `PG_VERSION`, `initialize_database`, `write_host_authentication`, `validate_runtime_files`, `exec postgres` | `initdb`, `pg_ctl`, `createdb`, `postgres`; other containers through the volume; the supervisor's signals |
| Bundle acquisition | `scripts/artifacts.py` | the output directory, a temporary directory, one `.partial` file at a time | `validate_lock`, `download` with retries, `acquire`, `acquire_inputs`, `verify_bundle` | download hosts; the lock file, which others edit; other acquisitions |
| Offline build | `scripts/build-offline.sh`, `Containerfile`, `scripts/verify-rpm-bundle.sh`, `scripts/verify-key-fingerprints.sh` | the bundle, the base image tags, the image | acquire if absent, check keys, hash the lock, pull and tag bases, build without network | bundle acquisition, lock resolution |
| Lock resolution | `scripts/resolve-lock.sh`, `scripts/render-lock.py`, `update-locks.yml` | `lock-inputs.json`, `artifacts/locks/*.json`, candidates kept as artifacts | acquire the seeds and keys, resolve packages in a container, render, validate, promote | package repositories; maintainers; every reader of the lock |
| Release | `scripts/release.py`, `.github/workflows/release.yml`, `scripts/validate-release-tag.sh` | Git tags, OCI tags and digests, workflow artifacts, signatures, GitHub Releases | validate, build matrix, approve and publish, scan, sign, release | Git remote, registry, re-runs of a workflow |
| Control views | `scripts/cybersecurity.py` | the generated views `sctm.csv` and `CONTROL-IMPLEMENTATION.md` | check the OSCAL document and the two registers, render, write or compare | editors of five files; other runs; CI |
| Update monitor | `scripts/check-postgresql-update.py`, `update-monitor.yml` | one GitHub issue | compare versions, list, edit and create the issue | version feed, GitHub, maintainers |
| CI | `.github/workflows/ci.yml`, `scap.yml`, `codeql.yml`, `scorecard.yml` | job results | matrix and result aggregation | everything above |

### Which behaviours are hard

* The entry point is PID 1. A signal without a handler is discarded, a signal
  with one waits for the foreground command, and SIGKILL follows after a grace
  period. Two containers can mount one volume (the storage test starts two on
  purpose), and then the lock directory, initdb's own refusal of a non-empty
  directory, the write probe and `pg_hba.conf` are shared state without any
  other synchronization.
* Every start decides what to do from what earlier starts left in the volume.
* Acquisition commits a directory with one rename, among concurrent
  acquisitions, retries, truncated downloads and kills.
* The release workflow is a graph of jobs that can be re-run one by one, against
  tags, digests and releases that earlier attempts have already published.
* A lock is made from repositories that move while they are read, by two jobs,
  and is promoted by hand, one architecture at a time.
* The view generator reads three files and writes two, one after the other, in a
  tree where people work; a run of the monitor writes long after it has read.

### What makes each component correct

* Entry point: one initializer at a time; a complete cluster is never taken away;
  the password and the lock do not outlive the initialization; a server reads the
  host rules of its own profile; a signal ends the container.
* Acquisition: a directory with the final name is a complete verified bundle,
  and is never overwritten.
* Offline build: the image is built from the bundle of the lock it is labelled with.
* Release: a tag names one digest for ever; nothing is announced that was not
  built, scanned and signed from the tagged commit.
* Lock resolution and validation: a candidate is what was reviewed, and its files
  find room in one directory; what the release check accepts is one PostgreSQL on
  one pair of bases.
* Control views: a green run means that documents and views agree, and a red one
  has a reason. (That a view shows every control once, as the documents say, does
  not hold: section 8.)
* Update monitor: one dashboard, which never goes back; no version unnoticed.

## 2. Plan

Done:

1. `Entrypoint`, the containers and the volume; `ClusterLifecycle`, the abstract
   life of a data directory, and `EntrypointRefinement`; `EntrypointProofs` and
   `RefinementProofs`.
2. `BundleAcquire`: acquire, download and verify with concurrent runs, kills and
   a lock file that changes; abstract specification `AtomicAdmission`, mapped by
   `BundleRefinement`; `BundleProofs`.
3. `OfflineBuild`, which extends `BundleAcquire`: the acquisition of a build is a
   run of it, statement by statement, and the rest of the script follows;
   `BuildProofs`.
4. `ReleasePipeline`: jobs, re-runs, tags, digests, approvals; abstract
   specification `ImmutablePublication`, mapped by `ReleaseRefinement`;
   `ReleaseProofs`.
5. `LockRules`, the validators as operators, and `LockMaintenance`, which makes,
   promotes and uses locks; `LockProofs`.
6. `ControlViews`, the view generator; `ViewsProofs`.
7. `UpdateMonitor`; `MonitorProofs`.

Components that share nothing are checked side by side in one run, each at rest
while the other moves: `MCContainersViews` and `MCContainerMonitor`.

Open:

8. The file checks of the entry point (modes, owners, links), and the final
   server arguments.
9. `ReleasePipeline` with `ReleaseAccepts` of `LockMaintenance` in the place of
    the relation `Agrees`.

## 3. The entry point

### Modules

`Entrypoint` models what one or more containers do when the script is run with
the `postgres` command. `pc` names the shell command a container runs next; one
action is one command, or the script lines named at it. `Require` is a test of
the script (`|| fatal`), `ExitScript` is `fatal` or `set -e` with the EXIT trap
exactly when the traps are installed (`TrapSteps`), `Terminate` the end of the
process.

| Variable | In the code |
| --- | --- |
| `cluster` | the files initdb makes: none, started, `PG_VERSION` written (`versioned`), complete, or of another major version |
| `probe` | the write probe, one name for all containers because `$$` is 1 in each |
| `hba` | `pg_hba.conf`: absent, initdb's, truncated, one of the two profiles, or two writes mixed |
| `lock` | the lock directory. Only its existence is visible to the script; the model also remembers whose it is, or that its maker is gone (`stale`) |
| `unremoved` | history: who has tried in vain to remove the lock it holds |
| `database` | `POSTGRES_DB` of the initializer: nothing, asked for and not there yet, made by `createdb` |
| `pwfile` | the password is in `/tmp` of the container |
| `sig` | a trapped signal is pending |
| `loaded` | the rules the running server has read |

External programs: `initdb` refuses a non-empty directory, writes `PG_VERSION`
before it bootstraps, removes its files when it fails and leaves them when it is
killed, alone or with its container. Cleanup ignores that its `rmdir` fails
(line 15), so a lock may stay behind a script that ended in the regular way. A server
starts on a `versioned` or `complete` cluster with readable host rules, or fails. Every command that touches the outside may fail.
`/tmp` is a tmpfs (`compose.yaml`, `docs/DEPLOYMENT.md`), empty at every start.

`ClusterLifecycle` is what the documentation promises of a data directory;
`EntrypointRefinement` gives the mapping. `MCEntrypoint` holds the instances.

### Runs

| Run | Instance | Shows |
| --- | --- | --- |
| `container_monitor`, part `container` | 1 container at a time, all 24 environments, kills, fairness | `ServerMatchesProfile`, `PasswordFileConfined`, `ForeignUntouched`, `SignalEndsContainer` |
| `containers_views`, part `containers` | 3 containers at once, one environment that goes through every step, kills | `TypeOK`, `OneInitializer`, `LockInv`, `StaleLockOrigin`, `DataPreserved`, `AbandonedOrigin`, `ImplementsLifecycle` |
| `all_or_stop` | 1 container, all environments, kills | violation, finding 1 |
| `lock_excludes` | 3 containers, no kills | violation, finding 2 |

Two action properties say of what an initialization leaves behind whose doing it
was. `StaleLockOrigin`: a lock is left by its own holder, which was killed, failed
in the gap between `mkdir` and the traps, or could not remove it. `AbandonedOrigin`:
an unfinished cluster loses its initializer only by a SIGKILL of the very container
whose initdb was at work, or of that initdb alone (`InitdbKilled`, the out-of-memory
killer). A signal waits for initdb as for any foreground command, and an initdb
that fails takes its files with it. So it is SIGKILL, not a slow or interrupted
start, that brings a volume into the state from which finding 1 takes it for an
existing cluster; and when initdb alone is killed, the script removes the lock and
ends over it in the regular way.

Nothing is bounded but the numbers of containers and environments: starts, kills
and operator actions repeat for ever. One container suffices for a restart,
because a start chooses its environment anew; three are needed for the lock,
where a late signal of the first removes the lock of the second and a third one
profits. A fourth has no new part to play: at most one container is past the
emptiness check.

Fairness: `WF` on the next command of each container. A shell runs its next
command, and initdb, `pg_ctl --wait` and `createdb` end. Starts, signals, kills
and the operator get none.

### Findings

1. `all_or_stop`: a kill after `PG_VERSION` makes the next start serve an
   unfinished cluster, and a failure between initdb and createdb is never made
   up for. `docs/RUNTIME-SECURITY.md` says that initialization is all-or-stop and
   that what it leaves unfinished stays blocked.
2. `lock_excludes`: cleanup runs twice when a signal comes between lines 157 and
   160, and removes a lock that belongs to another container by then. The
   properties that protect the data hold all the same.

The documentation asks for one writing server per volume. Finding 2 needs
containers started side by side, as the storage test does; finding 1 needs one.
An observation beside them: the branch for an existing cluster does not look at
the lock, so a container started in the middle of another one's initialization
gets as far as its server.

## 4. Bundle acquisition

### Modules

`BundleAcquire` models runs of `artifacts.py acquire`, each in a checkout whose
lock file and output directory it shares with the other runs there. `Inventory`
gives the files a content of the lock lists. An edit puts any content in the place
of any other, also one that the file had before: `git checkout`, an undo.

| Variable | In the code |
| --- | --- |
| `lock` | the content of the lock file now |
| `out` | the output directory: absent, or its files, its `LOCK-SHA256` and its manifests |
| `pc` | the statement of `acquire` or `verify_bundle` a run executes next |
| `held` | the content a run has parsed, first at line 416 and again in `verify_bundle` (line 364) |
| `temp` | the temporary directory of a run, or that something of it was left (`Remains`): by a kill, or by `rmtree`, which ignores its errors |
| `attempt` | the try of the current download |
| `seen`, `returned` | history: the contents the lock file has had since a run began, and the runs during which one of them came back |

`AtomicAdmission` is the promise: a directory goes from absent to the complete
bundle of one valid content, which the lock file had while the run that made the
bundle was at work, and only somebody outside removes it. `BundleRefinement` has
the mapping.

### Run, bounds and fairness

`bundle_acquire`: two runs in one checkout, three contents of the lock, of which
one is not valid and two list one and two files, so that a failure can come before
the first file, between the two and after both, and a content can come back. Two
runs suffice for every race on the output, since a third meets either an absent or
a present directory.

The four reads of the lock file never mix the files of two contents:
`verify_bundle` compares files, `LOCK-SHA256` and manifests with one another and
with the lock as it is then. The digest is that of the very content whose files are
there, with one exception that `AcquireInv` and `AtomicAdmission` state: the lock
is changed between validation and `LOCK-SHA256` (line 426), back before the files
are verified, and forth again before the digest is compared. Then the files of the
one content are admitted under the digest of the other. Nothing short of a content
that comes back during one run can do this (`returned`).

Fairness is `WF` on every statement except a download: the rest is local, but
nothing makes a host answer. The timeout of 30 s is one for each read from the
socket, and a key need not have a size, so that a host which sends a byte now and
then keeps a request open. `Remaining` counts the statements a run has left, three
for every missing file and those around the downloads. `StepsBounded` says that every
statement lowers it, also a download that fails and is tried again, so a run over
`n` files ends after `3n + 5` statements. `AcquireEnds` says that a run ends or
stays in one attempt of one download for ever. Edits, kills, removals and the
beginning of a run are not fair.

## 5. Offline build

`OfflineBuild` models builds of one host (`build-offline.sh` and the first steps
of the `Containerfile`), each in one of its checkouts. It extends `BundleAcquire`:
a build acquires with a run of its own name, one statement after the other.
Whatever a lock determines beside its files is represented by the content of the
lock, so the model asks of an image from which content its signer label and its
two bases come. The builder stage copies the bundle in parts (`CopyRecord`,
`CopyFiles`), in either order, out of the directory as it is then, and compares
digests after that (`Build`).

| Variable | In the code |
| --- | --- |
| those of `BundleAcquire` | the lock file and the bundle directory of a checkout, and the acquisition of a build |
| `tags` | `localhost/postgresql-ubi-builder:locked` and `-runtime:locked`, which belong to the host |
| `step`, `arg` | the next command of a build, and what it has read |
| `copied` | what the builder stage has of the bundle |
| `image` | the image and its labels |
| `edited`, `disturbed`, `overlapped` | history for the properties: the builds during which their lock was edited; during which a content came back in the acquisition, or the bundle was removed; during which another build ran |

`build_shared` runs two builds in one checkout with two valid contents, which are
symmetric, as the builds are: enough to tell an old value from a new one, to bring
one back, and to take a tag or a bundle from one another. `PackagesMatchLabel` holds
for every build that is not `disturbed`, whatever else overlaps with it and however
its lock is edited. A build whose bundle somebody removes may find there that of
another build, and copy its digest from the one and its files from the other.
`ImageMatchesLock` is about builds that no other overlapped and whose lock stayed as
it was; the contents that earlier builds, of this or other locks, have left in the
tags do not matter then. That the acquisitions inside the builds implement
`AtomicAdmission` is proved (`BuildsAdmit`, section 10).

Finding, `shared_tags`: two builds in two checkouts overlap, and the second one
moves a base tag between `podman tag` and `podman build` of the first. The image
has the lock digest of one lock and a base image of another. The tags are names
of the host, and nothing after them compares a digest.

## 6. Release

### Modules

`ReleasePipeline` models runs of `release.yml`, one per push of a release tag,
with what they share. One action is one job; `Publish`, `Sign` and `Build` can
also fail half way, with what others can see already written: a build job that
fails may have uploaded its evidence, its image archive, both or neither
(`Uploads`), and what it did not upload is that of an earlier attempt. A build is its
commit, architecture and a variant, because two builds of one commit need not
give the same digest.

| Variable | In the code |
| --- | --- |
| `day`, `main`, `ref` | today, the last commit on `main`, the Git tags |
| `oci` | the release tags and `sha-<12>` tags of the registry |
| `scanned`, `signed`, `announced` | scan results, signatures with the identity of a tag, GitHub Releases |
| `phase`, `tag`, `sha`, `job` | a run, what it was started for, and its jobs |
| `archive`, `subject` | the image artifact of an architecture, and the digest its provenance is about |
| `output`, `bundle` | the digest output of publish, and the index of the signature artifact |

`TagsProtected` are the Git tags that a ruleset forbids to delete and move, and
`FailedOnly` those of whose runs people re-run only failed jobs; a tag in both is
kept (`Kept`) as `docs/RELEASE.md` asks. Neither is in the repository, so runs of
kept and of other tags share one registry in the model. `Outcomes` gives the
variants that a build can have. Re-runs are modelled as GitHub documents them:
failed and skipped jobs, or one job and its dependents, for the same commit; an
artifact uploaded again replaces the one of its name.

### Runs

| Run | Instance | Shows |
| --- | --- | --- |
| `release_protected` | 2 runs, 4 tags, 2 commits, 2 days, 2 variants. Three tags are kept (two sequences of a day, and the first one of another version); the fourth, of the next day, is not | `TypeOK`, `OneCandidate`, `SequenceUnique`, `SignedWasGated`, `CommitTagFits`, `EvidenceFits`, `ImplementsPublication` |
| `published_tags` | 1 run, any job re-run | violation, findings 1 and 2 |
| `provenance` | 1 run | violation, finding 3 |

Two runs are needed for what two runs share (tags and the sequences of a day),
two commits for a moved tag, two variants to see a rebuild (one build has both,
the other three have one), two days for an approval that comes late. The fourth
tag is deleted, pushed for another commit and re-run from any job, beside a run
of a kept tag or another run of its own. Runs end for good when all is done, so
deadlock is not checked here.

`OneCandidate`, `SequenceUnique` and the refinement speak of kept or protected
tags; `SignedWasGated` and `CommitTagFits` of all: a job builds the commit its run
was started for, never what the tag names by then. So does `EvidenceFits`: the
attested evidence and the signed manifest of an architecture come from one
execution of the build job. The two builds inside that execution (finding 3) are
the only ones that are mixed.

### Findings

1. `published_tags`: publish writes the release tag without looking whether it
   exists. `docs/VERSION.md:61` says release tags are immutable; re-running one build
   job publishes another index under the same tag.
2. `published_tags` again: the same command moves the commit tag `sha-<12>`, which
   `docs/VERSION.md:111` calls immutable. Here tags that are kept are no help: two
   release tags of one commit are two builds, and the second run moves the
   commit tag of the first. What remains, on any tags, is `CommitTagFits`: the commit
   tag names images of its commit.
3. `provenance`: the attested metadata is that of the image built for the tests,
   and the published one is another build.

Observations beside them, with the model as evidence but no run of their own: a
tag that was deleted after its validation passes again for another commit, so
without protected tags a daily sequence can be used twice (`docs/VERSION.md:48`);
and image archives are kept for 7 days while an approval may be given later, which
stops the release at `publish` and needs a new run.

## 7. Locks

### Modules

`LockRules` holds the checks of `artifacts.py` on a selection (`lock-inputs.json`)
and on a lock, one operator for each `validate_` function, and `lock_files`, the
places of a lock's files in a bundle. A string is a value, and constants say what
its pattern would: which filenames are safe, which end in `.rpm`, which
fingerprints are well formed. A document of another form is `Garbage`.

`LockMaintenance` models how locks come about and are used: the jobs of
`update-locks.yml`, one for each architecture, on the inputs of one commit; the
repositories; the maintainer; and `validate_locks` of `release.py`.

| Variable | In the code |
| --- | --- |
| `upstream` | the state of the package repositories |
| `inputs`, `locks` | `lock-inputs.json` and `artifacts/locks/<architecture>.json` on `main` |
| `pc`, `held`, `rpms` | the next step of a job, the inputs in its checkout, its `resolution-output/rpms` |
| `retained` | the candidates that are kept for review |

One action is one step of the workflow: `AcquireInputs`, `Resolve` (the checks of
signatures, dnf and the copy of the seeds) and `Render` (the queries of
`resolve-lock.sh`, whose repositories may have moved since dnf read them,
`render-lock.py` and the validation). Of dnf the model uses that what it adds to
the seeds is no PostgreSQL package, because only the UBI repositories are enabled
in the container (`MaintenanceAssumption`). `MCLockMaintenance` is the instance.

### Run and bounds

`lock_maintenance`: five selections (two PostgreSQL versions, one whose seeds
share a filename, one with two keys of one key ID, one with two keys that are
downloaded to one name), two locks edited by hand (not a lock, one with a key
without filename), repositories with two states, two changes by maintainers and two
candidates kept.
Two changes are what it takes to promote both architectures, or to edit the
inputs and promote a candidate of the old ones; two states are what it takes for
a package to vanish between dnf and the query.

`CandidateReviewed` compares a candidate with the inputs its job was started
with. A seed that is overwritten by another one of its name is found by the
validation, which wants three PostgreSQL packages; two keys of one key ID stop the
rendering. `CandidateFits` is about every candidate that is kept: no file of the
bundle takes the place of another, and each package has its source and its key.
Seeds and keys are both saved under the last component of their URL, but a key of
the inputs that spells out a filename is compared by that one (`artifacts.py:175`);
since `render-lock.py` takes every name from the URL again, the validation of the
rendering finds the two keys that came down to one name. `ReleaseAgrees` is about the
three files of `main`, which are changed one at a time: release.py compares versions
and bases, `validate_lock` binds packages to the version of their own lock, and only
together they put one PostgreSQL release on one pair of bases for both architectures.

Observations beside them. A key in the input form is accepted in a lock edited by
hand as well, and has no filename there (`artifacts.py:171`), which
`artifact-lock.schema.json:68` requires: acquire then ends with a `KeyError` at line
356, inside its `try`, and nothing is admitted. A candidate never is such a lock.
And a lock from earlier inputs of the same version and bases passes the release
check with earlier keys or seeds (`release.py:91`).

## 8. Control views

`ControlViews` models runs of `cybersecurity.py` in one working tree. A document
is the sequence of its implemented requirements with their properties; the checks
are operators on it. A view is the set of the records it shows, for both views
show the same fields in the order of the control ID.

| Variable | In the code |
| --- | --- |
| `oscal`, `sources`, `exceptions` | the three documents in the tree |
| `views` | `sctm.csv` and `CONTROL-IMPLEMENTATION.md`: absent, truncated, mixed or cut off, edited, or what a document shows |
| `step`, `check`, `strict`, `read` | the next step of a run, its two options, the document it has read |
| `quiet` | history: nobody else has changed a file since the run began |

A run reads each file once. Writing a view is two steps, since a file is truncated
before it is filled; a kill in between, or two runs that write at the same time,
leave one of the texts or a mixture (`Torn`). What was written with `newline=""` is
read with newlines translated (`ReadText`), so that a text with a carriage return
never reads as it was written. The text of the Markdown view is made after the CSV
was written, and a description that is no string ends the run there (`RenderFails`).
The script takes no lock, so any two runs and any edit interleave, and
`GreenIsCurrent` and `RedHasReason` speak of undisturbed (`quiet`) runs. The reasons
of `RedHasReason` are complete, and two of them are surprising: a text with a
carriage return makes `--check` fail for views that were just written, and a
description that is no string makes a run fail after one of the two views.

In `containers_views`: two runs, one with all four combinations of options and one
that writes; four OSCAL documents (a good one, one with a carriage return, one with
a control twice, one whose description is no string, which the OSCAL schema refuses
and nothing else does), two source registers, two exception registers, one edit by
people. One edit is enough to make any step see another file than an earlier one,
and the second run stands for further changes to the views.

Finding, `classified`: the properties are unpacked over the record
(`cybersecurity.py:130`), so that one called `control_id`, a name the OSCAL schema
allows, replaces the control ID that was compared for duplicates. Such a document
(`renamed`) passes every check, and a view then has two entries, with two
classifications, for one control. `docs/SECURITY-ENGINEERING.md:61` says that every
control has exactly one.

## 9. Update monitor

`UpdateMonitor` models runs of `update-monitor.yml`. Versions of the maintained
major are numbers; what `versions.json` names never goes back.

| Variable | In the code |
| --- | --- |
| `feed`, `selected` | the latest version published, the one in `lock-inputs.json` on `main` |
| `at`, `current`, `latest`, `found` | where a run is, the version in its checkout, the one its report names, the issue it has found |
| `issue` | the open issues with the title of the dashboard, and what they report |
| `doubled` | history: a run created an issue although one was open, because the search did not show it |

The concurrency group lets one run be active and one wait; a third one takes the
place of the one that waits. Runs may be repeated for older commits. Any step may
fail. The listing is a pipe without `pipefail`, and the search index of GitHub
may be behind, so `ListBlind` creates a second issue; `OneDashboard` says that
nothing else does, and nothing in the workflow merges the two again.

Fairness: `WF` for the schedule, which goes on, and for a run that waits; `SF` for
each step of the job, since a run that fails is followed by another one and a step
that is tried again and again succeeds some time. `UpdateNoticed` needs both. That
GitHub disables the schedule of an inactive repository is outside the model.

In `container_monitor`: two runs, two issues, two versions; a third issue would only
repeat what the second one shows.

## 10. Proofs

`EntrypointProofs`, for any set of containers (that has no member called `free`,
`stale` or `nobody`), any non-empty set of environments and any `MaxAlive`:

* `TypeCorrect`: `TypeOK` is inductive.
* `LockSafe`: `LockInv` is inductive together with the types. `OneInitializer`
  alone is not, and "who is inside owns the lock" is not even true (finding 2).
  What is true is that a container that lost its lock finds a complete cluster
  and so never gets past initdb's check; the invariant carries that, and that
  nobody waits for initdb or clears its traps while another one works.
* `OneInitializerSafe` follows from `LockInv`.
* `DataSafe`: only initdb's failure can remove files, and `LockInv` says that the
  one container in it works on an unfinished cluster.
* `StaleLockSafe`, an action property: the lock has one owner, and every end of its
  owner with the traps installed removes it or has tried to.
* `PasswordSafe`: `PasswordFileConfined` is inductive.
* `AbandonedSafe`, an action property: from `LockInv`, since only the one
  container in initdb can leave an unfinished cluster, and only a kill takes it
  out of there without initdb's own clean-up.
* `ServerSafe` and `ForeignSafe`, for `MaxAlive = 1`, which
  `docs/DEPLOYMENT.md` asks for: `AloneInv` adds that one container is up, that
  who rewrites host rules has seen its own major version, and that the rules are
  those of its environment from the end of the write until the server reads them.
  `lock_excludes` and the write that mixes two profiles (`mixed`) need a second
  container.
* `ServesCompleteSafe`, for one container and without SIGKILL: only a complete
  cluster is served. Its invariant says that a cluster with `PG_VERSION` and
  nothing more has the container that makes it. `all_or_stop` shows what SIGKILL
  does to it.

`RefinementProofs`: `Refinement` shows that every step of the containers is a
step of `ClusterLifecycle` or a stutter under the mapping of
`EntrypointRefinement`; it rests on `LockInv`, which makes the owner unique.

`BundleProofs`, for any runs, checkouts, contents, inventories and files, and any
edits: `TypeCorrect`; `AcquireSafe`, where `AcquireInv` says what a run's temporary
directory holds at each step, and that while the lock differs from `LOCK-SHA256`
when they are to be compared, only a content that comes back makes them equal;
`AdmissionRefined`, that acquire implements `AtomicAdmission`, where `AcquireInv`
supplies that a digest which is compared last was seen during the run; and
`StepsBoundedSafe`, the variant of a run. The fairness argument that leads from
there to `AcquireEnds` is left to TLC.

`BuildProofs`, for any builds, checkouts and contents: `BuildTypeCorrect` (no
argument, tag or copy is used before it is set); `BuildsAdmit`, which maps every
step of a build to a step of `BundleAcquire` and cites `AdmissionRefined`, so that
acquisition is proved once; `PackagesSafe`, whose invariant follows the bundle of a
build that nobody disturbs from its admission through both copies; and `ImageSafe`,
whose invariant says that a running build which is not overlapped is the only one,
and that what it has read and tagged is its lock as long as there is one.

`ReleaseProofs`, for any runs, tags, dates and sequences, commits, variants and
relations `Agrees`: `TypeCorrect`, `SignedSafe`, `CommitTagSafe` and `EvidenceSafe`
for all tags; `SequenceSafe` for those in `TagsProtected`; `OneCandidateSafe` and
`PublicationRefined` for those in `Kept`, whatever happens to the others.
`published_tags` shows that re-runs must be restricted. `EvidenceSafe` rests on an
invariant about uploads: when the build job of an architecture has succeeded, both are
of its last execution. The invariants follow a
run through its jobs: a job that succeeded had the jobs it needs succeed before
it, and their outputs are still there.

`LockProofs`, for any repositories, contents, drafts and key IDs:
`TypeCorrect`; `CandidateSafe`, whose invariant says what
`resolution-output` holds at each step and which in the end counts: three saved
seeds, three required names, so none was overwritten; `CandidateFitsSafe`, from what
`ValidLock` checks and from the names that the rendering gives; `ReleaseAgreesSafe`, from the
checks of the release and of acquire alone.
`RenderAccepted` is about one rendering of any finite directory. `validate_lock`
accepts it exactly when the files are `Acceptable` (of the architecture, with their
sources, the PostgreSQL packages of the selected release, none twice, the three
required ones) and the URLs of the reviewed keys end in different safe names
(`Placeable`): the rows, bases and sources that render-lock.py adds are never the
reason of a refusal, and hide none. Its hypotheses are those under which `Render`
takes the step (valid inputs, one key for each key ID; a record is not `Garbage`).

`ViewsProofs`, for any processes, documents and edits: `ViewsTypeCorrect`;
`GreenSafe` and `RedSafe`, with an invariant that says of a quiet run which checks
its files have passed, and which views are current, at each step. `ReadAsWritten`
is where newlines come in: the view of a document without a carriage return is read
as it was written.

`MonitorProofs`, for any runs and issues: `MonitorTypeCorrect`;
`OneDashboardSafe`, where at most one run is between its listing and its write;
`NeverOlderSafe`, which adds that this run has read the feed last.

Only model-checked: liveness, which is out of the prover's reach
(`SignalEndsContainer`, `AcquireEnds`, `UpdateNoticed`).

In every module, an operator whose comment begins with "Mutant:" is no part of
the model. It is the form a definition would take with a plausible bug, and
`PROJECT.json` names the property that finds it.

## 11. Not modelled

* Entry point: the modes and owners of files and the line-break tests (an
  environment is valid or it is not), the command line of the server, commands
  other than `postgres`.
* Acquisition: in `BundleAcquire` the inside of `validate_lock` is a predicate on
  contents; `LockRules` has it.
* Locks: the patterns of strings are sets of values, string order is a rank, a
  size is part of the SHA-256, and the several UBI repositories are one. The queries
  and downloads of `resolve-lock.sh:44-129`, one for each file, are one step, and the
  digest of a source is its name: a repository that moves between two of these
  queries, or serves another file under the name that was hashed, is not seen. The
  temporary directory of `acquire_inputs` works as that of `acquire` does and is
  not modelled a second time.
* Build: signatures and RPM metadata, which are checks that pass or fail.
* Release: the parsing of tags, versions and dates; the agreement of Containerfile
  and changelog with a tag. The failure of an approval that comes after the image
  archives have expired.
* Control views: layout, quoting and the inside of the OSCAL schema.
* Update monitor: dates and wording of the report.
* Outside the repository, and modelled from how its code uses them: `initdb`,
  `pg_ctl`, `createdb`, `postgres`, the container supervisor, `rename(2)`, the
  registry, GitHub's re-runs, artifacts and rulesets.
* CI, the deployment example and the tests: job graphs and settings without state
  of their own. The tests are read for what the program promises.
