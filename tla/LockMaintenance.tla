-------------------------- MODULE LockMaintenance --------------------------
(***************************************************************************)
(* How artifacts/locks comes about: the weekly workflow update-locks.yml,  *)
(* with one job for each architecture (artifacts.py acquire-inputs,        *)
(* resolve-lock.sh, render-lock.py), the maintainer who edits the inputs   *)
(* and promotes candidates or edits a lock by hand, and the check of       *)
(* release.py that looks at all three files.  The repositories change at   *)
(* any time, also between two steps of a job.                              *)
(***************************************************************************)
EXTENDS LockRules, FiniteSets

CONSTANTS Rpms,        \* contents of RPM files
          Meta,        \* the header of a content, with the content of the key
                       \* that signed it and the key ID it names
          LastState,   \* the repositories go through the states 1 .. LastState
          Closure,     \* Closure[n][a]: what dnf adds to the seeds in state n
          Listed,      \* Listed[n]: NEVRAs and source filenames that a query of
                       \* state n finds exactly once
          KeyId,       \* the key ID of a fingerprint (its last digits)
          InputDrafts, \* what a maintainer writes into lock-inputs.json
          LockDrafts,  \* ... and into a lock
          MaxChanges,  \* bound: changes by maintainers
          MaxRetained  \* bound: candidates kept at the same time

ASSUME MaintenanceAssumption ==
  /\ LastState \in Nat \ {0} /\ MaxChanges \in Nat /\ MaxRetained \in Nat
  /\ Closure \in [1 .. LastState -> [Archs -> SUBSET Rpms]]
  /\ \A n \in 1 .. LastState, a \in Archs : \A r \in Closure[n][a] :
       Meta[r].name \notin PgNames   \* only the UBI repositories are enabled
  /\ \A d \in InputDrafts \ {Garbage}, a \in Archs :
       DOMAIN d.seeds[a] = 1 .. Len(d.seeds[a])
  /\ InputDrafts # {} /\ LockDrafts # {}
  /\ Garbage \in LockDrafts

VARIABLES upstream,  \* the state of the repositories
          inputs,    \* lock-inputs.json on main
          locks,     \* artifacts/locks/<architecture>.json on main
          changes,   \* number of changes by maintainers
          pc,        \* the next step of the job of an architecture
          held,      \* the inputs of its checkout
          rpms,      \* the files in resolution-output/rpms
          retained   \* the candidates kept as artifacts: for which architecture,
                     \* the lock, and (history) the inputs it was made from

main == <<inputs, locks, changes>>
vars == <<upstream, main, pc, held, rpms, retained>>

Init ==
  /\ upstream = 1 /\ changes = 0
  /\ inputs \in InputDrafts /\ locks = [a \in Archs |-> Garbage]
  /\ pc = [a \in Archs |-> "idle"]
  /\ held = [a \in Archs |-> Garbage]
  /\ rpms = [a \in Archs |-> {}]
  /\ retained = {}

-----------------------------------------------------------------------------
(* Others.                                                                 *)

Publish == /\ upstream < LastState /\ upstream' = upstream + 1
           /\ UNCHANGED <<main, pc, held, rpms, retained>>

Change == /\ changes < MaxChanges /\ changes' = changes + 1
          /\ UNCHANGED <<upstream, pc, held, rpms, retained>>

EditInputs == /\ Change /\ inputs' \in InputDrafts
              /\ UNCHANGED locks

(* A candidate is committed as the lock of its architecture, or by a slip  *)
(* of the other one.                                                       *)
Promote(a) == /\ Change
              /\ \E c \in retained : locks' = [locks EXCEPT ![a] = c.lock]
              /\ UNCHANGED inputs

EditLock(a) == /\ Change /\ \E l \in LockDrafts : locks' = [locks EXCEPT ![a] = l]
               /\ UNCHANGED inputs

(* Artifacts are kept for some days.                                       *)
Expire == /\ \E c \in retained : retained' = retained \ {c}
          /\ UNCHANGED <<upstream, main, pc, held, rpms>>

-----------------------------------------------------------------------------
(* The workflow.  A failed job retains nothing; its runner is gone.        *)

Goto(a, l) == pc' = [pc EXCEPT ![a] = l]

End(a) == /\ Goto(a, "idle")
          /\ held' = [held EXCEPT ![a] = Garbage]
          /\ rpms' = [rpms EXCEPT ![a] = {}]

(* A run checks out one commit for both jobs.                              *)
Start == /\ \A a \in Archs : pc[a] = "idle"
         /\ pc' = [a \in Archs |-> "acquire"]
         /\ held' = [a \in Archs |-> inputs]
         /\ UNCHANGED <<upstream, main, rpms, retained>>

Fail(a) == /\ pc[a] # "idle" /\ End(a)
           /\ UNCHANGED <<upstream, main, retained>>

File(name, content) == [name |-> name, content |-> content]
Contained(files) == {f.content : f \in files}

(* The downloads of acquire_inputs, kept under the last component of their *)
(* URL: a later one overwrites an earlier one.                             *)
Saved(s) == {File(s[i].url.file, s[i].digest) : i \in
               {j \in DOMAIN s : \A k \in DOMAIN s : k > j => s[k].url.file # s[j].url.file}}

(* acquire-inputs: every file has its reviewed digest, or the job fails.   *)
AcquireInputs(a) ==
  /\ pc[a] = "acquire" /\ ValidInputs(held[a])
  /\ rpms' = [rpms EXCEPT ![a] = Saved(held[a].seeds[a])]
  /\ Goto(a, "resolve")
  /\ UNCHANGED <<upstream, main, held, retained>>

(* resolve-lock.sh: the seeds are RPMs signed by one of the saved keys;    *)
(* dnf downloads what they need, and the seeds are copied over that.       *)
Resolve(a) ==
  /\ pc[a] = "resolve"
  /\ \A r \in Contained(rpms[a]) :
       r \in Rpms /\ Meta[r].signer \in Contained(Saved(held[a].keys))
  /\ rpms' = [rpms EXCEPT ![a] = @ \cup
       {f \in {File(Meta[r].filename, r) : r \in Closure[upstream][a]} :
          \A g \in rpms[a] : f.name # g.name}]
  /\ Goto(a, "render")
  /\ UNCHANGED <<upstream, main, held, retained>>

(* ... and the rest of the script asks for every file from UBI, binary or  *)
(* source, again.                                                          *)
Inspected(a) ==
  \A r \in Contained(rpms[a]) :
    /\ Meta[r].name \in PgNames \/ Nevra(Meta[r]) \in Listed[upstream]
    /\ Meta[r].source \in PgSrpms \cup Listed[upstream]

(* render-lock.py.  A key ID has to select exactly one fingerprint.        *)
Selected(keys, id) == {k.fingerprint : k \in {x \in Range(keys) : KeyId[x.fingerprint] = id}}

Row(f, keys) ==
  LET m == Meta[f.content]
      postgres == m.name \in PgNames
  IN  [name |-> m.name, epoch |-> m.epoch, version |-> m.version, release |-> m.release,
       architecture |-> m.architecture, nevra |-> Nevra(m), filename |-> f.name,
       url |-> [host |-> IF postgres THEN PgHost ELSE UbiHost, file |-> f.name],
       repository |-> IF postgres THEN "pgdg-18" ELSE "ubi",
       digest |-> f.content, source |-> m.source,
       fingerprint |-> CHOOSE k \in Selected(keys, m.keyId) : TRUE]

SourceRow(f) ==
  LET postgres == f \in PgSrpms
  IN  [filename |-> f, digest |-> f,
       url |-> [host |-> IF postgres THEN PgSourceHost ELSE UbiHost, file |-> f],
       repository |-> IF postgres THEN "pgdg-18-source" ELSE "ubi-source"]

(* The rows of a set in the order of a field.                              *)
Arranged(S, field) ==
  {s \in [1 .. Cardinality(S) -> S] : Range(s) = S /\ Sorted(s, field)}

(* A key gets the name of its URL, also when it had another filename.      *)
RenderedKey(k) == [id |-> k.id, filename |-> k.url.file, url |-> k.url,
                   digest |-> k.digest, fingerprint |-> k.fingerprint]

Rendered(a, i, packages, sources, keys) ==
  [architecture |-> a, postgresql |-> i.postgresql, rpm |-> i.rpm,
   bases |-> [role \in Roles |-> [reference |-> i.bases[role],
                                  digest |-> i.bases[role].digest, platform |-> a]],
   keys |-> keys, packages |-> packages, sources |-> sources]

OneKey(id, keys) == \E f \in Selected(keys, id) : Selected(keys, id) = {f}

(* Mutant: what was written is kept, valid or not.                         *)
KeepUnchecked(a, l) ==
  retained' = retained \cup {[for |-> a, lock |-> l, from |-> held[a]]}

(* The lock is written, validated, and only then retained.                 *)
Keep(a, l) ==
  ValidLock(l) /\ retained' = retained \cup {[for |-> a, lock |-> l, from |-> held[a]]}

Render(a) ==
  /\ pc[a] = "render" /\ Inspected(a) /\ Cardinality(retained) < MaxRetained
  /\ \A f \in rpms[a] : OneKey(Meta[f.content].keyId, held[a].keys)
  /\ \E packages \in Arranged({Row(f, held[a].keys) : f \in rpms[a]}, "nevra"),
        sources \in Arranged({SourceRow(Meta[f.content].source) : f \in rpms[a]}, "filename"),
        keys \in Arranged({RenderedKey(k) : k \in Range(held[a].keys)}, "id") :
       Keep(a, Rendered(a, held[a], packages, sources, keys))
  /\ End(a)
  /\ UNCHANGED <<upstream, main>>

Job(a) == AcquireInputs(a) \/ Resolve(a) \/ Render(a) \/ Fail(a)

Next == \/ Publish \/ EditInputs \/ Expire \/ Start
        \/ \E a \in Archs : Promote(a) \/ EditLock(a) \/ Job(a)

Spec == Init /\ [][Next]_vars

-----------------------------------------------------------------------------
(* release.py validate_locks, for a tag of this PostgreSQL version.        *)

(* Mutant: a lock may stand under the name of another architecture.        *)
ReleaseAcceptsAnyArch(postgresql) ==
  /\ inputs # Garbage /\ inputs.postgresql = postgresql
  /\ \A a \in Archs :
       /\ locks[a] # Garbage /\ locks[a].postgresql = postgresql
       /\ locks[a].rpm = inputs.rpm
       /\ \A role \in Roles :
            /\ locks[a].bases[role].reference = inputs.bases[role]
            /\ locks[a].bases[role].digest = inputs.bases[role].digest

ReleaseAccepts(postgresql) ==
  /\ inputs # Garbage /\ inputs.postgresql = postgresql
  /\ \A a \in Archs :
       /\ locks[a] # Garbage /\ locks[a].architecture = a
       /\ locks[a].postgresql = postgresql /\ locks[a].rpm = inputs.rpm
       /\ \A role \in Roles :
            /\ locks[a].bases[role].reference = inputs.bases[role]
            /\ locks[a].bases[role].digest = inputs.bases[role].digest

-----------------------------------------------------------------------------
(* Properties.                                                             *)

TypeOK ==
  /\ upstream \in 1 .. LastState /\ changes \in 0 .. MaxChanges
  /\ inputs \in InputDrafts
  /\ DOMAIN locks = Archs /\ DOMAIN rpms = Archs
  /\ \A a \in Archs : locks[a] \in LockDrafts \/ ValidLock(locks[a])
  /\ pc \in [Archs -> {"idle", "acquire", "resolve", "render"}]
  /\ held \in [Archs -> InputDrafts \cup {Garbage}]
  /\ \A a \in Archs : pc[a] \notin {"idle", "acquire"} => ValidInputs(held[a])
  /\ \A c \in retained : c.for \in Archs /\ c.from \in InputDrafts /\ ValidLock(c.lock)

(* The files of PostgreSQL in a lock.                                      *)
Postgres(l) == {p.digest : p \in {q \in Range(l.packages) : q.name \in PgNames}}

(* A candidate is what was reviewed: for its own architecture, on the      *)
(* reviewed bases, with exactly the reviewed PostgreSQL files (also when   *)
(* two of them are downloaded to one name) and the reviewed keys, each     *)
(* package under the one of them that its signature can mean; however the  *)
(* inputs and the repositories change while the job runs.                  *)
Reviewed(c) ==
  /\ c.lock.architecture = c.for
  /\ \A role \in Roles : c.lock.bases[role].reference = c.from.bases[role]
  /\ Postgres(c.lock) = {s.digest : s \in Range(c.from.seeds[c.for])}
  /\ {k.digest : k \in Range(c.lock.keys)} = {k.digest : k \in Range(c.from.keys)}
  /\ \A p \in Range(c.lock.packages) :
       Selected(c.from.keys, Meta[p.digest].keyId) = {p.fingerprint}

CandidateReviewed == \A c \in retained : Reviewed(c)

(* A candidate can be kept in one directory: no file of it takes the place *)
(* of another, and it holds the source and the key of every package.  That *)
(* is so even for inputs which write keys in the form with a filename and  *)
(* download two of them to one name, so that one replaces the other: the   *)
(* lock has the names of the URLs again, and is refused before it is kept. *)
Fits(l) ==
  /\ \A f, g \in LockFiles(l) : f.path = g.path => f = g
  /\ \A p \in Range(l.packages) :
       /\ \E f \in LockFiles(l) : f.path = <<"srpms", p.source>>
       /\ \E k \in Range(l.keys), f \in LockFiles(l) :
            /\ k.fingerprint = p.fingerprint
            /\ f.path = <<"keys", k.filename>> /\ f.content = k.digest

CandidateFits == \A c \in retained : Fits(c.lock)

(* When release.py accepts the three files of main for a version and       *)
(* acquire accepts both locks, the images of both architectures have the   *)
(* three PostgreSQL packages of that version and of the selected release,  *)
(* for their own architecture and on the selected bases, although the      *)
(* files are changed one at a time and candidates grow old.                *)
ReleaseAgrees ==
  \A postgresql \in {i.postgresql : i \in InputDrafts \ {Garbage}} :
    ReleaseAccepts(postgresql) /\ (\A a \in Archs : ValidLock(locks[a])) =>
      \A a \in Archs :
        /\ \A n \in Required : \E p \in Range(locks[a].packages) :
             /\ p.name = n /\ p.architecture \in {RpmArch[a], "noarch"}
             /\ p.version = postgresql /\ <<p.version, p.release>> = inputs.rpm
        /\ \A role \in Roles : /\ locks[a].bases[role].digest = inputs.bases[role].digest
                                /\ locks[a].bases[role].platform = a

=============================================================================
