----------------------------- MODULE LockProofs -----------------------------
(***************************************************************************)
(* Proofs about LockMaintenance, for any repositories, drafts and numbers  *)
(* of changes and candidates: a candidate is what was reviewed and fits    *)
(* into a directory, and the release check keeps the two architectures     *)
(* together.                                                               *)
(***************************************************************************)
EXTENDS LockMaintenance, FiniteSetTheorems, TLAPS

USE MaintenanceAssumption

-----------------------------------------------------------------------------
(* What render-lock.py makes of files of which only seeds are PostgreSQL.  *)

SeedsOnly(files, seeds) ==
  \A f \in files : f \in Saved(seeds) \/ Meta[f.content].name \notin PgNames

LEMMA ThreeDigests ==
  ASSUME NEW s, DOMAIN s = 1 .. 3
  PROVE  {x.digest : x \in Range(s)} = {s[1].digest, s[2].digest, s[3].digest}
<1>1. Range(s) = {s[1], s[2], s[3]}
  BY DEF Range
<1>2. QED
  BY <1>1

LEMMA SavedFromList ==
  ASSUME NEW s, NEW f \in Saved(s)
  PROVE  f.content \in {x.digest : x \in Range(s)}
  BY DEF Saved, File, Range

(* The PostgreSQL packages of a valid candidate are the seeds, all three.  *)
LEMMA PostgresReviewed ==
  ASSUME NEW a \in Archs, NEW i \in InputDrafts, ValidInputs(i),
         NEW files, SeedsOnly(files, i.seeds[a]), NEW l, ValidLock(l),
         Range(l.packages) = {Row(f, i.keys) : f \in files}
  PROVE  Postgres(l) = {s.digest : s \in Range(i.seeds[a])}
<1> DEFINE seeds == i.seeds[a]
<1>1. DOMAIN seeds = 1 .. 3
  BY DEF ValidInputs
<1>2. \A p \in Range(l.packages) :
        \E f \in files : p.digest = f.content /\ p.name = Meta[p.digest].name
  BY DEF Row
<1>3. Postgres(l) \subseteq {s.digest : s \in Range(seeds)}
  BY <1>2, SavedFromList DEF Postgres, SeedsOnly
<1>4. \A n \in Required : \E p \in Range(l.packages) : p.name = n /\ p.digest \in Postgres(l)
  BY RulesAssumption DEF ValidLock, Contents, Required, Postgres
<1>5. PICK p \in Range(l.packages), q \in Range(l.packages), r \in Range(l.packages) :
        /\ p.name = "postgresql18" /\ p.digest \in Postgres(l)
        /\ q.name = "postgresql18-libs" /\ q.digest \in Postgres(l)
        /\ r.name = "postgresql18-server" /\ r.digest \in Postgres(l)
  BY <1>4 DEF Required
<1>6. p.digest # q.digest /\ p.digest # r.digest /\ q.digest # r.digest
  BY <1>2, <1>5
<1>7. {s.digest : s \in Range(seeds)} = {seeds[1].digest, seeds[2].digest, seeds[3].digest}
  BY <1>1, ThreeDigests
<1>8. QED
  BY <1>3, <1>5, <1>6, <1>7

LEMMA CandidateIsReviewed ==
  ASSUME NEW a \in Archs, NEW i \in InputDrafts, ValidInputs(i),
         NEW files, SeedsOnly(files, i.seeds[a]),
         \A f \in files : OneKey(Meta[f.content].keyId, i.keys),
         NEW packages, Range(packages) = {Row(f, i.keys) : f \in files},
         NEW sources,
         NEW keys, Range(keys) = {RenderedKey(k) : k \in Range(i.keys)},
         ValidLock(Rendered(a, i, packages, sources, keys))
  PROVE  Reviewed([for |-> a, lock |-> Rendered(a, i, packages, sources, keys), from |-> i])
<1> DEFINE l == Rendered(a, i, packages, sources, keys)
<1>1. /\ l.architecture = a /\ l.packages = packages /\ l.keys = keys
      /\ \A role \in Roles : l.bases[role].reference = i.bases[role]
  BY DEF Rendered
<1>2. {k.digest : k \in Range(keys)} = {k.digest : k \in Range(i.keys)}
  <2>1. \A k \in Range(i.keys) : RenderedKey(k) \in Range(keys) /\ RenderedKey(k).digest = k.digest
    BY DEF RenderedKey
  <2>2. \A k \in Range(keys) : \E x \in Range(i.keys) : k.digest = x.digest
    BY <2>1
  <2>3. QED
    BY <2>1, <2>2
<1>3. ASSUME NEW p \in Range(packages)
      PROVE  Selected(i.keys, Meta[p.digest].keyId) = {p.fingerprint}
  <2>1. PICK f \in files : p = Row(f, i.keys)
    OBVIOUS
  <2>2. PICK g \in Selected(i.keys, Meta[f.content].keyId) :
          Selected(i.keys, Meta[f.content].keyId) = {g}
    BY DEF OneKey
  <2>3. p.digest = f.content /\ p.fingerprint = CHOOSE k \in {g} : TRUE
    BY <2>1, <2>2 DEF Row
  <2>4. QED
    BY <2>2, <2>3
<1>4. Postgres(l) = {s.digest : s \in Range(i.seeds[a])}
  BY <1>1, PostgresReviewed
<1>5. QED
  BY <1>1, <1>2, <1>3, <1>4 DEF Reviewed

-----------------------------------------------------------------------------
(* A valid lock whose keys have the names it checks fits into a directory. *)

Placed(l) == \A k \in Range(l.keys) : KeyFile(k) = k.filename

LEMMA NoFileReplaced ==
  ASSUME NEW l, ValidLock(l), Placed(l),
         NEW f \in LockFiles(l), NEW g \in LockFiles(l), f.path = g.path
  PROVE  f = g
<1>1. \A x, y \in Range(l.keys) : x.filename = y.filename => x = y
  BY DEF ValidLock, ValidKeys, Placed, Range
<1>2. \A x, y \in Range(l.packages) : x.filename = y.filename => x = y
  BY DEF ValidLock, Distinct, Range
<1>3. \A x, y \in Range(l.sources) : x.filename = y.filename => x = y
  BY DEF ValidLock, Distinct, Range
<1>4. QED
  BY <1>1, <1>2, <1>3 DEF LockFiles, Listing

LEMMA NothingMissing ==
  ASSUME NEW l, ValidLock(l), NEW p \in Range(l.packages)
  PROVE  /\ \E f \in LockFiles(l) : f.path = <<"srpms", p.source>>
         /\ \E k \in Range(l.keys), f \in LockFiles(l) :
              /\ k.fingerprint = p.fingerprint
              /\ f.path = <<"keys", k.filename>> /\ f.content = k.digest
<1>1. PICK s \in Range(l.sources) : s.filename = p.source
  BY DEF ValidLock, Contents
<1>2. [path |-> <<"srpms", s.filename>>, content |-> s.digest] \in LockFiles(l)
  BY DEF LockFiles, Listing
<1>3. PICK k \in Range(l.keys) : k.fingerprint = p.fingerprint
  BY DEF ValidLock, ValidPackage
<1>4. [path |-> <<"keys", k.filename>>, content |-> k.digest] \in LockFiles(l)
  BY DEF LockFiles, Listing
<1>5. QED
  BY <1>1, <1>2, <1>3, <1>4

LEMMA CandidateHasRoom ==
  ASSUME NEW a, NEW i, NEW packages, NEW sources,
         NEW keys, Range(keys) = {RenderedKey(k) : k \in Range(i.keys)},
         ValidLock(Rendered(a, i, packages, sources, keys))
  PROVE  Fits(Rendered(a, i, packages, sources, keys))
<1> DEFINE l == Rendered(a, i, packages, sources, keys)
<1>1. l.keys = keys
  BY DEF Rendered
<1>2. Placed(l)
  BY <1>1 DEF Placed, RenderedKey, KeyFile
<1>3. QED
  BY <1>2, NoFileReplaced, NothingMissing DEF Fits

-----------------------------------------------------------------------------
(* The inductive invariant.                                                *)

JobInv ==
  \A a \in Archs :
    /\ pc[a] = "resolve" => rpms[a] = Saved(held[a].seeds[a])
    /\ pc[a] = "render" => SeedsOnly(rpms[a], held[a].seeds[a])

Inv == TypeOK /\ JobInv /\ CandidateReviewed /\ CandidateFits

LEMMA ResolveKeepsSeeds ==
  ASSUME Inv, NEW a \in Archs, Resolve(a)
  PROVE  SeedsOnly(rpms'[a], held[a].seeds[a])
<1>1. \A f \in rpms'[a] :
        f \in rpms[a] \/ \E r \in Closure[upstream][a] : f = File(Meta[r].filename, r)
  BY DEF Resolve, Inv, TypeOK
<1>2. \A r \in Closure[upstream][a] : Meta[r].name \notin PgNames
  BY DEF Inv, TypeOK
<1>3. rpms[a] = Saved(held[a].seeds[a])
  BY DEF Inv, JobInv, Resolve
<1>4. QED
  BY <1>1, <1>2, <1>3 DEF SeedsOnly, File

LEMMA Initial == Init => Inv
  BY DEF Init, Inv, TypeOK, JobInv, CandidateReviewed, CandidateFits

LEMMA TypeStep ==
  ASSUME Inv, [Next]_vars
  PROVE  TypeOK'
<1> USE DEF Inv, TypeOK, main, Goto, End
<1>1. CASE Publish
  BY <1>1 DEF Publish
<1>2. CASE EditInputs
  BY <1>2 DEF EditInputs, Change
<1>3. CASE Expire
  BY <1>3 DEF Expire
<1>4. CASE Start
  BY <1>4 DEF Start
<1>5. ASSUME NEW a \in Archs, Promote(a) \/ EditLock(a)
      PROVE  TypeOK'
  BY <1>5 DEF Promote, EditLock, Change
<1>6. ASSUME NEW a \in Archs, Job(a)
      PROVE  TypeOK'
  <2>1. CASE AcquireInputs(a)
    BY <2>1 DEF AcquireInputs
  <2>2. CASE Resolve(a)
    BY <2>2 DEF Resolve
  <2>3. CASE Render(a)
    <3>1. ValidInputs(held[a]) /\ held[a] \in InputDrafts
      BY <2>3 DEF Render, ValidInputs
    <3>2. QED
      BY <2>3, <3>1 DEF Render, Keep
  <2>4. CASE Fail(a)
    BY <2>4 DEF Fail
  <2>5. QED
    BY <1>6, <2>1, <2>2, <2>3, <2>4 DEF Job
<1>7. CASE UNCHANGED vars
  BY <1>7 DEF vars
<1>8. QED
  BY <1>1, <1>2, <1>3, <1>4, <1>5, <1>6, <1>7 DEF Next

LEMMA JobStep ==
  ASSUME Inv, [Next]_vars
  PROVE  JobInv'
<1> USE DEF Inv, TypeOK, JobInv, main, Goto, End
<1>1. CASE UNCHANGED <<pc, held, rpms>>
  BY <1>1
<1>2. CASE Start
  BY <1>2 DEF Start
<1>3. ASSUME NEW a \in Archs, AcquireInputs(a)
      PROVE  JobInv'
  BY <1>3 DEF AcquireInputs
<1>4. ASSUME NEW a \in Archs, Resolve(a)
      PROVE  JobInv'
  <2>1. SeedsOnly(rpms'[a], held[a].seeds[a])
    BY <1>4, ResolveKeepsSeeds
  <2>2. QED
    BY <1>4, <2>1 DEF Resolve
<1>5. ASSUME NEW a \in Archs, Render(a) \/ Fail(a)
      PROVE  JobInv'
  BY <1>5 DEF Render, Fail
<1>6. QED
  BY <1>1, <1>2, <1>3, <1>4, <1>5
  DEF Next, Job, vars, Publish, EditInputs, Expire, Promote, EditLock, Change

LEMMA CandidateStep ==
  ASSUME Inv, [Next]_vars
  PROVE  CandidateReviewed' /\ CandidateFits'
<1>1. CASE retained' \subseteq retained
  BY <1>1 DEF Inv, CandidateReviewed, CandidateFits
<1>2. ASSUME NEW a \in Archs, Render(a)
      PROVE  CandidateReviewed' /\ CandidateFits'
  <2>1. ValidInputs(held[a]) /\ held[a] \in InputDrafts /\ SeedsOnly(rpms[a], held[a].seeds[a])
    BY <1>2 DEF Inv, TypeOK, JobInv, Render, ValidInputs
  <2>2. PICK packages \in Arranged({Row(f, held[a].keys) : f \in rpms[a]}, "nevra"),
             sources \in Arranged({SourceRow(Meta[f.content].source) : f \in rpms[a]}, "filename"),
             keys \in Arranged({RenderedKey(k) : k \in Range(held[a].keys)}, "id") :
          Keep(a, Rendered(a, held[a], packages, sources, keys))
    BY <1>2 DEF Render
  <2>3. Reviewed([for |-> a, lock |-> Rendered(a, held[a], packages, sources, keys),
                  from |-> held[a]])
    BY <1>2, <2>1, <2>2, CandidateIsReviewed DEF Render, Arranged, Keep
  <2>4. Fits(Rendered(a, held[a], packages, sources, keys))
    BY <2>2, CandidateHasRoom DEF Arranged, Keep
  <2>5. QED
    BY <2>2, <2>3, <2>4 DEF Keep, Inv, CandidateReviewed, CandidateFits
<1>3. QED
  BY <1>1, <1>2
  DEF Next, Job, vars, main, Publish, EditInputs, Expire, Promote, EditLock, Change, Start,
      AcquireInputs, Resolve, Fail

LEMMA Inductive == Spec => []Inv
<1>1. Inv /\ [Next]_vars => Inv'
  BY TypeStep, JobStep, CandidateStep DEF Inv
<1>2. QED
  BY Initial, <1>1, PTL DEF Spec

(* Types: among them, that whatever stands on main as the lock of an       *)
(* architecture was written by hand or is a valid lock.                    *)
THEOREM TypeCorrect == Spec => []TypeOK
  BY Inductive, PTL DEF Inv

(* A retained candidate has exactly the reviewed PostgreSQL files, keys    *)
(* and bases, for any inputs, repositories and interleaving of the two     *)
(* jobs with the changes of maintainers.                                   *)
THEOREM CandidateSafe == Spec => []CandidateReviewed
  BY Inductive, PTL DEF Inv

(* A retained candidate fits into one directory, with the source and the   *)
(* key of each of its packages, for any inputs and repositories: also when *)
(* the inputs name the keys differently from their URLs.                   *)
THEOREM CandidateFitsSafe == Spec => []CandidateFits
  BY Inductive, PTL DEF Inv

-----------------------------------------------------------------------------
(* What the checks of release.py exclude, by themselves.                   *)

(* The checks of release.py and of acquire together keep the images of the *)
(* two architectures on one PostgreSQL release and on the selected bases.  *)
THEOREM ReleaseAgreesSafe == Spec => []ReleaseAgrees
<1>1. ASSUME NEW postgresql, ReleaseAccepts(postgresql), NEW a \in Archs, ValidLock(locks[a])
      PROVE  /\ \A n \in Required : \E p \in Range(locks[a].packages) :
                  /\ p.name = n /\ p.architecture \in {RpmArch[a], "noarch"}
                  /\ p.version = postgresql /\ <<p.version, p.release>> = inputs.rpm
             /\ \A role \in Roles : /\ locks[a].bases[role].digest = inputs.bases[role].digest
                                     /\ locks[a].bases[role].platform = a
  <2>1. ASSUME NEW n \in Required
        PROVE  \E p \in Range(locks[a].packages) :
                  /\ p.name = n /\ p.architecture \in {RpmArch[a], "noarch"}
                  /\ p.version = postgresql /\ <<p.version, p.release>> = inputs.rpm
    <3>1. PICK p \in Range(locks[a].packages) : p.name = n
      BY <1>1 DEF ValidLock, Contents
    <3>2. ValidPackage(p, locks[a]) /\ n \in PgNames
      BY <1>1, RulesAssumption DEF ValidLock, Required
    <3>3. QED
      BY <1>1, <3>1, <3>2 DEF ValidPackage, ReleaseAccepts
  <2>2. QED
    BY <1>1, <2>1 DEF ReleaseAccepts, ValidLock
<1>2. ReleaseAgrees
  BY <1>1 DEF ReleaseAgrees
<1>3. QED
  BY <1>2, PTL

-----------------------------------------------------------------------------
(* What render-lock.py can write that validate_lock refuses.               *)

(* What dnf and the seeds may leave in the directory: RPMs of the          *)
(* architecture with their sources, the PostgreSQL packages of the release *)
(* that the inputs select, no package twice, and the three that must be    *)
(* there.                                                                  *)
Fitting(f, a, i) ==
  LET m == Meta[f.content]
  IN  /\ m.epoch # Malformed /\ m.architecture \in {RpmArch[a], "noarch"}
      /\ f.name \in RpmNames /\ f.content # Malformed
      /\ m.source \in SrpmNames
      /\ m.name \in PgNames =>
           m.version = i.postgresql /\ <<m.version, m.release>> = i.rpm

NoneTwice(files) ==
  /\ \A f, g \in files : f.name = g.name => f = g
  /\ \A f, g \in files : Nevra(Meta[f.content]) = Nevra(Meta[g.content]) => f = g

Acceptable(files, a, i) ==
  /\ \A f \in files : Fitting(f, a, i) /\ Meta[f.content].source # Malformed
  /\ NoneTwice(files)
  /\ Required \subseteq {Meta[f.content].name : f \in files}

(* A list of a finite set has every element, and at one place.             *)
LEMMA ArrangedOnce ==
  ASSUME NEW S, IsFiniteSet(S), NEW field, NEW s \in Arranged(S, field)
  PROVE  /\ Range(s) = S /\ Sorted(s, field) /\ DOMAIN s = 1 .. Cardinality(S)
         /\ \A j \in DOMAIN s : s[j] \in S
         /\ \A j, k \in DOMAIN s : s[j] = s[k] => j = k
<1>1. s \in [1 .. Cardinality(S) -> S] /\ Range(s) = S /\ Sorted(s, field)
  BY DEF Arranged
<1>2. Cardinality(S) \in Nat
  BY FS_CardinalityType
<1>3. IsFiniteSet(1 .. Cardinality(S)) /\ Cardinality(1 .. Cardinality(S)) = Cardinality(S)
  BY <1>2, FS_Interval
<1>4. s \in Surjection(1 .. Cardinality(S), S)
  BY <1>1 DEF Surjection, Range
<1>5. s \in Injection(1 .. Cardinality(S), S)
  BY <1>3, <1>4, FS_SurjSameCardinalityImpliesInj
<1>6. QED
  BY <1>1, <1>5 DEF Injection, IsInjective

(* A list of a finite set repeats no value of a field when no two elements *)
(* of the set share one.                                                   *)
LEMMA ArrangedDistinct ==
  ASSUME NEW S, IsFiniteSet(S), NEW order, NEW s \in Arranged(S, order), NEW field
  PROVE  Distinct(s, field) <=> \A x, y \in S : x[field] = y[field] => x = y
<1>1. /\ Range(s) = S
      /\ \A j \in DOMAIN s : s[j] \in S
      /\ \A j, k \in DOMAIN s : s[j] = s[k] => j = k
  BY ArrangedOnce
<1>2. \A x \in S : \E j \in DOMAIN s : s[j] = x
  BY <1>1 DEF Range
<1>3. QED
  BY <1>1, <1>2 DEF Distinct

(* Keys that the URLs place in one directory.                              *)
Placeable(ks) ==
  /\ \A k \in Range(ks) : k.url.file \in SafeNames
  /\ \A i, j \in DOMAIN ks : ks[i].url.file = ks[j].url.file => i = j

(* The keys of the inputs make a valid list again exactly when they are.   *)
LEMMA KeysAccepted ==
  ASSUME NEW K, NEW ks \in Seq(K), ValidKeys(ks),
         NEW keys \in Arranged({RenderedKey(k) : k \in Range(ks)}, "id")
  PROVE  /\ ValidKeys(keys) <=> Placeable(ks)
         /\ {k.fingerprint : k \in Range(keys)} = {k.fingerprint : k \in Range(ks)}
<1> DEFINE S == {RenderedKey(k) : k \in Range(ks)}
           render == [j \in 1 .. Len(ks) |-> RenderedKey(ks[j])]
<1>1. DOMAIN ks = 1 .. Len(ks) /\ Len(ks) \in Nat /\ ks # <<>>
  BY DEF ValidKeys
<1>2. Range(ks) = {ks[j] : j \in 1 .. Len(ks)}
  BY <1>1 DEF Range
<1>3. IsFiniteSet(S)
  <2>1. render \in Surjection(1 .. Len(ks), S)
    BY <1>2 DEF Surjection
  <2>2. IsFiniteSet(1 .. Len(ks))
    BY <1>1, FS_Interval
  <2>3. QED
    BY <2>1, <2>2, FS_Surjection
<1>4. \A k \in Range(ks) :
        /\ RenderedKey(k).id = k.id /\ RenderedKey(k).fingerprint = k.fingerprint
        /\ RenderedKey(k).url = k.url /\ RenderedKey(k).digest = k.digest
        /\ KeyFile(RenderedKey(k)) = k.url.file
  BY DEF RenderedKey, KeyFile
<1>5. /\ Range(keys) = S
      /\ \A j \in DOMAIN keys : keys[j] \in S
      /\ \A j, k \in DOMAIN keys : keys[j] = keys[k] => j = k
  BY <1>3, ArrangedOnce
<1>6. \A x, y \in S : (x.id = y.id \/ x.fingerprint = y.fingerprint) => x = y
  <2> SUFFICES ASSUME NEW j \in 1 .. Len(ks), NEW k \in 1 .. Len(ks),
                      \/ RenderedKey(ks[j]).id = RenderedKey(ks[k]).id
                      \/ RenderedKey(ks[j]).fingerprint = RenderedKey(ks[k]).fingerprint
               PROVE  j = k
    BY <1>2
  <2>1. ks[j] \in Range(ks) /\ ks[k] \in Range(ks)
    BY <1>2
  <2>2. ks[j].id = ks[k].id \/ ks[j].fingerprint = ks[k].fingerprint
    BY <1>4, <2>1
  <2>3. QED
    BY <1>1, <2>2 DEF ValidKeys, Distinct
<1>7. keys # <<>>
  <2>1. ks[1] \in Range(ks)
    BY <1>1, <1>2
  <2>2. Range(keys) # {}
    BY <1>5, <2>1
  <2>3. QED
    BY <2>2 DEF Range
<1>8. Distinct(keys, "id") /\ Distinct(keys, "fingerprint")
  BY <1>3, <1>6, ArrangedDistinct
<1>9. (\A j, k \in DOMAIN keys : KeyFile(keys[j]) = KeyFile(keys[k]) => j = k)
        <=> \A j, k \in DOMAIN ks : ks[j].url.file = ks[k].url.file => j = k
  <2>1. (\A j, k \in DOMAIN keys : KeyFile(keys[j]) = KeyFile(keys[k]) => j = k)
          <=> \A x, y \in S : KeyFile(x) = KeyFile(y) => x = y
    <3>1. \A x \in S : \E j \in DOMAIN keys : keys[j] = x
      BY <1>5 DEF Range
    <3>2. QED
      BY <1>5, <3>1
  <2>2. \A j, k \in DOMAIN ks : RenderedKey(ks[j]) = RenderedKey(ks[k]) => j = k
    <3> SUFFICES ASSUME NEW j \in DOMAIN ks, NEW k \in DOMAIN ks,
                        RenderedKey(ks[j]) = RenderedKey(ks[k])
                 PROVE  j = k
      OBVIOUS
    <3>1. ks[j] \in Range(ks) /\ ks[k] \in Range(ks)
      BY <1>1, <1>2
    <3>2. ks[j].id = ks[k].id
      BY <1>4, <3>1
    <3>3. QED
      BY <3>2 DEF ValidKeys, Distinct
  <2>3. \A j \in DOMAIN ks : /\ RenderedKey(ks[j]) \in S
                             /\ KeyFile(RenderedKey(ks[j])) = ks[j].url.file
    BY <1>1, <1>2, <1>4
  <2>4. \A x \in S : \E j \in DOMAIN ks : x = RenderedKey(ks[j])
    BY <1>1, <1>2
  <2>5. (\A x, y \in S : KeyFile(x) = KeyFile(y) => x = y)
          <=> \A j, k \in DOMAIN ks : ks[j].url.file = ks[k].url.file => j = k
    <3>1. ASSUME \A x, y \in S : KeyFile(x) = KeyFile(y) => x = y,
                 NEW j \in DOMAIN ks, NEW k \in DOMAIN ks, ks[j].url.file = ks[k].url.file
          PROVE  j = k
      <4>1. RenderedKey(ks[j]) = RenderedKey(ks[k])
        BY <2>3, <3>1
      <4>2. QED
        BY <2>2, <4>1
    <3>2. ASSUME \A j, k \in DOMAIN ks : ks[j].url.file = ks[k].url.file => j = k,
                 NEW x \in S, NEW y \in S, KeyFile(x) = KeyFile(y)
          PROVE  x = y
      <4>1. PICK j \in DOMAIN ks, k \in DOMAIN ks :
              x = RenderedKey(ks[j]) /\ y = RenderedKey(ks[k])
        BY <2>4
      <4>2. ks[j].url.file = ks[k].url.file
        BY <2>3, <3>2, <4>1
      <4>3. QED
        BY <3>2, <4>1, <4>2
    <3>3. QED
      BY <3>1, <3>2
  <2>6. QED
    BY <2>1, <2>5
<1>10. (\A k \in Range(keys) : KeyFile(k) \in SafeNames)
         <=> \A k \in Range(ks) : k.url.file \in SafeNames
  BY <1>4, <1>5
<1>11. \A k \in Range(keys) :
         ApprovedUrl(k.url) /\ k.digest # Malformed /\ k.fingerprint \in Fingerprints
  BY <1>4, <1>5 DEF ValidKeys
<1>12. {k.fingerprint : k \in Range(keys)} = {k.fingerprint : k \in Range(ks)}
  BY <1>4, <1>5
<1>13. QED
  BY <1>7, <1>8, <1>9, <1>10, <1>11, <1>12 DEF ValidKeys, Placeable

(* Of a file dnf left, the row is right but for what the file itself is.   *)
LEMMA RowAccepted ==
  ASSUME NEW a \in Archs, NEW i, NEW packages, NEW sources, NEW keys, NEW f,
         \E k \in Range(keys) : k.fingerprint = Row(f, i.keys).fingerprint
  PROVE  ValidPackage(Row(f, i.keys), Rendered(a, i, packages, sources, keys)) <=>
           Fitting(f, a, i)
<1> DEFINE p == Row(f, i.keys)
           l == Rendered(a, i, packages, sources, keys)
           m == Meta[f.content]
<1>1. /\ l.architecture = a /\ l.keys = keys
      /\ l.postgresql = i.postgresql /\ l.rpm = i.rpm
  BY DEF Rendered
<1>2. /\ p.name = m.name /\ p.epoch = m.epoch /\ p.version = m.version /\ p.release = m.release
      /\ p.architecture = m.architecture /\ p.nevra = Nevra(p)
      /\ p.filename = f.name /\ p.digest = f.content /\ p.source = m.source
  BY DEF Row, Nevra
<1>3. /\ ApprovedUrl(p.url)
      /\ IF m.name \in PgNames THEN p.repository = "pgdg-18" /\ p.url.host = PgHost
                               ELSE p.repository = "ubi" /\ p.url.host = UbiHost
  BY DEF Row, ApprovedUrl, Hosts
<1>4. QED
  BY <1>1, <1>2, <1>3 DEF ValidPackage, Fitting

LEMMA SourceAccepted ==
  ASSUME NEW f
  PROVE  /\ ValidSource(SourceRow(f)) <=> f \in SrpmNames /\ f # Malformed
         /\ SourceRow(f).filename = f
  BY DEF SourceRow, ValidSource, ApprovedUrl, Hosts

Rows(files, keys) == {Row(f, keys) : f \in files}

(* The rows of the files, sorted, one for each file.                       *)
LEMMA PackagesListed ==
  ASSUME NEW ks, NEW files, IsFiniteSet(files),
         \A f \in files : f = File(f.name, f.content),
         NEW packages \in Arranged(Rows(files, ks), "nevra")
  PROVE  /\ Range(packages) = Rows(files, ks)
         /\ Sorted(packages, "nevra")
         /\ {p.source : p \in Range(packages)} = {Meta[f.content].source : f \in files}
         /\ {p.name : p \in Range(packages)} = {Meta[f.content].name : f \in files}
         /\ Distinct(packages, "filename") /\ Distinct(packages, "nevra") <=> NoneTwice(files)
<1> DEFINE S == Rows(files, ks)
           row == [f \in files |-> Row(f, ks)]
<1>1. IsFiniteSet(S)
  <2>1. row \in Surjection(files, S)
    BY DEF Surjection, Rows
  <2>2. QED
    BY <2>1, FS_Surjection
<1>2. Range(packages) = S /\ Sorted(packages, "nevra")
  BY <1>1, ArrangedOnce
<1>3. \A f \in files :
        /\ Row(f, ks).name = Meta[f.content].name
        /\ Row(f, ks).source = Meta[f.content].source
        /\ Row(f, ks).filename = f.name /\ Row(f, ks).digest = f.content
        /\ Row(f, ks).nevra = Nevra(Meta[f.content])
  BY DEF Row
<1>4. \A f, g \in files : Row(f, ks) = Row(g, ks) => f = g
  <2> TAKE f, g \in files
  <2> HAVE Row(f, ks) = Row(g, ks)
  <2>1. f.name = g.name /\ f.content = g.content
    BY <1>3
  <2>2. QED
    BY <2>1
<1>5. /\ Distinct(packages, "filename") <=> \A f, g \in files : f.name = g.name => f = g
      /\ Distinct(packages, "nevra") <=>
           \A f, g \in files : Nevra(Meta[f.content]) = Nevra(Meta[g.content]) => f = g
  <2>1. /\ Distinct(packages, "filename") <=>
             \A x, y \in S : x.filename = y.filename => x = y
        /\ Distinct(packages, "nevra") <=> \A x, y \in S : x.nevra = y.nevra => x = y
    BY <1>1, ArrangedDistinct
  <2>2. QED
    BY <1>3, <1>4, <2>1 DEF Rows
<1>6. /\ {p.source : p \in Range(packages)} = {Meta[f.content].source : f \in files}
      /\ {p.name : p \in Range(packages)} = {Meta[f.content].name : f \in files}
  BY <1>2, <1>3 DEF Rows
<1>7. QED
  BY <1>2, <1>5, <1>6 DEF NoneTwice

LEMMA SourcesAccepted ==
  ASSUME NEW files, IsFiniteSet(files),
         NEW sources \in Arranged({SourceRow(Meta[f.content].source) : f \in files}, "filename")
  PROVE  /\ (\A s \in Range(sources) : ValidSource(s)) <=>
              \A f \in files : /\ Meta[f.content].source \in SrpmNames
                               /\ Meta[f.content].source # Malformed
         /\ Distinct(sources, "filename") /\ Sorted(sources, "filename")
         /\ {s.filename : s \in Range(sources)} = {Meta[f.content].source : f \in files}
<1> DEFINE S == {SourceRow(Meta[f.content].source) : f \in files}
           row == [f \in files |-> SourceRow(Meta[f.content].source)]
<1>1. IsFiniteSet(S)
  <2>1. row \in Surjection(files, S)
    BY DEF Surjection
  <2>2. QED
    BY <2>1, FS_Surjection
<1>2. Range(sources) = S /\ Sorted(sources, "filename")
  BY <1>1, ArrangedOnce
<1>3. \A x, y \in S : x.filename = y.filename => x = y
  BY SourceAccepted
<1>4. Distinct(sources, "filename")
  BY <1>1, <1>3, ArrangedDistinct
<1>5. (\A s \in Range(sources) : ValidSource(s)) <=>
        \A f \in files : ValidSource(SourceRow(Meta[f.content].source))
  BY <1>2
<1>6. {s.filename : s \in Range(sources)} = {Meta[f.content].source : f \in files}
  <2>1. \A f \in files :
          SourceRow(Meta[f.content].source).filename = Meta[f.content].source
    BY SourceAccepted
  <2>2. QED
    BY <1>2, <2>1
<1>7. QED
  BY <1>2, <1>4, <1>5, <1>6, SourceAccepted

(* For whatever dnf left in the directory, render-lock.py writes a lock    *)
(* that validate_lock accepts exactly when the files themselves are        *)
(* acceptable and the URLs of the reviewed keys end in different, safe     *)
(* names (which valid inputs ensure only of keys without a filename): the  *)
(* rows, bases and sources it adds are never the reason for a refusal, and *)
(* never hide one.                                                         *)
THEOREM RenderAccepted ==
  ASSUME NEW a \in Archs, NEW i, ValidInputs(i), NEW K, i.keys \in Seq(K),
         NEW files, IsFiniteSet(files),
         \A f \in files : f = File(f.name, f.content),
         \A f \in files : OneKey(Meta[f.content].keyId, i.keys),
         NEW packages \in Arranged({Row(f, i.keys) : f \in files}, "nevra"),
         NEW sources \in Arranged({SourceRow(Meta[f.content].source) : f \in files}, "filename"),
         NEW keys \in Arranged({RenderedKey(k) : k \in Range(i.keys)}, "id"),
         Rendered(a, i, packages, sources, keys) # Garbage
  PROVE  ValidLock(Rendered(a, i, packages, sources, keys)) <=>
           Acceptable(files, a, i) /\ Placeable(i.keys)
<1> DEFINE l == Rendered(a, i, packages, sources, keys)
<1>1. /\ ValidKeys(keys) <=> Placeable(i.keys)
      /\ {k.fingerprint : k \in Range(keys)} = {k.fingerprint : k \in Range(i.keys)}
  BY KeysAccepted DEF ValidInputs
<1>2. \A f \in files : \E k \in Range(keys) : k.fingerprint = Row(f, i.keys).fingerprint
  <2> TAKE f \in files
  <2>1. PICK g \in Selected(i.keys, Meta[f.content].keyId) :
          Selected(i.keys, Meta[f.content].keyId) = {g}
    BY DEF OneKey
  <2>2. Row(f, i.keys).fingerprint = g
    BY <2>1 DEF Row
  <2>3. \E k \in Range(i.keys) : k.fingerprint = g
    BY <2>1 DEF Selected
  <2>4. QED
    BY <1>1, <2>2, <2>3
<1>3. /\ l.architecture = a /\ l.keys = keys
      /\ l.packages = packages /\ l.sources = sources
      /\ \A role \in Roles : l.bases[role] = [reference |-> i.bases[role],
                               digest |-> i.bases[role].digest, platform |-> a]
  BY DEF Rendered
<1>4. \A role \in Roles :
        /\ ApprovedBase(l.bases[role].reference, role)
        /\ l.bases[role].digest = l.bases[role].reference.digest
        /\ l.bases[role].platform = l.architecture
  <2> TAKE role \in Roles
  <2>1. ApprovedBase(i.bases[role], role)
    BY DEF ValidInputs
  <2>2. /\ l.bases[role].reference = i.bases[role]
        /\ l.bases[role].digest = i.bases[role].digest /\ l.bases[role].platform = a
    BY DEF Rendered
  <2>3. QED
    BY <1>3, <2>1, <2>2
<1>5. /\ Range(packages) = Rows(files, i.keys)
      /\ Sorted(packages, "nevra")
      /\ {p.source : p \in Range(packages)} = {Meta[f.content].source : f \in files}
      /\ {p.name : p \in Range(packages)} = {Meta[f.content].name : f \in files}
      /\ Distinct(packages, "filename") /\ Distinct(packages, "nevra") <=> NoneTwice(files)
  <2>1. packages \in Arranged(Rows(files, i.keys), "nevra")
    BY DEF Rows
  <2>2. QED
    BY <2>1, PackagesListed
<1>6. /\ Distinct(sources, "filename") /\ Sorted(sources, "filename")
      /\ {s.filename : s \in Range(sources)} = {Meta[f.content].source : f \in files}
  BY SourcesAccepted
<1>7. Contents(l) <=> Required \subseteq {Meta[f.content].name : f \in files}
  <2>1. ASSUME Required \subseteq {Meta[f.content].name : f \in files}
        PROVE  packages # <<>> /\ sources # <<>>
    <3>1. PICK f \in files : TRUE
      BY <2>1 DEF Required
    <3>2. /\ Meta[f.content].name \in {p.name : p \in Range(packages)}
          /\ Meta[f.content].source \in {s.filename : s \in Range(sources)}
      BY <1>5, <1>6, <3>1
    <3>3. Range(packages) # {} /\ Range(sources) # {}
      BY <3>2
    <3>4. QED
      BY <3>3 DEF Range
  <2>2. QED
    BY <1>3, <1>5, <1>6, <2>1 DEF Contents
<1>8. (\A s \in Range(sources) : ValidSource(s)) <=>
        \A f \in files : /\ Meta[f.content].source \in SrpmNames
                         /\ Meta[f.content].source # Malformed
  BY SourcesAccepted
<1>9. (\A p \in Range(packages) : ValidPackage(p, l)) <=> \A f \in files : Fitting(f, a, i)
  <2>1. \A f \in files : ValidPackage(Row(f, i.keys), l) <=> Fitting(f, a, i)
    BY <1>2, RowAccepted
  <2>2. QED
    BY <1>5, <2>1 DEF Rows
<1>10. ValidLock(l) <=>
         /\ ValidKeys(keys)
         /\ \A p \in Range(packages) : ValidPackage(p, l)
         /\ Distinct(packages, "filename") /\ Distinct(packages, "nevra")
         /\ \A s \in Range(sources) : ValidSource(s)
         /\ Contents(l)
  BY <1>3, <1>4, <1>5, <1>6 DEF ValidLock
<1>11. Acceptable(files, a, i) <=>
         /\ (\A f \in files : Fitting(f, a, i)) /\ NoneTwice(files)
         /\ \A f \in files : Meta[f.content].source # Malformed
         /\ Required \subseteq {Meta[f.content].name : f \in files}
  BY DEF Acceptable
<1>12. \A f \in files : Fitting(f, a, i) => Meta[f.content].source \in SrpmNames
  BY DEF Fitting
<1>13. QED
  BY <1>1, <1>5, <1>7, <1>8, <1>9, <1>10, <1>11, <1>12

=============================================================================
