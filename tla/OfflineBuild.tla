---------------------------- MODULE OfflineBuild ----------------------------
(***************************************************************************)
(* scripts/build-offline.sh and the first steps of the Containerfile: the  *)
(* builds of one host, each in one of its checkouts of the repository.     *)
(* The acquisition of a build is a run of BundleAcquire, with the name of  *)
(* the build.  Builds share the tags localhost/postgresql-ubi-builder      *)
(* :locked and ...-runtime:locked; those of one checkout also share the    *)
(* lock file and the bundle directory.  What a lock determines beside its  *)
(* files (the signer, the base images) is represented by its content.      *)
(***************************************************************************)
EXTENDS BundleAcquire

VARIABLES tags,       \* the lock whose base image each of the two tags names
          step,       \* the next command of a build
          arg,        \* the arguments a build has read from the lock
          copied,     \* what the builder stage has of the bundle so far
          image,      \* the image a build has made, or None
          edited,     \* (history) the builds during which their lock was edited
          disturbed,  \* (history) ... came back, or their bundle was removed
          overlapped  \* (history) ... another build of the host ran

script == <<step, arg, copied, image>>
builds == <<tags, script, edited, disturbed, overlapped>>
allVars == <<vars, builds>>

Content == Versions \cup {None}
Roles == {"builder", "runtime"}
Args == [sha: Content, signer: Content, builder: Content, runtime: Content]
Copies == [sha: Content, files: Seq(Files) \cup {None}]
Image == [packages: Seq(Files), sha: Versions, signer: Versions,
          builder: Versions, runtime: Versions]

Steps == {"acquire", "keys", "digest", "signer", "builder", "runtime",
          "tagBuilder", "tagRuntime", "build"}

BuildTypeOK == /\ TypeOK
               /\ tags \in [Roles -> Content]
               /\ step \in [Runs -> Steps \cup {"off"}]
               /\ arg \in [Runs -> Args]
               /\ copied \in [Runs -> Copies]
               /\ image \in [Runs -> Image \cup {None}]
               /\ edited \subseteq Runs
               /\ disturbed \subseteq Runs
               /\ overlapped \subseteq Runs

NoArgs == [sha |-> None, signer |-> None, builder |-> None, runtime |-> None]
NoCopies == [sha |-> None, files |-> None]

BuildInit == /\ Init
             /\ tags = [t \in Roles |-> None]
             /\ step = [b \in Runs |-> "off"]
             /\ arg = [b \in Runs |-> NoArgs]
             /\ copied = [b \in Runs |-> NoCopies]
             /\ image = [b \in Runs |-> None]
             /\ edited = {}
             /\ disturbed = {}
             /\ overlapped = {}

Building == {b \in Runs : step[b] # "off"}
BuildingIn(c) == {b \in Building : Dir[b] = c}

To(b, l) == step' = [step EXCEPT ![b] = l]

(* The script ends, with the image made.                                   *)
Exit(b, made) == /\ To(b, "off")
                 /\ arg' = [arg EXCEPT ![b] = NoArgs]
                 /\ copied' = [copied EXCEPT ![b] = NoCopies]
                 /\ image' = [image EXCEPT ![b] = made]

-----------------------------------------------------------------------------
(* Others.                                                                 *)

EditLock(c) == /\ Edit(c)
               /\ edited' = edited \cup BuildingIn(c)
               /\ disturbed' = disturbed \cup returned'
               /\ UNCHANGED <<tags, script, overlapped>>

ClearBundle(c) == /\ Clear(c)
                  /\ disturbed' = disturbed \cup BuildingIn(c)
                  /\ UNCHANGED <<tags, script, edited, overlapped>>

-----------------------------------------------------------------------------
(* build-offline.sh.  set -e: any command may fail and ends the build, and *)
(* so does an acquire that refuses the lock at once.                       *)

CommandFails(b) == /\ step[b] \in Steps /\ pc[b] = "ended"
                   /\ Exit(b, None)
                   /\ UNCHANGED <<vars, tags, edited, disturbed, overlapped>>

(* test ! -e "${bundle}"                                                   *)
Begin(b) == /\ step[b] = "off"
            /\ Out(b) = None
            /\ To(b, "acquire")
            /\ image' = [image EXCEPT ![b] = None]
            /\ edited' = edited \ {b}
            /\ disturbed' = disturbed \ {b}
            /\ overlapped' = IF Building = {} THEN overlapped \ {b}
                             ELSE overlapped \cup Building \cup {b}
            /\ UNCHANGED <<vars, tags, arg, copied>>

(* python3 scripts/artifacts.py acquire: one run of it.  Its exit status   *)
(* says whether it has renamed a bundle into place.                        *)
Acquire(b) ==
  /\ step[b] = "acquire"
  /\ ValidateLock(b) \/ Step(b) \/ Kill(b)
  /\ \/ pc'[b] # "ended" /\ UNCHANGED script
     \/ pc'[b] = "ended" /\ out' # out /\ To(b, "keys") /\ UNCHANGED <<arg, copied, image>>
     \/ pc'[b] = "ended" /\ out' = out /\ Exit(b, None)
  /\ UNCHANGED <<tags, edited, disturbed, overlapped>>

(* The keys of the bundle as it is now against its own key manifest.       *)
VerifyKeyFingerprints(b) ==
  /\ step[b] = "keys"
  /\ Out(b) # None
  /\ To(b, "digest")
  /\ UNCHANGED <<vars, tags, arg, copied, image, edited, disturbed, overlapped>>

(* lock_sha, postgresql_signer, builder and runtime_base each read the     *)
(* lock file anew.                                                         *)
Read(b, at, field, next) ==
  /\ step[b] = at
  /\ arg' = [arg EXCEPT ![b][field] = Lock(b)]
  /\ To(b, next)
  /\ UNCHANGED <<vars, tags, copied, image, edited, disturbed, overlapped>>

HashLock(b) == Read(b, "digest", "sha", "signer")
ReadSigner(b) == Read(b, "signer", "signer", "builder")

(* Mutant: the runtime base is not read from the lock.                     *)
ReadBuilderOnly(b) == Read(b, "builder", "builder", "tagBuilder")

ReadBuilder(b) == Read(b, "builder", "builder", "runtime")
ReadRuntime(b) == Read(b, "runtime", "runtime", "tagBuilder")

(* Both bases are pulled by digest, then tagged, the builder first.        *)
TagBuilder(b) ==
  /\ step[b] = "tagBuilder"
  /\ tags' = [tags EXCEPT !["builder"] = arg[b].builder]
  /\ To(b, "tagRuntime")
  /\ UNCHANGED <<vars, arg, copied, image, edited, disturbed, overlapped>>

(* Mutant: a base that is tagged already is not tagged again.              *)
TagRuntimeOnce(b) ==
  /\ step[b] = "tagRuntime"
  /\ tags' = [tags EXCEPT !["runtime"] = IF @ = None THEN arg[b].runtime ELSE @]
  /\ To(b, "build")
  /\ UNCHANGED <<vars, arg, copied, image, edited, disturbed, overlapped>>

TagRuntime(b) ==
  /\ step[b] = "tagRuntime"
  /\ tags' = [tags EXCEPT !["runtime"] = arg[b].runtime]
  /\ To(b, "build")
  /\ UNCHANGED <<vars, arg, copied, image, edited, disturbed, overlapped>>

(* COPY of the bundle: file by file, out of the directory as it is then.   *)
(* LOCK-SHA256 and the files with their manifests come in either order.    *)
CopyRecord(b) ==
  /\ step[b] = "build" /\ copied[b].sha = None
  /\ Out(b) # None
  /\ copied' = [copied EXCEPT ![b].sha = Out(b).sha]
  /\ UNCHANGED <<vars, tags, step, arg, image, edited, disturbed, overlapped>>

CopyFiles(b) ==
  /\ step[b] = "build" /\ copied[b].files = None
  /\ Out(b) # None
  /\ copied' = [copied EXCEPT ![b].files = Out(b).files]
  /\ UNCHANGED <<vars, tags, step, arg, image, edited, disturbed, overlapped>>

(* What the build makes of its arguments, the bundle and the tags.         *)
Assembled(b) == [packages |-> copied[b].files, sha |-> arg[b].sha,
                 signer |-> arg[b].signer, builder |-> tags["builder"],
                 runtime |-> tags["runtime"]]

(* Mutant: the Containerfile does not compare LOCK-SHA256.                 *)
BuildUnchecked(b) ==
  /\ step[b] = "build" /\ copied[b].sha # None /\ copied[b].files # None
  /\ Exit(b, Assembled(b))
  /\ UNCHANGED <<vars, tags, edited, disturbed, overlapped>>

(* The builder stage compares LOCK-SHA256 with the digest it was given and *)
(* installs the packages it has copied; bases are taken by tag.            *)
Build(b) ==
  /\ step[b] = "build" /\ copied[b].files # None
  /\ copied[b].sha = arg[b].sha
  /\ Exit(b, Assembled(b))
  /\ UNCHANGED <<vars, tags, edited, disturbed, overlapped>>

BuildStep(b) == \/ Begin(b) \/ Acquire(b) \/ VerifyKeyFingerprints(b)
                \/ HashLock(b) \/ ReadSigner(b) \/ ReadBuilder(b)
                \/ ReadRuntime(b) \/ TagBuilder(b) \/ TagRuntime(b)
                \/ CopyRecord(b) \/ CopyFiles(b) \/ Build(b) \/ CommandFails(b)

BuildNext == \/ \E c \in Checkouts : EditLock(c) \/ ClearBundle(c)
             \/ \E b \in Runs : BuildStep(b)

BuildSpec == BuildInit /\ [][BuildNext]_allVars

-----------------------------------------------------------------------------
(* Properties.                                                             *)

Built(b) == image[b] # None

(* The packages of an image are the files of the lock whose digest it is   *)
(* labelled with, although acquire and the build read the lock five times  *)
(* while it is edited, the bundle is copied file by file, and other builds *)
(* of the checkout acquire theirs: unless somebody removed the bundle      *)
(* while the build ran, or brought a content of the lock back while the    *)
(* acquisition ran.                                                        *)
PackagesMatchLabel ==
  \A b \in Runs \ disturbed : Built(b) =>
    image[b].sha \in Valid /\ image[b].packages = Inventory[image[b].sha]

(* All of an image comes from the lock it is labelled with (the packages,  *)
(* the signer of the label and both base images), if no other build of the *)
(* host ran meanwhile and its lock stayed as it was: whatever earlier      *)
(* builds, of this or of other locks, left in the tags.                    *)
ImageMatchesLock ==
  \A b \in Runs \ (overlapped \cup edited) : Built(b) =>
    /\ image[b].sha \in Valid
    /\ image[b].packages = Inventory[image[b].sha]
    /\ image[b].signer = image[b].sha
    /\ image[b].builder = image[b].sha
    /\ image[b].runtime = image[b].sha

(* The base images are those of the lock the image is labelled with        *)
(* (docs/ARTIFACT-ACQUISITION.md: the base-image digests are verified      *)
(* before assembly), whatever other builds of the host do.                 *)
BasesMatchLabel ==
  \A b \in Runs \ edited : Built(b) =>
    image[b].builder = image[b].sha /\ image[b].runtime = image[b].sha

=============================================================================
