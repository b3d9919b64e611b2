---------------------------- MODULE BuildProofs -----------------------------
(***************************************************************************)
(* Proofs about OfflineBuild, for any builds, checkouts, contents of the   *)
(* locks and inventories: the types, that the packages of an image are     *)
(* those of the lock it is labelled with, and that the image of a build no *)
(* other one overlapped is all of one lock, if that lock stayed as it was. *)
(* What acquire promises comes from BundleProofs: every step of the builds *)
(* is a step of BundleAcquire.                                             *)
(***************************************************************************)
EXTENDS OfflineBuild, BundleProofs

USE CheckoutsAssumption
USE DEF local, history, Lock, Out, To, Steps, Roles, Content, Args, Copies,
        Image, Building, BuildingIn, builds, script

(* Everything a step may name, for the leaves that look at all of them.    *)
LEMMA BundleSteps ==
  ASSUME BuildTypeOK, [BuildNext]_allVars
  PROVE  [Next]_vars
<1>1. CASE UNCHANGED allVars
  BY <1>1 DEF allVars
<1>2. ASSUME NEW c \in Checkouts, EditLock(c) \/ ClearBundle(c) PROVE Next
  BY <1>2 DEF EditLock, ClearBundle, Next
<1>3. ASSUME NEW b \in Runs, BuildStep(b) PROVE [Next]_vars
  <2>1. CASE Acquire(b)
    BY <2>1 DEF Acquire, Next
  <2>2. CASE ~Acquire(b)
    <3>1. UNCHANGED vars
      BY <1>3, <2>2 DEF BuildStep, Begin, VerifyKeyFingerprints, HashLock,
         ReadSigner, ReadBuilder, ReadRuntime, Read, TagBuilder, TagRuntime,
         CopyRecord, CopyFiles, Build, CommandFails
    <3>2. QED
      BY <3>1
  <2>3. QED
    BY <2>1, <2>2
<1>4. QED
  BY <1>1, <1>2, <1>3 DEF BuildNext

(* A step of a build is none of another build, but that Begin may overlap  *)
(* it and Acquire may put a bundle where there was none.                   *)
LEMMA OtherBuilds ==
  ASSUME BuildTypeOK, NEW b \in Runs, BuildStep(b), NEW d \in Runs, d # b
  PROVE  /\ UNCHANGED <<lock, step[d], arg[d], copied[d], image[d], pc[d], seen[d]>>
         /\ d \in returned' <=> d \in returned
         /\ d \in edited' <=> d \in edited
         /\ d \in disturbed' <=> d \in disturbed
         /\ d \in overlapped => d \in overlapped'
<1> USE DEF BuildTypeOK
<1>1. CASE Acquire(b)
  <2>1. /\ UNCHANGED <<lock, pc[d], seen[d]>>
        /\ d \in returned' <=> d \in returned
    BY <1>1, OtherRuns DEF Acquire
  <2>2. QED
    BY <1>1, <2>1 DEF Acquire, Exit
<1>2. CASE Begin(b)
  BY <1>2 DEF Begin, vars
<1>3. CASE HashLock(b) \/ ReadSigner(b) \/ ReadBuilder(b) \/ ReadRuntime(b)
  BY <1>3 DEF HashLock, ReadSigner, ReadBuilder, ReadRuntime, Read, vars
<1>4. CASE VerifyKeyFingerprints(b) \/ TagBuilder(b) \/ TagRuntime(b)
  BY <1>4 DEF VerifyKeyFingerprints, TagBuilder, TagRuntime, vars
<1>5. CASE CopyRecord(b) \/ CopyFiles(b) \/ Build(b) \/ CommandFails(b)
  BY <1>5 DEF CopyRecord, CopyFiles, Build, CommandFails, Exit, vars
<1>6. QED
  BY <1>1, <1>2, <1>3, <1>4, <1>5 DEF BuildStep

-----------------------------------------------------------------------------
(* Types.  An argument or a tag is only used once it is set, and nothing   *)
(* of the bundle is copied before the build.                               *)
SetInv(b) ==
  /\ step[b] \in {"signer", "builder", "runtime", "tagBuilder", "tagRuntime", "build"}
       => arg[b].sha \in Versions
  /\ step[b] \in {"builder", "runtime", "tagBuilder", "tagRuntime", "build"}
       => arg[b].signer \in Versions
  /\ step[b] \in {"runtime", "tagBuilder", "tagRuntime", "build"}
       => arg[b].builder \in Versions
  /\ step[b] \in {"tagBuilder", "tagRuntime", "build"} => arg[b].runtime \in Versions
  /\ step[b] \in {"tagRuntime", "build"} => tags["builder"] \in Versions
  /\ step[b] = "build" => tags["runtime"] \in Versions
  /\ step[b] # "build" => copied[b] = NoCopies
  /\ step[b] # "acquire" => pc[b] = "ended"

LEMMA ExitStep ==
  ASSUME BuildTypeOK, NEW b \in Runs, NEW made \in Image \cup {None}, Exit(b, made),
         UNCHANGED <<tags, edited, disturbed, overlapped>>, TypeOK',
         pc'[b] = "ended"
  PROVE  BuildTypeOK' /\ SetInv(b)'
<1>1. NoArgs \in Args /\ NoCopies \in Copies
  BY DEF NoArgs, NoCopies
<1>2. BuildTypeOK'
  BY <1>1 DEF BuildTypeOK, Exit
<1>3. step'[b] = "off" /\ copied'[b] = NoCopies
  BY DEF BuildTypeOK, Exit
<1>4. QED
  BY <1>2, <1>3 DEF SetInv

LEMMA ReadStep ==
  ASSUME BuildTypeOK, NEW b \in Runs, NEW at, NEW field \in DOMAIN NoArgs,
         NEW next \in Steps, Read(b, at, field, next)
  PROVE  /\ BuildTypeOK' /\ arg'[b][field] = Lock(b) /\ step'[b] = next
         /\ \A f \in DOMAIN NoArgs : f # field => arg'[b][f] = arg[b][f]
         /\ UNCHANGED <<lock, tags, copied, pc>> /\ step[b] = at
<1> USE DEF BuildTypeOK, Read, NoArgs
<1>1. UNCHANGED vars
  OBVIOUS
<1>2. TypeOK'
  BY <1>1 DEF TypeOK, vars
<1>3. Lock(b) \in Versions
  BY DEF TypeOK
<1>4. QED
  BY <1>1, <1>2, <1>3 DEF vars

LEMMA ReadSteps ==
  ASSUME BuildTypeOK, NEW b \in Runs, SetInv(b),
         HashLock(b) \/ ReadSigner(b) \/ ReadBuilder(b) \/ ReadRuntime(b)
  PROVE  BuildTypeOK' /\ SetInv(b)'
<1> DEFINE F == {"sha", "signer", "builder", "runtime"}
<1>0. DOMAIN NoArgs = F /\ Lock(b) \in Versions
  BY DEF NoArgs, BuildTypeOK, TypeOK
<1>1. CASE HashLock(b)
  <2>1. /\ BuildTypeOK' /\ arg'[b].sha = Lock(b) /\ step'[b] = "signer"
        /\ UNCHANGED <<tags, copied, pc>> /\ step[b] = "digest"
    BY <1>0, <1>1, ReadStep DEF HashLock
  <2>2. QED
    BY <1>0, <2>1 DEF SetInv
<1>2. CASE ReadSigner(b)
  <2>1. /\ BuildTypeOK' /\ arg'[b].signer = Lock(b) /\ step'[b] = "builder"
        /\ arg'[b].sha = arg[b].sha /\ UNCHANGED <<tags, copied, pc>>
        /\ step[b] = "signer"
    BY <1>0, <1>2, ReadStep DEF ReadSigner
  <2>2. QED
    BY <1>0, <2>1 DEF SetInv
<1>3. CASE ReadBuilder(b)
  <2>1. /\ BuildTypeOK' /\ arg'[b].builder = Lock(b) /\ step'[b] = "runtime"
        /\ arg'[b].sha = arg[b].sha /\ arg'[b].signer = arg[b].signer
        /\ UNCHANGED <<tags, copied, pc>> /\ step[b] = "builder"
    BY <1>0, <1>3, ReadStep DEF ReadBuilder
  <2>2. QED
    BY <1>0, <2>1 DEF SetInv
<1>4. CASE ReadRuntime(b)
  <2>1. /\ BuildTypeOK' /\ arg'[b].runtime = Lock(b) /\ step'[b] = "tagBuilder"
        /\ arg'[b].sha = arg[b].sha /\ arg'[b].signer = arg[b].signer
        /\ arg'[b].builder = arg[b].builder /\ UNCHANGED <<tags, copied, pc>>
        /\ step[b] = "runtime"
    BY <1>0, <1>4, ReadStep DEF ReadRuntime
  <2>2. QED
    BY <1>0, <2>1 DEF SetInv
<1>5. QED
  BY <1>1, <1>2, <1>3, <1>4

LEMMA BuildIsTyped ==
  ASSUME BuildTypeOK, NEW b \in Runs, SetInv(b), Build(b)
  PROVE  /\ Assembled(b) \in Image /\ Exit(b, Assembled(b)) /\ UNCHANGED vars
         /\ copied[b].sha = arg[b].sha /\ copied[b].sha # None
         /\ copied[b].files # None
<1>1. arg[b] \in Args /\ copied[b] \in Copies
  BY DEF BuildTypeOK
<1>2. /\ arg[b].sha \in Versions /\ arg[b].signer \in Versions
      /\ tags["builder"] \in Versions /\ tags["runtime"] \in Versions
      /\ copied[b].files \in Seq(Files) /\ copied[b].sha = arg[b].sha
      /\ copied[b].files # None
  BY <1>1 DEF SetInv, Build
<1>3. QED
  BY <1>2, AbsenceAssumption DEF Build, Assembled

LEMMA OwnTypes ==
  ASSUME BuildTypeOK, TypeOK', NEW b \in Runs, SetInv(b), BuildStep(b)
  PROVE  BuildTypeOK' /\ SetInv(b)'
<1> USE DEF BuildTypeOK
<1>1. CASE Begin(b)
  BY <1>1 DEF Begin, SetInv, vars
<1>2. CASE Acquire(b)
  <2>1. CASE Exit(b, None) /\ pc'[b] = "ended"
    BY <1>2, <2>1, ExitStep DEF Acquire
  <2>2. CASE UNCHANGED script
    BY <1>2, <2>2 DEF Acquire, SetInv
  <2>3. CASE pc'[b] = "ended" /\ To(b, "keys") /\ UNCHANGED <<arg, copied, image>>
    BY <1>2, <2>3 DEF Acquire, SetInv
  <2>4. QED
    BY <1>2, <2>1, <2>2, <2>3 DEF Acquire
<1>3. CASE VerifyKeyFingerprints(b)
  BY <1>3 DEF VerifyKeyFingerprints, SetInv, vars
<1>4. CASE HashLock(b) \/ ReadSigner(b) \/ ReadBuilder(b) \/ ReadRuntime(b)
  BY <1>4, ReadSteps
<1>5. CASE TagBuilder(b)
  BY <1>5 DEF TagBuilder, SetInv, vars
<1>6. CASE TagRuntime(b)
  BY <1>6 DEF TagRuntime, SetInv, vars
<1>7. CASE CopyRecord(b) \/ CopyFiles(b)
  <2>1. Out(b) \in Bundle
    BY <1>7 DEF CopyRecord, CopyFiles, TypeOK
  <2>2. Out(b).sha \in Versions /\ Out(b).files \in Seq(Files)
    BY <2>1 DEF Bundle
  <2>3. QED
    BY <1>7, <2>2 DEF CopyRecord, CopyFiles, SetInv, vars
<1>8. CASE Build(b)
  <2>1. Assembled(b) \in Image /\ Exit(b, Assembled(b)) /\ UNCHANGED vars
    BY <1>8, BuildIsTyped
  <2>2. pc'[b] = "ended"
    BY <1>8, <2>1 DEF Build, SetInv, vars
  <2>3. QED
    BY <1>8, <2>1, <2>2, ExitStep DEF Build
<1>9. CASE CommandFails(b)
  BY <1>9, ExitStep DEF CommandFails, vars
<1>10. QED
  BY <1>1, <1>2, <1>3, <1>4, <1>5, <1>6, <1>7, <1>8, <1>9 DEF BuildStep

LEMMA OtherTypes ==
  ASSUME BuildTypeOK, NEW b \in Runs, SetInv(b), BuildStep(b),
         NEW d \in Runs, d # b, SetInv(d)
  PROVE  SetInv(d)'
<1>1. UNCHANGED <<step[d], arg[d], copied[d], pc[d]>>
  BY OtherBuilds
<1>2. \A t \in Roles : tags[t] \in Versions => tags'[t] \in Versions
  BY DEF BuildTypeOK, BuildStep, Begin, Acquire, VerifyKeyFingerprints, HashLock,
     ReadSigner, ReadBuilder, ReadRuntime, Read, TagBuilder, TagRuntime,
     CopyRecord, CopyFiles, Build, CommandFails, SetInv
<1>3. QED
  BY <1>1, <1>2 DEF SetInv

TypeInv == BuildTypeOK /\ AcquireInv /\ \A b \in Runs : SetInv(b)

LEMMA TypeStep == TypeInv /\ [BuildNext]_allVars => TypeInv'
<1> SUFFICES ASSUME TypeInv, [BuildNext]_allVars PROVE TypeInv'
  OBVIOUS
<1> USE DEF TypeInv
<1>1. TypeOK' /\ AcquireInv'
  BY BundleSteps, NextSafe DEF BuildTypeOK
<1>2. CASE UNCHANGED allVars
  BY <1>1, <1>2 DEF allVars, vars, BuildTypeOK, SetInv
<1>3. ASSUME NEW c \in Checkouts, EditLock(c)
      PROVE  BuildTypeOK' /\ \A b \in Runs : SetInv(b)'
  <2>1. UNCHANGED <<pc, tags, step, arg, copied, image, overlapped>>
        /\ edited' = edited \cup BuildingIn(c) /\ disturbed' = disturbed \cup returned'
    BY <1>3 DEF EditLock, Edit
  <2>2. returned' \subseteq Runs
    BY <1>1 DEF TypeOK
  <2>3. QED
    BY <1>1, <2>1, <2>2 DEF BuildTypeOK, SetInv
<1>4. ASSUME NEW c \in Checkouts, ClearBundle(c)
      PROVE  BuildTypeOK' /\ \A b \in Runs : SetInv(b)'
  BY <1>1, <1>4 DEF ClearBundle, Clear, BuildTypeOK, SetInv
<1>5. ASSUME NEW b \in Runs, BuildStep(b)
      PROVE  BuildTypeOK' /\ \A d \in Runs : SetInv(d)'
  BY <1>1, <1>5, OwnTypes, OtherTypes
<1>6. QED
  BY <1>1, <1>2, <1>3, <1>4, <1>5 DEF BuildNext

LEMMA InitTypes == BuildInit => TypeInv
<1>1. NoArgs \in Args /\ NoCopies \in Copies
  BY DEF NoArgs, NoCopies
<1>2. QED
  BY <1>1, InitSafe DEF BuildInit, Init, TypeInv, BuildTypeOK, SetInv

LEMMA Types == BuildSpec => []TypeInv
  BY InitTypes, TypeStep, PTL DEF BuildSpec

(* The types hold in every reachable state: no build reaches the assembly  *)
(* with an argument, a base image or a copy it has not set.                *)
THEOREM BuildTypeCorrect == BuildSpec => []BuildTypeOK
<1>1. TypeInv => BuildTypeOK
  BY DEF TypeInv
<1>2. QED
  BY <1>1, Types, PTL

(* Whatever the builds of a host do, their acquisitions are runs of        *)
(* BundleAcquire, and the bundle directory of every checkout lives as      *)
(* AtomicAdmission says.                                                   *)
THEOREM BuildsAdmit == BuildSpec => ImplementsAdmission
<1>1. BuildInit => Init
  BY DEF BuildInit
<1>2. TypeInv /\ [BuildNext]_allVars => [Next]_vars
  BY BundleSteps DEF TypeInv
<1>3. BuildSpec => Spec
  BY <1>1, <1>2, Types, PTL DEF BuildSpec, Spec
<1>4. QED
  BY <1>3, AdmissionRefined

-----------------------------------------------------------------------------
(* The bundle of a build.                                                  *)
After == {"keys", "digest", "signer", "builder", "runtime", "tagBuilder",
          "tagRuntime", "build"}

Alone(b) == b \notin overlapped \cup edited
Tame(b) == b \notin disturbed \/ Alone(b)

(* The bundle directory, as far as it is there, and what has been copied   *)
(* out of it, are those of the content v.  Nobody but the operator removes *)
(* the directory.                                                          *)
Owns(b, v) ==
  /\ Out(b) # None => Out(b).sha = v /\ Out(b).files = Inventory[v]
  /\ b \notin disturbed => Out(b) # None
  /\ copied[b].sha # None => copied[b].sha = v
  /\ copied[b].files # None => copied[b].files = Inventory[v]

OwnInv(b) == step[b] \in After /\ Tame(b) => \E v \in Valid : Owns(b, v)

(* What a build that runs alone, with its lock unchanged, has read and     *)
(* tagged is the lock of its checkout.                                     *)
ReadInv(b) ==
  step[b] # "off" /\ Alone(b) =>
    /\ step[b] \in {"signer", "builder", "runtime", "tagBuilder", "tagRuntime", "build"}
         => arg[b].sha = Lock(b)
    /\ step[b] \in {"builder", "runtime", "tagBuilder", "tagRuntime", "build"}
         => arg[b].signer = Lock(b)
    /\ step[b] \in {"runtime", "tagBuilder", "tagRuntime", "build"}
         => arg[b].builder = Lock(b)
    /\ step[b] \in {"tagBuilder", "tagRuntime", "build"}
         => arg[b].runtime = Lock(b)
    /\ step[b] \in {"tagRuntime", "build"} => tags["builder"] = Lock(b)
    /\ step[b] = "build" => tags["runtime"] = Lock(b)

(* A running build that is not overlapped is the only one, and a content   *)
(* that comes back is an edit.                                             *)
HistoryInv(b) ==
  /\ b \in Building /\ b \notin overlapped => Building = {b}
  /\ b \in returned => b \in disturbed /\ b \in edited

ImageInv(b) ==
  Built(b) =>
    /\ Tame(b) => /\ image[b].sha \in Valid
                  /\ image[b].packages = Inventory[image[b].sha]
    /\ Alone(b) => /\ image[b].signer = image[b].sha
                   /\ image[b].builder = image[b].sha
                   /\ image[b].runtime = image[b].sha

BuildInv(b) == HistoryInv(b) /\ OwnInv(b) /\ ReadInv(b) /\ ImageInv(b)

LEMMA EditBuild ==
  ASSUME TypeInv, NEW c \in Checkouts, EditLock(c), NEW b \in Runs, BuildInv(b)
  PROVE  BuildInv(b)'
<1>1. /\ UNCHANGED <<out, tags, step, arg, copied, image, overlapped>>
      /\ edited' = edited \cup BuildingIn(c) /\ disturbed' = disturbed \cup returned'
  BY DEF EditLock, Edit
<1>2. Building' = Building
  BY <1>1
<1>3. CASE b \in BuildingIn(c)
  <2>1. b \in edited' /\ ~Alone(b)' /\ (Tame(b)' => b \notin disturbed /\ Tame(b))
    BY <1>1, <1>3 DEF Alone, Tame
  <2>2. HistoryInv(b)'
    BY <1>1, <1>2, <2>1 DEF BuildInv, HistoryInv
  <2>3. OwnInv(b)'
    BY <1>1, <2>1 DEF BuildInv, OwnInv, Owns
  <2>4. ReadInv(b)'
    BY <2>1 DEF ReadInv
  <2>5. ImageInv(b)'
    BY <1>1, <2>1 DEF BuildInv, ImageInv, Built
  <2>6. QED
    BY <2>2, <2>3, <2>4, <2>5 DEF BuildInv
<1>4. CASE b \notin BuildingIn(c)
  <2>1. b \in returned' <=> b \in returned
    <3>1. ~(Dir[b] = c /\ pc[b] \in Running)
      BY <1>4 DEF TypeInv, SetInv, Running, Guarded
    <3>2. QED
      BY <3>1 DEF EditLock, Edit
  <2>2. /\ b \in edited' <=> b \in edited
        /\ b \in disturbed' <=> b \in disturbed
    BY <1>1, <1>4, <2>1 DEF BuildInv, HistoryInv
  <2>3. step[b] # "off" => Lock(b)' = Lock(b)
    BY <1>4 DEF EditLock, Edit, TypeInv, BuildTypeOK, TypeOK
  <2>4. (Alone(b)' <=> Alone(b)) /\ (Tame(b)' <=> Tame(b))
    BY <1>1, <2>2 DEF Alone, Tame
  <2>5. HistoryInv(b)'
    BY <1>1, <1>2, <2>1, <2>2 DEF BuildInv, HistoryInv
  <2>6. OwnInv(b)'
    BY <1>1, <2>2, <2>4 DEF BuildInv, OwnInv, Owns
  <2>7. ReadInv(b)'
    BY <1>1, <2>3, <2>4 DEF BuildInv, ReadInv
  <2>8. ImageInv(b)'
    BY <1>1, <2>4 DEF BuildInv, ImageInv, Built
  <2>9. QED
    BY <2>5, <2>6, <2>7, <2>8 DEF BuildInv
<1>5. QED
  BY <1>3, <1>4

LEMMA ClearBuild ==
  ASSUME TypeInv, NEW c \in Checkouts, ClearBundle(c), NEW b \in Runs, BuildInv(b)
  PROVE  BuildInv(b)'
<1>1. /\ UNCHANGED <<lock, returned, tags, step, arg, copied, image, edited, overlapped>>
      /\ disturbed' = disturbed \cup BuildingIn(c)
      /\ out' = [out EXCEPT ![c] = None]
  BY DEF ClearBundle, Clear
<1>2. (Alone(b)' <=> Alone(b)) /\ (Tame(b)' => Tame(b))
  BY <1>1 DEF Alone, Tame
<1>3. OwnInv(b)'
  <2> SUFFICES ASSUME step[b] \in After, Tame(b)' PROVE \E v \in Valid : Owns(b, v)'
    BY <1>1 DEF OwnInv
  <2>1. PICK v \in Valid : Owns(b, v)
    BY <1>2 DEF BuildInv, OwnInv
  <2>2. CASE Dir[b] = c
    <3>1. Out(b)' = None /\ b \in disturbed'
      BY <1>1, <2>2 DEF TypeInv, BuildTypeOK, TypeOK, After
    <3>2. QED
      BY <1>1, <2>1, <3>1 DEF Owns
  <2>3. CASE Dir[b] # c
    <3>1. Out(b)' = Out(b) /\ (b \in disturbed' <=> b \in disturbed)
      BY <1>1, <2>3 DEF TypeInv, BuildTypeOK, TypeOK
    <3>2. QED
      BY <1>1, <2>1, <3>1 DEF Owns
  <2>4. QED
    BY <2>2, <2>3
<1>4. ReadInv(b)'
  BY <1>1, <1>2 DEF BuildInv, ReadInv
<1>5. HistoryInv(b)' /\ ImageInv(b)'
  BY <1>1, <1>2 DEF BuildInv, HistoryInv, ImageInv, Built
<1>6. QED
  BY <1>3, <1>4, <1>5 DEF BuildInv

(* An output directory only changes when acquire finds it absent.          *)
LEMMA OnlyAdmit ==
  ASSUME TypeInv, NEW d \in Runs, BuildStep(d), out' # out
  PROVE  /\ Acquire(d) /\ Admit(d) /\ Out(d) = None
         /\ out' = [out EXCEPT ![Dir[d]] = temp[d]] /\ pc'[d] = "ended"
<1>1. Acquire(d)
  BY DEF BuildStep, Begin, VerifyKeyFingerprints, HashLock, ReadSigner,
     ReadBuilder, ReadRuntime, Read, TagBuilder, TagRuntime, CopyRecord,
     CopyFiles, Build, CommandFails, vars
<1>2. Admit(d) /\ Out(d) = None
  BY <1>1, OutputStays DEF Acquire
<1>3. QED
  BY <1>1, <1>2 DEF Admit, End, Goto, TypeInv, BuildTypeOK, TypeOK

(* What a step of another build does to this one.                          *)
LEMMA OtherBuild ==
  ASSUME TypeInv, NEW d \in Runs, BuildStep(d),
         NEW b \in Runs, b # d, BuildInv(b)
  PROVE  BuildInv(b)'
<1>1. /\ UNCHANGED <<lock, step[b], arg[b], copied[b], image[b]>>
      /\ b \in returned' <=> b \in returned
      /\ b \in edited' <=> b \in edited
      /\ b \in disturbed' <=> b \in disturbed
      /\ b \in overlapped => b \in overlapped'
  BY OtherBuilds DEF TypeInv
<1>2. (Alone(b)' => Alone(b)) /\ (Tame(b)' => Tame(b))
  BY <1>1 DEF Alone, Tame
<1>3. b \in Building => b \in overlapped'
  <2>1. CASE Begin(d)
    BY <2>1 DEF Begin
  <2>2. CASE ~Begin(d)
    <3>1. d \in Building
      BY <2>2 DEF BuildStep, Acquire, VerifyKeyFingerprints, HashLock, ReadSigner,
         ReadBuilder, ReadRuntime, Read, TagBuilder, TagRuntime, CopyRecord,
         CopyFiles, Build, CommandFails
    <3>2. QED
      BY <1>1, <3>1 DEF BuildInv, HistoryInv
  <2>3. QED
    BY <2>1, <2>2
<1>4. HistoryInv(b)'
  BY <1>1, <1>3 DEF BuildInv, HistoryInv
<1>5. step[b] # "off" => ~Alone(b)'
  BY <1>3 DEF Alone
<1>6. ReadInv(b)'
  BY <1>1, <1>5 DEF ReadInv
<1>7. OwnInv(b)'
  <2> SUFFICES ASSUME step[b] \in After, Tame(b)' PROVE \E v \in Valid : Owns(b, v)'
    BY <1>1 DEF OwnInv
  <2>1. PICK v \in Valid : Owns(b, v)
    BY <1>2 DEF BuildInv, OwnInv
  <2>2. b \notin disturbed
    BY <1>1, <1>5 DEF Tame, After
  <2>3. Out(b)' = Out(b)
    <3>1. CASE out' = out
      BY <1>1, <3>1
    <3>2. CASE out' # out
      BY <2>1, <2>2, <3>2, OnlyAdmit DEF Owns, TypeInv, BuildTypeOK, TypeOK
    <3>3. QED
      BY <3>1, <3>2
  <2>4. QED
    BY <1>1, <2>1, <2>3 DEF Owns
<1>8. ImageInv(b)'
  BY <1>1, <1>2 DEF BuildInv, ImageInv, Built
<1>9. QED
  BY <1>4, <1>6, <1>7, <1>8 DEF BuildInv

(* Nothing comes back by a statement of acquire.                           *)
LEMMA NoReturn ==
  ASSUME TypeOK, NEW r \in Runs, ValidateLock(r) \/ Step(r) \/ Kill(r)
  PROVE  returned' \subseteq returned /\ UNCHANGED lock
<1>1. ASSUME NEW rest, End(r, rest) PROVE returned' \subseteq returned
  BY <1>1 DEF End
<1>2. CASE Fail(r) \/ Kill(r) \/ Admit(r)
  BY <1>1, <1>2 DEF Fail, Kill, Admit
<1>3. CASE ValidateLock(r) \/ MakeTemp(r)
  BY <1>1, <1>3 DEF ValidateLock, MakeTemp, Proceed
<1>4. CASE ~Fail(r) /\ (Fetch(r) \/ RetryOrRaise(r) \/ WriteRecords(r))
  BY <1>4 DEF Fetch, RetryOrRaise, WriteRecords, Proceed
<1>5. CASE ~Fail(r) /\ (VerifyFiles(r) \/ VerifyRecords(r))
  BY <1>5 DEF VerifyFiles, VerifyRecords, Proceed
<1>6. QED
  BY <1>2, <1>3, <1>4, <1>5 DEF Step, Raise, Fail, ValidateLock, Kill, MakeTemp, Admit

(* The end of a build, with an image that fits or with none.               *)
LEMMA ExitBuild ==
  ASSUME TypeInv, NEW b \in Runs, BuildInv(b), step[b] # "off",
         NEW made, Exit(b, made), UNCHANGED <<edited, disturbed, overlapped>>,
         returned' \subseteq returned,
         made # None =>
           /\ Tame(b) => made.sha \in Valid /\ made.packages = Inventory[made.sha]
           /\ Alone(b) => /\ made.signer = made.sha /\ made.builder = made.sha
                          /\ made.runtime = made.sha
  PROVE  BuildInv(b)'
<1>1. step'[b] = "off" /\ image'[b] = made
  BY DEF Exit, TypeInv, BuildTypeOK
<1>2. (Alone(b)' <=> Alone(b)) /\ (Tame(b)' <=> Tame(b))
  BY DEF Alone, Tame
<1>3. ImageInv(b)'
  BY <1>1, <1>2 DEF ImageInv, Built
<1>4. HistoryInv(b)'
  BY <1>1 DEF BuildInv, HistoryInv
<1>5. QED
  BY <1>1, <1>3, <1>4 DEF BuildInv, OwnInv, ReadInv, After

(* A command in the middle of the script.                                  *)
LEMMA MiddleBuild ==
  ASSUME TypeInv, NEW b \in Runs, BuildInv(b), step[b] # "off", step'[b] # "off",
         \A d \in Runs \ {b} : step'[d] = step[d],
         UNCHANGED <<edited, disturbed, overlapped, image>>,
         returned' \subseteq returned
  PROVE  /\ HistoryInv(b)' /\ ImageInv(b)'
         /\ (Alone(b)' <=> Alone(b)) /\ (Tame(b)' <=> Tame(b))
<1>1. (Alone(b)' <=> Alone(b)) /\ (Tame(b)' <=> Tame(b))
  BY DEF Alone, Tame
<1>2. Building' = Building
  OBVIOUS
<1>3. HistoryInv(b)'
  BY <1>2 DEF BuildInv, HistoryInv
<1>4. ImageInv(b)'
  BY <1>1 DEF BuildInv, ImageInv, Built
<1>5. QED
  BY <1>1, <1>3, <1>4

LEMMA AcquireBuild ==
  ASSUME TypeInv, NEW b \in Runs, BuildInv(b), Acquire(b)
  PROVE  BuildInv(b)'
<1>1. /\ step[b] = "acquire" /\ UNCHANGED <<tags, edited, disturbed, overlapped>>
      /\ returned' \subseteq returned /\ UNCHANGED lock
  BY NoReturn DEF Acquire, TypeInv, BuildTypeOK
<1>2. CASE Exit(b, None)
  BY <1>1, <1>2, ExitBuild
<1>3. CASE UNCHANGED script
  <2>1. HistoryInv(b)' /\ ImageInv(b)'
    BY <1>1, <1>3, MiddleBuild
  <2>2. step'[b] = "acquire"
    BY <1>1, <1>3
  <2>3. QED
    BY <2>1, <2>2 DEF BuildInv, OwnInv, ReadInv, After
<1>4. CASE out' # out /\ To(b, "keys") /\ UNCHANGED <<arg, copied, image>>
  <2>1. step'[b] = "keys" /\ \A d \in Runs \ {b} : step'[d] = step[d]
    BY <1>4 DEF TypeInv, BuildTypeOK
  <2>2. HistoryInv(b)' /\ ImageInv(b)' /\ (Tame(b)' <=> Tame(b))
    BY <1>1, <1>4, <2>1, MiddleBuild
  <2>3. Admit(b) /\ Out(b) = None /\ out' = [out EXCEPT ![Dir[b]] = temp[b]]
    BY <1>4, OnlyAdmit DEF BuildStep
  <2>4. TempInv(b)
    BY DEF TypeInv, AcquireInv
  <2>5. PICK v \in Valid :
          /\ temp[b] \in Bundle /\ temp[b].files = Inventory[v]
          /\ temp[b].sha = v \/ b \in returned
    BY <2>3, <2>4 DEF Admit, TempInv, Running, Guarded
  <2>6. Tame(b) => b \notin returned
    BY DEF BuildInv, HistoryInv, Tame, Alone
  <2>7. Out(b)' = temp[b] /\ copied'[b] = NoCopies
    BY <1>1, <1>4, <2>3 DEF TypeInv, BuildTypeOK, TypeOK, SetInv
  <2>8. Tame(b) => Owns(b, v)'
    <3>1. temp[b] # None
      BY <2>5, AbsenceAssumption DEF Bundle
    <3>2. ASSUME Tame(b)
          PROVE  Out(b)'.sha = v /\ Out(b)'.files = Inventory[v]
      BY <2>5, <2>6, <2>7, <3>2
    <3>3. copied'[b].sha = None /\ copied'[b].files = None
      BY <2>7 DEF NoCopies
    <3>4. QED
      BY <2>7, <3>1, <3>2, <3>3 DEF Owns
  <2>9. OwnInv(b)'
    BY <2>2, <2>5, <2>8 DEF OwnInv
  <2>10. ReadInv(b)'
    BY <2>1 DEF ReadInv
  <2>11. QED
    BY <2>2, <2>9, <2>10 DEF BuildInv
<1>5. QED
  BY <1>2, <1>3, <1>4 DEF Acquire

LEMMA BeginBuild ==
  ASSUME TypeInv, NEW b \in Runs, BuildInv(b), Begin(b)
  PROVE  BuildInv(b)'
<1>1. /\ step[b] = "off" /\ step' = [step EXCEPT ![b] = "acquire"]
      /\ image'[b] = None /\ UNCHANGED returned
      /\ b \notin overlapped' => Building = {}
  BY DEF Begin, TypeInv, BuildTypeOK, vars
<1>2. step'[b] = "acquire"
  BY <1>1 DEF TypeInv, BuildTypeOK
<1>3. b \notin returned
  BY <1>1 DEF TypeInv, AcquireInv, TempInv, SetInv
<1>4. HistoryInv(b)'
  <2>1. Building = {} => Building' = {b}
    BY <1>1, <1>2 DEF TypeInv, BuildTypeOK
  <2>2. QED
    BY <1>1, <1>3, <2>1 DEF HistoryInv
<1>5. QED
  BY <1>1, <1>2, <1>4 DEF BuildInv, OwnInv, ReadInv, ImageInv, Built, After

(* A command that leaves the bundle and its copies alone.                  *)
LEMMA OwnStays ==
  ASSUME NEW b \in Runs, OwnInv(b), step[b] \in After,
         UNCHANGED <<out, copied, disturbed>>, Tame(b)' <=> Tame(b)
  PROVE  OwnInv(b)'
BY DEF OwnInv, Owns

LEMMA ReadBuild ==
  ASSUME TypeInv, NEW b \in Runs, BuildInv(b),
         HashLock(b) \/ ReadSigner(b) \/ ReadBuilder(b) \/ ReadRuntime(b)
  PROVE  BuildInv(b)'
<1> USE DEF TypeInv
<1>1. /\ step[b] \in After /\ UNCHANGED <<vars, edited, disturbed, overlapped, image, copied, tags>>
      /\ \A d \in Runs \ {b} : step'[d] = step[d]
      /\ step'[b] \in After
  BY DEF HashLock, ReadSigner, ReadBuilder, ReadRuntime, Read, After, BuildTypeOK
<1>2. HistoryInv(b)' /\ ImageInv(b)' /\ (Alone(b)' <=> Alone(b)) /\ (Tame(b)' <=> Tame(b))
  BY <1>1, MiddleBuild DEF After, vars
<1>3. OwnInv(b)'
  BY <1>1, <1>2, OwnStays DEF BuildInv, vars
<1>4. ReadInv(b)'
  <2> DEFINE F == {"sha", "signer", "builder", "runtime"}
  <2>0. DOMAIN NoArgs = F /\ Lock(b)' = Lock(b)
    BY <1>1 DEF NoArgs, vars
  <2>1. CASE HashLock(b)
    <3>1. arg'[b].sha = Lock(b) /\ step'[b] = "signer"
      BY <2>0, <2>1, ReadStep DEF HashLock
    <3>2. QED
      BY <1>1, <1>2, <2>0, <3>1 DEF BuildInv, ReadInv
  <2>2. CASE ReadSigner(b)
    <3>1. /\ arg'[b].signer = Lock(b) /\ step'[b] = "builder"
          /\ arg'[b].sha = arg[b].sha /\ step[b] = "signer"
      BY <2>0, <2>2, ReadStep DEF ReadSigner
    <3>2. QED
      BY <1>1, <1>2, <2>0, <3>1 DEF BuildInv, ReadInv
  <2>3. CASE ReadBuilder(b)
    <3>1. /\ arg'[b].builder = Lock(b) /\ step'[b] = "runtime"
          /\ arg'[b].sha = arg[b].sha /\ arg'[b].signer = arg[b].signer
          /\ step[b] = "builder"
      BY <2>0, <2>3, ReadStep DEF ReadBuilder
    <3>2. QED
      BY <1>1, <1>2, <2>0, <3>1 DEF BuildInv, ReadInv
  <2>4. CASE ReadRuntime(b)
    <3>1. /\ arg'[b].runtime = Lock(b) /\ step'[b] = "tagBuilder"
          /\ arg'[b].sha = arg[b].sha /\ arg'[b].signer = arg[b].signer
          /\ arg'[b].builder = arg[b].builder /\ step[b] = "runtime"
      BY <2>0, <2>4, ReadStep DEF ReadRuntime
    <3>2. QED
      BY <1>1, <1>2, <2>0, <3>1 DEF BuildInv, ReadInv
  <2>5. QED
    BY <2>1, <2>2, <2>3, <2>4
<1>5. QED
  BY <1>2, <1>3, <1>4 DEF BuildInv

LEMMA PlainBuild ==
  ASSUME TypeInv, NEW b \in Runs, BuildInv(b),
         VerifyKeyFingerprints(b) \/ TagBuilder(b) \/ TagRuntime(b)
  PROVE  BuildInv(b)'
<1> USE DEF TypeInv, BuildTypeOK
<1>1. /\ step[b] \in After /\ UNCHANGED <<vars, edited, disturbed, overlapped, image, copied, arg>>
      /\ \A d \in Runs \ {b} : step'[d] = step[d]
      /\ step'[b] \in After
  BY DEF VerifyKeyFingerprints, TagBuilder, TagRuntime, After
<1>2. HistoryInv(b)' /\ ImageInv(b)' /\ (Alone(b)' <=> Alone(b)) /\ (Tame(b)' <=> Tame(b))
  BY <1>1, MiddleBuild DEF After, vars
<1>3. OwnInv(b)'
  BY <1>1, <1>2, OwnStays DEF BuildInv, vars
<1>4. ReadInv(b)'
  BY <1>1, <1>2 DEF VerifyKeyFingerprints, TagBuilder, TagRuntime, BuildInv,
     ReadInv, vars
<1>5. QED
  BY <1>2, <1>3, <1>4 DEF BuildInv

LEMMA CopyBuild ==
  ASSUME TypeInv, NEW b \in Runs, BuildInv(b), CopyRecord(b) \/ CopyFiles(b)
  PROVE  BuildInv(b)'
<1> USE DEF TypeInv, BuildTypeOK
<1>1. /\ step[b] = "build" /\ Out(b) # None
      /\ UNCHANGED <<vars, edited, disturbed, overlapped, image, arg, step, tags>>
  BY DEF CopyRecord, CopyFiles
<1>2. HistoryInv(b)' /\ ImageInv(b)' /\ (Alone(b)' <=> Alone(b)) /\ (Tame(b)' <=> Tame(b))
  BY <1>1, MiddleBuild DEF vars
<1>3. OwnInv(b)'
  <2> SUFFICES ASSUME Tame(b) PROVE \E v \in Valid : Owns(b, v)'
    BY <1>1, <1>2 DEF OwnInv
  <2>1. PICK v \in Valid : Owns(b, v)
    BY <1>1 DEF BuildInv, OwnInv, After
  <2>2. Out(b).sha = v /\ Out(b).files = Inventory[v]
    BY <1>1, <2>1 DEF Owns
  <2>3. /\ copied'[b].sha # None => copied'[b].sha = v
        /\ copied'[b].files # None => copied'[b].files = Inventory[v]
    <3>1. copied[b] \in Copies
      OBVIOUS
    <3>2. QED
      BY <2>1, <2>2, <3>1 DEF CopyRecord, CopyFiles, Owns
  <2>4. Out(b)' = Out(b) /\ (b \in disturbed' <=> b \in disturbed)
    BY <1>1 DEF vars
  <2>5. QED
    BY <1>1, <2>1, <2>3, <2>4 DEF Owns
<1>4. ReadInv(b)'
  BY <1>1, <1>2 DEF BuildInv, ReadInv, vars
<1>5. QED
  BY <1>2, <1>3, <1>4 DEF BuildInv

LEMMA AssembleBuild ==
  ASSUME TypeInv, NEW b \in Runs, BuildInv(b), Build(b)
  PROVE  BuildInv(b)'
<1>1. /\ Exit(b, Assembled(b)) /\ UNCHANGED vars
      /\ copied[b].sha = arg[b].sha /\ copied[b].sha # None
      /\ copied[b].files # None
  BY BuildIsTyped DEF TypeInv
<1>2. step[b] = "build" /\ UNCHANGED <<edited, disturbed, overlapped>>
  BY DEF Build
<1>3. /\ Assembled(b).packages = copied[b].files
      /\ Assembled(b).sha = arg[b].sha /\ Assembled(b).signer = arg[b].signer
      /\ Assembled(b).builder = tags["builder"]
      /\ Assembled(b).runtime = tags["runtime"]
  BY DEF Assembled
<1>4. ASSUME Tame(b)
      PROVE  copied[b].sha \in Valid /\ copied[b].files = Inventory[copied[b].sha]
  BY <1>1, <1>2, <1>4 DEF BuildInv, OwnInv, Owns, After
<1>5. ASSUME Alone(b)
      PROVE  /\ arg[b].signer = arg[b].sha /\ tags["builder"] = arg[b].sha
             /\ tags["runtime"] = arg[b].sha
  BY <1>2, <1>5 DEF BuildInv, ReadInv
<1>6. UNCHANGED returned
  BY <1>1 DEF vars
<1> DEFINE made == Assembled(b)
<1>7. Tame(b) => made.sha \in Valid /\ made.packages = Inventory[made.sha]
  BY <1>1, <1>3, <1>4
<1>8. Alone(b) => /\ made.signer = made.sha /\ made.builder = made.sha
                 /\ made.runtime = made.sha
  BY <1>3, <1>5
<1> HIDE DEF made
<1>9. Exit(b, made)
  BY <1>1 DEF made
<1>10. QED
  BY <1>2, <1>6, <1>7, <1>8, <1>9, ExitBuild

LEMMA OwnBuild ==
  ASSUME TypeInv, NEW b \in Runs, BuildInv(b), BuildStep(b)
  PROVE  BuildInv(b)'
<1>1. CASE CommandFails(b)
  BY <1>1, ExitBuild DEF CommandFails, vars
<1>2. QED
  BY <1>1, BeginBuild, AcquireBuild, ReadBuild, PlainBuild, CopyBuild,
     AssembleBuild DEF BuildStep

Inv == TypeInv /\ \A b \in Runs : BuildInv(b)

LEMMA InvStep == Inv /\ [BuildNext]_allVars => Inv'
<1> SUFFICES ASSUME Inv, [BuildNext]_allVars PROVE Inv'
  OBVIOUS
<1>1. TypeInv'
  BY TypeStep DEF Inv
<1>2. CASE UNCHANGED allVars
  BY <1>1, <1>2 DEF allVars, vars, Inv, BuildInv, HistoryInv, OwnInv, Owns, ReadInv,
     ImageInv, Alone, Tame, Built
<1>3. CASE BuildNext
  BY <1>1, <1>3, EditBuild, ClearBuild, OwnBuild, OtherBuild DEF BuildNext, Inv
<1>4. QED
  BY <1>2, <1>3

LEMMA Invariant == BuildSpec => []Inv
<1>1. BuildInit => \A b \in Runs : BuildInv(b)
  BY DEF BuildInit, Init, BuildInv, HistoryInv, OwnInv, ReadInv, ImageInv, Built, After
<1>2. BuildInit => Inv
  BY <1>1, InitTypes DEF Inv
<1>3. QED
  BY <1>2, InvStep, PTL DEF BuildSpec

(* The packages of an image are the files of the lock it is labelled with, *)
(* with any overlap of builds and any edits of the locks, unless the       *)
(* bundle was removed or a content came back during the acquisition.       *)
THEOREM PackagesSafe == BuildSpec => []PackagesMatchLabel
<1>1. Inv => PackagesMatchLabel
  BY DEF Inv, BuildInv, ImageInv, Tame, PackagesMatchLabel
<1>2. QED
  BY <1>1, Invariant, PTL

(* The image of a build is all of the lock it is labelled with, if no      *)
(* other build of the host overlapped it and its lock stayed as it was.    *)
(* Neither condition can be dropped: the run shared_tags shows it for the  *)
(* first, and the four reads of the lock for the second.                   *)
THEOREM ImageSafe == BuildSpec => []ImageMatchesLock
<1>1. Inv => ImageMatchesLock
  BY DEF Inv, BuildInv, ImageInv, Tame, Alone, ImageMatchesLock
<1>2. QED
  BY <1>1, Invariant, PTL

=============================================================================
