--------------------------- MODULE BundleAcquire ---------------------------
(***************************************************************************)
(* scripts/artifacts.py acquire: runs of the command in the checkouts of   *)
(* one host, while somebody edits the lock files, brings earlier contents  *)
(* of them back and removes output directories, and every run may be       *)
(* killed.                                                                 *)
(*                                                                         *)
(* pc names the statement of acquire or of verify_bundle a run executes    *)
(* next.  What only its own temporary directory can tell is one action;    *)
(* every read of the lock file and every look at the output directory is a *)
(* step of its own.                                                        *)
(***************************************************************************)
EXTENDS Naturals, Sequences

CONSTANTS Runs,       \* the runs of the command
          Checkouts,  \* each has a lock file and an output directory
          Dir,        \* the checkout of a run
          Versions,   \* the contents a lock file may have
          Valid,      \* those that validate_lock accepts
          Files,      \* a path of a bundle together with its bytes
          Inventory,  \* lock_files of every valid content
          Corrupt,    \* bytes the lock does not name
          None,       \* no content or directory
          Remains     \* what is left of a temporary directory

ASSUME CheckoutsAssumption == Dir \in [Runs -> Checkouts]

ASSUME FilesAssumption ==
  /\ Valid \subseteq Versions
  /\ Inventory \in [Valid -> Seq(Files)]
  /\ \A v \in Valid : Inventory[v] # <<>>
  /\ Corrupt \notin Files

ASSUME AbsenceAssumption ==
  /\ None \notin Versions
  /\ None \notin [files: Seq(Files), sha: Versions, manifest: Seq(Files)]
  /\ Remains \notin [files: Seq(Files), sha: Versions, manifest: Seq(Files)]

VARIABLES lock,       \* the content of the lock file of a checkout
          out,        \* its output directory: a bundle or None
          pc,         \* the next statement of a run
          held,       \* the content a run has parsed (the local "lock")
          temp,       \* the temporary directory of a run
          attempt,    \* the attempt a download of a run is at
          seen,       \* (history) the contents of its lock during a run
          returned    \* (history) the runs in which one of those came back

local == <<pc, held, temp, attempt>>
history == <<seen, returned>>
vars == <<lock, out, local, history>>

(* A directory with the files of a bundle, LOCK-SHA256 and the manifests.  *)
(* Until WriteRecords, sha and manifest stand for files not yet written.   *)
Bundle == [files: Seq(Files), sha: Versions, manifest: Seq(Files)]

(* The statements inside the try block of acquire.                         *)
Guarded == {"download", "record", "verify", "compare", "admit"}
Running == Guarded \cup {"output"}

TypeOK == /\ lock \in [Checkouts -> Versions]
          /\ out \in [Checkouts -> Bundle \cup {None}]
          /\ pc \in [Runs -> Running \cup {"ended"}]
          /\ held \in [Runs -> Valid \cup {None}]
          /\ temp \in [Runs -> Bundle \cup {None, Remains}]
          /\ attempt \in [Runs -> 0 .. 2]
          /\ seen \in [Runs -> SUBSET Versions]
          /\ returned \subseteq Runs

Init == /\ lock \in [Checkouts -> Versions]
        /\ out = [c \in Checkouts |-> None]
        /\ pc = [r \in Runs |-> "ended"]
        /\ held = [r \in Runs |-> None]
        /\ temp = [r \in Runs |-> None]
        /\ attempt = [r \in Runs |-> 0]
        /\ seen = [r \in Runs |-> {}]
        /\ returned = {}

Lock(r) == lock[Dir[r]]
Out(r) == out[Dir[r]]

Goto(r, l) == pc' = [pc EXCEPT ![r] = l]
Proceed(r, l) == Goto(r, l) /\ UNCHANGED history

(* The process is gone, and of its temporary directory what rest says.     *)
End(r, rest) == /\ Goto(r, "ended")
                /\ held' = [held EXCEPT ![r] = None]
                /\ temp' = [temp EXCEPT ![r] = rest]
                /\ attempt' = [attempt EXCEPT ![r] = 0]
                /\ seen' = [seen EXCEPT ![r] = {}]
                /\ returned' = returned \ {r}

-----------------------------------------------------------------------------
(* Others.                                                                 *)

(* An editor, git checkout, an undo: any content may follow any other.     *)
Edit(c) == \E v \in Versions \ {lock[c]} :
  LET here == {r \in Runs : Dir[r] = c /\ pc[r] \in Running}
  IN  /\ lock' = [lock EXCEPT ![c] = v]
      /\ seen' = [r \in Runs |-> IF r \in here THEN seen[r] \cup {v} ELSE seen[r]]
      /\ returned' = returned \cup {r \in here : v \in seen[r]}
      /\ UNCHANGED <<out, local>>

Clear(c) == /\ out' = [out EXCEPT ![c] = None]
            /\ UNCHANGED <<lock, local, history>>

(* SIGKILL, or an interrupt, which "except Exception" does not catch: a    *)
(* temporary directory stays.                                              *)
Kill(r) == /\ pc[r] \in Running
           /\ End(r, IF temp[r] = None THEN None ELSE Remains)
           /\ UNCHANGED <<lock, out>>

-----------------------------------------------------------------------------
(* acquire.                                                                *)

(* The handler of the try block: rmtree ignores its errors, so that the    *)
(* directory goes or something of it stays.                                *)
Fail(r) == /\ \E rest \in {None, Remains} : End(r, rest)
           /\ UNCHANGED <<lock, out>>

(* Any statement of the try block may raise.                               *)
Raise(r) == pc[r] \in Guarded /\ Fail(r)

(* A lock that is not valid ends the run here.  A new run has a directory  *)
(* of its own (mkdtemp), so what another one left is not seen again.       *)
ValidateLock(r) ==
  /\ pc[r] = "ended" /\ Lock(r) \in Valid
  /\ Goto(r, "output")
  /\ held' = [held EXCEPT ![r] = Lock(r)]
  /\ temp' = [temp EXCEPT ![r] = None]
  /\ seen' = [seen EXCEPT ![r] = {Lock(r)}]
  /\ UNCHANGED <<lock, out, attempt, returned>>

MakeTemp(r) ==
  /\ pc[r] = "output"
  /\ \/ /\ Out(r) = None
        /\ temp' = [temp EXCEPT ![r] =
                      [files |-> <<>>, sha |-> held[r], manifest |-> <<>>]]
        /\ Proceed(r, "download")
        /\ UNCHANGED <<held, attempt>>
     \/ End(r, None)
  /\ UNCHANGED <<lock, out>>

(* The response is complete: the file lands under its name, or its size or *)
(* digest is wrong, which no retry mends.                                  *)
Fetch(r) ==
  /\ pc[r] = "download"
  /\ \E wanted \in {Inventory[held[r]][Len(temp[r].files) + 1]} :
       \E content \in {wanted, Corrupt} :
         IF content = wanted
           THEN /\ temp' = [temp EXCEPT ![r].files = Append(@, content)]
                /\ attempt' = [attempt EXCEPT ![r] = 0]
                /\ Proceed(r, IF Len(temp'[r].files) = Len(Inventory[held[r]])
                                THEN "record" ELSE "download")
                /\ UNCHANGED <<lock, out, held>>
           ELSE Fail(r)

(* Mutant: one attempt more than range(3) gives.                           *)
RetryOnceMore(r) ==
  /\ pc[r] = "download"
  /\ IF attempt[r] = 3
       THEN Fail(r)
       ELSE /\ attempt' = [attempt EXCEPT ![r] = @ + 1]
            /\ UNCHANGED <<lock, out, pc, held, temp, history>>

(* Mutant: every download failure is retried for ever.                     *)
RetryForEver(r) ==
  /\ pc[r] = "download"
  /\ attempt' = [attempt EXCEPT ![r] = (@ + 1) % 3]
  /\ UNCHANGED <<lock, out, pc, held, temp, history>>

(* The transport fails: two more attempts.                                 *)
RetryOrRaise(r) ==
  /\ pc[r] = "download"
  /\ IF attempt[r] = 2
       THEN Fail(r)
       ELSE /\ attempt' = [attempt EXCEPT ![r] = @ + 1]
            /\ UNCHANGED <<lock, out, pc, held, temp, history>>

(* LOCK-SHA256 is the digest of the file as it is now, the manifests are   *)
(* those of the content parsed at the start.                               *)
WriteRecords(r) ==
  /\ pc[r] = "record"
  /\ temp' = [temp EXCEPT ![r].sha = Lock(r),
                          ![r].manifest = Inventory[held[r]]]
  /\ Proceed(r, "verify")
  /\ UNCHANGED <<lock, out, held, attempt>>

(* Mutant: verify_bundle compares the records only.                        *)
VerifyNoFiles(r) ==
  /\ pc[r] = "verify"
  /\ IF Lock(r) \in Valid
       THEN /\ held' = [held EXCEPT ![r] = Lock(r)]
            /\ Proceed(r, "compare")
            /\ UNCHANGED <<lock, out, temp, attempt>>
       ELSE Fail(r)

(* verify_bundle parses the lock again and compares names, sizes, digests. *)
VerifyFiles(r) ==
  /\ pc[r] = "verify"
  /\ IF Lock(r) \in Valid /\ temp[r].files = Inventory[Lock(r)]
       THEN /\ held' = [held EXCEPT ![r] = Lock(r)]
            /\ Proceed(r, "compare")
            /\ UNCHANGED <<lock, out, temp, attempt>>
       ELSE Fail(r)

(* ... then takes the digest of the file once more, and the manifests.     *)
VerifyRecords(r) ==
  /\ pc[r] = "compare"
  /\ IF temp[r].sha = Lock(r) /\ temp[r].manifest = Inventory[held[r]]
       THEN Proceed(r, "admit") /\ UNCHANGED <<lock, out, held, temp, attempt>>
       ELSE Fail(r)

(* Mutant: an existing directory is removed before the rename.             *)
AdmitOver(r) == /\ pc[r] = "admit"
                /\ out' = [out EXCEPT ![Dir[r]] = temp[r]]
                /\ End(r, None)
                /\ UNCHANGED lock

(* rename(2) onto a directory that is not empty fails.                     *)
Admit(r) == /\ pc[r] = "admit"
            /\ IF Out(r) = None
                 THEN /\ out' = [out EXCEPT ![Dir[r]] = temp[r]]
                      /\ End(r, None)
                      /\ UNCHANGED lock
                 ELSE Fail(r)

(* The statements of a run that has begun.                                 *)
Step(r) == \/ MakeTemp(r) \/ Fetch(r) \/ RetryOrRaise(r) \/ WriteRecords(r)
           \/ VerifyFiles(r) \/ VerifyRecords(r) \/ Admit(r) \/ Raise(r)

Next == \/ \E c \in Checkouts : Edit(c) \/ Clear(c)
        \/ \E r \in Runs : Kill(r) \/ ValidateLock(r) \/ Step(r)

Spec == Init /\ [][Next]_vars

(* The interpreter runs the next statement.  Nothing makes a host answer:  *)
(* the timeout of a request is one for every read from its socket, and a   *)
(* key may have no size.                                                   *)
FairSpec == Spec /\ \A r \in Runs : WF_vars(Step(r) /\ pc[r] # "download")

-----------------------------------------------------------------------------
(* Properties.                                                             *)

(* The files and manifests of a directory are those of one valid lock.     *)
OfOneLock(b) == \E v \in Valid : b.files = Inventory[v] /\ b.manifest = Inventory[v]

(* The inductive invariant: what the temporary directory of a run holds at *)
(* every statement, and which content of the lock it has been compared     *)
(* with.  LOCK-SHA256 may be another content's than the files only if an   *)
(* edit during the run brought a content back: while the lock differs from *)
(* LOCK-SHA256 at "compare", only a return makes them equal again.         *)
TempInv(r) ==
  /\ pc[r] \in Running => held[r] \in Valid \cap seen[r] /\ Lock(r) \in seen[r]
  /\ pc[r] = "ended" => seen[r] = {} /\ r \notin returned
  /\ pc[r] = "download" =>
       /\ temp[r] \in Bundle
       /\ Len(temp[r].files) < Len(Inventory[held[r]])
       /\ temp[r].files = SubSeq(Inventory[held[r]], 1, Len(temp[r].files))
  /\ pc[r] \in {"record", "verify", "compare", "admit"} =>
       temp[r] \in Bundle /\ temp[r].files = Inventory[held[r]]
  /\ pc[r] \in {"verify", "compare", "admit"} =>
       temp[r].manifest = Inventory[held[r]] /\ temp[r].sha \in seen[r]
  /\ pc[r] = "compare" /\ Lock(r) = temp[r].sha =>
       held[r] = temp[r].sha \/ r \in returned
  /\ pc[r] = "admit" => held[r] = temp[r].sha \/ r \in returned

(* A directory with the final name is complete: all the files of one       *)
(* content of the lock and its manifests, although acquire reads the lock  *)
(* four times while it may be edited, any statement may fail, and other    *)
(* runs fill the same name.                                                *)
AcquireInv == /\ \A c \in Checkouts : out[c] # None => OfOneLock(out[c])
              /\ \A r \in Runs : TempInv(r)

Missing(r) == Len(Inventory[held[r]]) - Len(temp[r].files)

(* How many statements a run can still execute: three attempts for every   *)
(* file that is missing, and those around the downloads.                   *)
Remaining(r) ==
  CASE pc[r] = "output"   -> 3 * Len(Inventory[held[r]]) + 5
    [] pc[r] = "download" -> Missing(r) * 3 - attempt[r] + 4
    [] pc[r] = "record"   -> 4
    [] pc[r] = "verify"   -> 3
    [] pc[r] = "compare"  -> 2
    [] pc[r] = "admit"    -> 1
    [] OTHER              -> 0

(* Every statement of a run brings it nearer to its end, also one that     *)
(* fails and is tried again: whatever the hosts answer, a run of n files   *)
(* is over after 3n + 5 statements.                                        *)
StepsBounded ==
  [][\A r \in Runs :
       pc[r] \in Running /\ <<pc[r], temp[r], attempt[r]>>' # <<pc[r], temp[r], attempt[r]>>
         => Remaining(r)' \in 0 .. (Remaining(r) - 1)]_vars

(* A run that has begun comes to an end, unless one request is never       *)
(* answered to its end: hosts that fail, or answer wrongly, however often, *)
(* do not keep it going.                                                   *)
AcquireEnds ==
  \A r \in Runs :
    pc[r] \in Running ~>
      pc[r] = "ended" \/ \E n \in 0 .. 2 : [](pc[r] = "download" /\ attempt[r] = n)

=============================================================================
