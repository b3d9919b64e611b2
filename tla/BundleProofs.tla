---------------------------- MODULE BundleProofs ----------------------------
(***************************************************************************)
(* Proofs about BundleAcquire, for any runs, checkouts, contents of the    *)
(* locks and inventories: the types, the invariant of the temporary        *)
(* directories, that the runs of each checkout implement AtomicAdmission,  *)
(* and that a run is over after a bounded number of statements.            *)
(***************************************************************************)
EXTENDS BundleRefinement, TLAPS

USE CheckoutsAssumption
USE DEF Running, Guarded, Goto, Proceed, Lock, Out, local, history

(* A download appends the next file of the inventory.                      *)
LEMMA NextFile ==
  ASSUME NEW S, NEW s \in Seq(S), NEW t \in Seq(S),
         Len(t) < Len(s), t = SubSeq(s, 1, Len(t))
  PROVE  LET u == Append(t, s[Len(t) + 1])
         IN  /\ u \in Seq(S)
             /\ Len(u) = Len(t) + 1
             /\ u = SubSeq(s, 1, Len(u))
             /\ Len(u) = Len(s) => u = s
<1> DEFINE u == Append(t, s[Len(t) + 1])
<1>1. s[Len(t) + 1] \in S
  OBVIOUS
<1>2. u \in Seq(S) /\ Len(u) = Len(t) + 1
  BY <1>1
<1>3. \A i \in 1 .. Len(u) : u[i] = s[i]
  <2> SUFFICES ASSUME NEW i \in 1 .. Len(u) PROVE u[i] = s[i]
    OBVIOUS
  <2>1. CASE i = Len(t) + 1
    BY <2>1
  <2>2. CASE i <= Len(t)
    <3>1. u[i] = t[i]
      BY <2>2
    <3>2. SubSeq(s, 1, Len(t))[i] = s[i]
      BY <2>2
    <3>3. QED
      BY <3>1, <3>2
  <2>3. QED
    BY <1>2, <2>1, <2>2
<1>4. u = SubSeq(s, 1, Len(u))
  BY <1>2, <1>3
<1>5. Len(u) = Len(s) => u = s
  BY <1>2, <1>3
<1>6. QED
  BY <1>2, <1>4, <1>5

(* The directory mkdtemp makes.                                            *)
LEMMA EmptyTemp ==
  ASSUME NEW v \in Valid
  PROVE  LET b == [files |-> <<>>, sha |-> v, manifest |-> <<>>]
         IN  /\ b \in Bundle
             /\ Len(b.files) < Len(Inventory[v])
             /\ b.files = SubSeq(Inventory[v], 1, Len(b.files))
<1> DEFINE b == [files |-> <<>>, sha |-> v, manifest |-> <<>>]
<1>1. b \in Bundle /\ b.files = <<>>
  BY FilesAssumption DEF Bundle
<1>2. Inventory[v] \in Seq(Files) /\ Inventory[v] # <<>>
  BY FilesAssumption
<1>3. \A t \in Seq(Files) : t # <<>> => 0 < Len(t) /\ <<>> = SubSeq(t, 1, 0)
  OBVIOUS
<1> HIDE DEF b
<1>4. QED
  BY <1>1, <1>2, <1>3 DEF b

(* The handler, a kill and the end of acquire leave a process that is gone.*)
LEMMA EndStep ==
  ASSUME TypeOK, NEW r \in Runs, NEW rest \in {None, Remains}, End(r, rest),
         UNCHANGED lock, out' \in [Checkouts -> Bundle \cup {None}]
  PROVE  TypeOK' /\ TempInv(r)'
BY DEF End, TypeOK, TempInv

LEMMA FailStep ==
  ASSUME TypeOK, NEW r \in Runs, Fail(r)
  PROVE  TypeOK' /\ TempInv(r)' /\ UNCHANGED <<lock, out>>
<1>1. PICK rest \in {None, Remains} : End(r, rest)
  BY DEF Fail
<1>2. UNCHANGED <<lock, out>>
  BY DEF Fail
<1>3. QED
  BY <1>1, <1>2, EndStep DEF TypeOK

(* A statement of a run concerns that run only.                            *)
LEMMA OtherRuns ==
  ASSUME TypeOK, NEW r \in Runs, ValidateLock(r) \/ Step(r) \/ Kill(r),
         NEW q \in Runs, q # r
  PROVE  /\ pc'[q] = pc[q] /\ held'[q] = held[q] /\ temp'[q] = temp[q]
         /\ attempt'[q] = attempt[q] /\ seen'[q] = seen[q]
         /\ q \in returned' <=> q \in returned
         /\ UNCHANGED lock
<1> USE DEF TypeOK
<1>1. ASSUME NEW rest, End(r, rest)
      PROVE  /\ pc'[q] = pc[q] /\ held'[q] = held[q] /\ temp'[q] = temp[q]
             /\ attempt'[q] = attempt[q] /\ seen'[q] = seen[q]
             /\ q \in returned' <=> q \in returned
  BY <1>1 DEF End
<1>2. CASE Fail(r)
  BY <1>1, <1>2 DEF Fail
<1>3. CASE Kill(r)
  BY <1>1, <1>3 DEF Kill
<1>4. CASE ValidateLock(r)
  BY <1>4 DEF ValidateLock
<1>5. CASE MakeTemp(r)
  BY <1>1, <1>5 DEF MakeTemp
<1>6. CASE Fetch(r)
  BY <1>2, <1>6 DEF Fetch
<1>7. CASE RetryOrRaise(r) \/ WriteRecords(r)
  BY <1>2, <1>7 DEF RetryOrRaise, WriteRecords
<1>8. CASE VerifyFiles(r) \/ VerifyRecords(r)
  BY <1>2, <1>8 DEF VerifyFiles, VerifyRecords
<1>9. CASE Admit(r)
  BY <1>1, <1>2, <1>9 DEF Admit
<1>10. QED
  BY <1>2, <1>3, <1>4, <1>5, <1>6, <1>7, <1>8, <1>9 DEF Step, Raise

(* Only the rename touches an output directory.                            *)
LEMMA OutputStays ==
  ASSUME NEW r \in Runs, ValidateLock(r) \/ Step(r) \/ Kill(r),
         ~(Admit(r) /\ Out(r) = None)
  PROVE  UNCHANGED <<lock, out>>
BY DEF ValidateLock, Step, Kill, Fail, MakeTemp, Fetch, RetryOrRaise,
       WriteRecords, VerifyFiles, VerifyRecords, Admit, Raise

LEMMA MakeTempStep ==
  ASSUME TypeOK, NEW r \in Runs, TempInv(r), MakeTemp(r)
  PROVE  TypeOK' /\ TempInv(r)'
<1> DEFINE b == [files |-> <<>>, sha |-> held[r], manifest |-> <<>>]
<1>1. held[r] \in Valid
  BY DEF MakeTemp, TempInv
<1>2. /\ b \in Bundle /\ Len(b.files) < Len(Inventory[held[r]])
      /\ b.files = SubSeq(Inventory[held[r]], 1, Len(b.files))
  BY <1>1, EmptyTemp
<1> HIDE DEF b
<1>3. CASE /\ temp' = [temp EXCEPT ![r] = b] /\ Proceed(r, "download")
           /\ UNCHANGED <<held, attempt>>
  <2>1. TypeOK'
    BY <1>2, <1>3 DEF MakeTemp, TypeOK
  <2>2. temp'[r] = b /\ pc'[r] = "download"
    BY <1>3 DEF TypeOK
  <2>3. QED
    BY <1>2, <1>3, <2>1, <2>2 DEF MakeTemp, TempInv
<1>4. CASE End(r, None)
  BY <1>4, EndStep DEF MakeTemp, TypeOK
<1>5. QED
  BY <1>3, <1>4 DEF MakeTemp, b

LEMMA FetchStep ==
  ASSUME TypeOK, NEW r \in Runs, TempInv(r), Fetch(r)
  PROVE  TypeOK' /\ TempInv(r)'
<1> DEFINE s == Inventory[held[r]]
           t == temp[r].files
           u == Append(t, s[Len(t) + 1])
           b == [temp[r] EXCEPT !.files = u]
<1>1. /\ held[r] \in Valid /\ s \in Seq(Files) /\ t \in Seq(Files)
      /\ Len(t) < Len(s) /\ t = SubSeq(s, 1, Len(t)) /\ temp[r] \in Bundle
  BY FilesAssumption DEF Fetch, TempInv, Bundle
<1>2. /\ u \in Seq(Files) /\ Len(u) = Len(t) + 1
      /\ u = SubSeq(s, 1, Len(u)) /\ (Len(u) = Len(s) => u = s)
  BY <1>1, NextFile
<1>3. b \in Bundle /\ b.files = u
  BY <1>1, <1>2 DEF Bundle
<1>4. CASE Fail(r)
  BY <1>4, FailStep
<1>5. CASE /\ temp' = [temp EXCEPT ![r] = b]
           /\ attempt' = [attempt EXCEPT ![r] = 0]
           /\ Proceed(r, IF Len(temp'[r].files) = Len(s)
                           THEN "record" ELSE "download")
           /\ UNCHANGED <<lock, out, held>>
  <2>1. temp'[r] = b /\ temp' \in [Runs -> Bundle \cup {None, Remains}]
    BY <1>3, <1>5 DEF TypeOK
  <2>2. Len(u) \in Nat /\ Len(s) \in Nat /\ Len(u) <= Len(s)
    BY <1>1, <1>2
  <2> HIDE DEF b, u
  <2>3. TypeOK'
    <3>1. /\ pc' \in [Runs -> Running \cup {"ended"}]
          /\ attempt' \in [Runs -> 0 .. 2]
      BY <1>5 DEF TypeOK
    <3>2. QED
      BY <1>5, <2>1, <3>1 DEF TypeOK
  <2>4. pc'[r] = IF Len(u) = Len(s) THEN "record" ELSE "download"
    BY <1>3, <1>5, <2>1 DEF TypeOK
  <2>5. held[r] \in seen[r] /\ Lock(r) \in seen[r]
    BY DEF Fetch, TempInv
  <2>6. pc'[r] \in {"record", "download"} /\ temp'[r].files = u
    BY <1>3, <2>1, <2>4
  <2>7. TempInv(r)'
    <3>1. held'[r] = held[r] /\ seen'[r] = seen[r] /\ Lock(r)' = Lock(r)
      BY <1>5
    <3>2. pc'[r] = "record" => temp'[r].files = Inventory[held[r]]
      BY <1>2, <2>4, <2>6
    <3>3. pc'[r] = "download" =>
            /\ Len(temp'[r].files) < Len(Inventory[held[r]])
            /\ temp'[r].files = SubSeq(Inventory[held[r]], 1, Len(temp'[r].files))
      BY <1>2, <2>2, <2>4, <2>6
    <3>4. temp'[r] \in Bundle /\ held[r] \in Valid
      BY <1>1, <1>3, <2>1
    <3> HIDE DEF s, t
    <3>5. QED
      BY <2>5, <2>6, <3>1, <3>2, <3>3, <3>4 DEF TempInv
  <2>8. QED
    BY <2>3, <2>7
<1>6. QED
  <2>1. temp' = [temp EXCEPT ![r].files = Append(@, s[Len(t) + 1])] =>
          temp' = [temp EXCEPT ![r] = b]
    BY DEF TypeOK
  <2>2. \/ /\ temp' = [temp EXCEPT ![r].files = Append(@, s[Len(t) + 1])]
           /\ attempt' = [attempt EXCEPT ![r] = 0]
           /\ Proceed(r, IF Len(temp'[r].files) = Len(s)
                           THEN "record" ELSE "download")
           /\ UNCHANGED <<lock, out, held>>
        \/ Fail(r)
    BY Zenon DEF Fetch
  <2>3. QED
    BY <1>4, <1>5, <2>1, <2>2, Zenon

LEMMA RetryStep ==
  ASSUME TypeOK, NEW r \in Runs, TempInv(r), RetryOrRaise(r)
  PROVE  TypeOK' /\ TempInv(r)'
<1>1. CASE Fail(r)
  BY <1>1, FailStep
<1>2. CASE ~Fail(r)
  <2>1. /\ attempt[r] # 2 /\ attempt' = [attempt EXCEPT ![r] = @ + 1]
        /\ UNCHANGED <<lock, out, pc, held, temp, history>>
    BY <1>2 DEF RetryOrRaise
  <2>2. TypeOK'
    BY <2>1 DEF TypeOK
  <2>3. QED
    BY <2>1, <2>2 DEF TempInv
<1>3. QED
  BY <1>1, <1>2

LEMMA WriteStep ==
  ASSUME TypeOK, NEW r \in Runs, TempInv(r), WriteRecords(r)
  PROVE  TypeOK' /\ TempInv(r)'
<1> DEFINE s == Inventory[held[r]]
           b == [temp[r] EXCEPT !.sha = Lock(r), !.manifest = s]
<1>1. /\ temp[r] \in Bundle /\ held[r] \in Valid /\ temp[r].files = s
      /\ Lock(r) \in Versions /\ Lock(r) \in seen[r] /\ held[r] \in seen[r]
  BY DEF WriteRecords, TempInv, TypeOK
<1>2. s \in Seq(Files)
  BY <1>1, FilesAssumption
<1>3. b \in Bundle /\ b.files = s /\ b.sha = Lock(r) /\ b.manifest = s
  BY <1>1, <1>2 DEF Bundle
<1>4. temp' = [temp EXCEPT ![r] = b]
  BY DEF WriteRecords, TypeOK
<1>5. /\ pc' = [pc EXCEPT ![r] = "verify"]
      /\ UNCHANGED <<lock, out, held, attempt, seen, returned>>
  BY DEF WriteRecords
<1> HIDE DEF b
<1>6. TypeOK' /\ temp'[r] = b /\ pc'[r] = "verify"
  BY <1>3, <1>4, <1>5 DEF TypeOK
<1>7. QED
  BY <1>1, <1>3, <1>5, <1>6 DEF TempInv

(* Both parts of verify_bundle.  The first finds that the files are those  *)
(* of the lock as it is; the second that its digest is LOCK-SHA256 now.    *)
LEMMA VerifyStep ==
  ASSUME TypeOK, NEW r \in Runs, TempInv(r), VerifyFiles(r) \/ VerifyRecords(r)
  PROVE  TypeOK' /\ TempInv(r)'
<1>1. CASE Fail(r)
  BY <1>1, FailStep
<1>2. CASE VerifyFiles(r) /\ ~Fail(r)
  <2>1. /\ pc[r] = "verify" /\ Lock(r) \in Valid /\ temp[r].files = Inventory[Lock(r)]
        /\ held' = [held EXCEPT ![r] = Lock(r)]
        /\ pc' = [pc EXCEPT ![r] = "compare"]
        /\ UNCHANGED <<lock, out, temp, attempt, seen, returned>>
    BY <1>2 DEF VerifyFiles
  <2>2. TypeOK' /\ held'[r] = Lock(r) /\ pc'[r] = "compare"
    BY <2>1 DEF TypeOK
  <2>3. /\ temp[r] \in Bundle /\ temp[r].manifest = temp[r].files
        /\ temp[r].sha \in seen[r] /\ Lock(r) \in seen[r]
    BY <2>1 DEF TempInv
  <2>4. QED
    BY <2>1, <2>2, <2>3 DEF TempInv
<1>3. CASE VerifyRecords(r) /\ ~Fail(r)
  <2>1. /\ pc[r] = "compare" /\ temp[r].sha = Lock(r)
        /\ pc' = [pc EXCEPT ![r] = "admit"]
        /\ UNCHANGED <<lock, out, held, temp, attempt, seen, returned>>
    BY <1>3 DEF VerifyRecords
  <2>2. TypeOK' /\ pc'[r] = "admit"
    BY <2>1 DEF TypeOK
  <2>3. QED
    BY <2>1, <2>2 DEF TempInv
<1>4. QED
  BY <1>1, <1>2, <1>3

LEMMA BeginStep ==
  ASSUME TypeOK, NEW r \in Runs, TempInv(r), ValidateLock(r)
  PROVE  TypeOK' /\ TempInv(r)'
<1>1. TypeOK' /\ pc'[r] = "output" /\ held'[r] = Lock(r) /\ seen'[r] = {Lock(r)}
  BY DEF ValidateLock, TypeOK
<1>2. QED
  BY <1>1 DEF ValidateLock, TempInv

(* What is renamed into place.                                             *)
LEMMA AdmitStep ==
  ASSUME TypeOK, NEW r \in Runs, TempInv(r), Admit(r), Out(r) = None
  PROVE  /\ TypeOK' /\ TempInv(r)' /\ UNCHANGED lock
         /\ out' = [out EXCEPT ![Dir[r]] = temp[r]]
         /\ temp[r] \in Bundle /\ OfOneLock(temp[r])
<1>1. /\ temp[r] \in Bundle /\ held[r] \in Valid
      /\ temp[r].files = Inventory[held[r]] /\ temp[r].manifest = Inventory[held[r]]
  BY DEF Admit, TempInv
<1>2. /\ out' = [out EXCEPT ![Dir[r]] = temp[r]]
      /\ UNCHANGED lock /\ End(r, None)
  BY DEF Admit
<1>3. out' \in [Checkouts -> Bundle \cup {None}]
  BY <1>1, <1>2 DEF TypeOK
<1>4. QED
  BY <1>1, <1>2, <1>3, EndStep DEF OfOneLock

(* What an action leaves alone of a run keeps the invariant of that run.   *)
LEMMA TempFrame ==
  ASSUME NEW q \in Runs, TempInv(q), UNCHANGED <<pc[q], held[q], temp[q], seen[q]>>,
         q \in returned' <=> q \in returned, lock'[Dir[q]] = lock[Dir[q]]
  PROVE  TempInv(q)'
BY DEF TempInv

(* The inductive step, for the statements of one run.                      *)
LEMMA RunStep ==
  ASSUME TypeOK, AcquireInv, NEW r \in Runs,
         ValidateLock(r) \/ Step(r) \/ Kill(r)
  PROVE  TypeOK' /\ AcquireInv'
<1>1. TempInv(r)
  BY DEF AcquireInv
<1>2. TypeOK' /\ TempInv(r)'
  <2>1. CASE Kill(r)
    <3>1. PICK rest \in {None, Remains} : End(r, rest)
      BY <2>1 DEF Kill
    <3>2. UNCHANGED <<lock, out>>
      BY <2>1 DEF Kill
    <3>3. QED
      BY <3>1, <3>2, EndStep DEF TypeOK
  <2>2. CASE Admit(r)
    <3>1. CASE Out(r) = None
      BY <1>1, <2>2, <3>1, AdmitStep
    <3>2. CASE Out(r) # None
      BY <2>2, <3>2, FailStep DEF Admit
    <3>3. QED
      BY <3>1, <3>2
  <2>3. CASE Raise(r)
    BY <2>3, FailStep DEF Raise
  <2>4. QED
    BY <1>1, <2>1, <2>2, <2>3, BeginStep, MakeTempStep, FetchStep, RetryStep,
       WriteStep, VerifyStep DEF Step
<1>3. ASSUME NEW q \in Runs, q # r PROVE TempInv(q)'
  BY <1>3, OtherRuns, TempFrame DEF AcquireInv
<1>4. \A c \in Checkouts : out'[c] # None => OfOneLock(out'[c])
  <2>1. CASE Admit(r) /\ Out(r) = None
    BY <1>1, <2>1, AdmitStep DEF AcquireInv, TypeOK
  <2>2. CASE ~(Admit(r) /\ Out(r) = None)
    BY <2>2, OutputStays DEF AcquireInv
  <2>3. QED
    BY <2>1, <2>2
<1>5. QED
  BY <1>2, <1>3, <1>4 DEF AcquireInv, OfOneLock

(* An edit.  At "compare" the lock becomes equal to LOCK-SHA256 only by a  *)
(* return, since that content has been seen.                               *)
LEMMA EditStep ==
  ASSUME TypeOK, AcquireInv, NEW c \in Checkouts, Edit(c)
  PROVE  TypeOK' /\ AcquireInv'
<1> DEFINE here == {r \in Runs : Dir[r] = c /\ pc[r] \in Running}
<1>1. PICK v \in Versions :
        /\ lock' = [lock EXCEPT ![c] = v]
        /\ seen' = [r \in Runs |-> IF r \in here THEN seen[r] \cup {v} ELSE seen[r]]
        /\ returned' = returned \cup {r \in here : v \in seen[r]}
        /\ UNCHANGED <<out, local>>
  BY DEF Edit
<1>2. TypeOK'
  BY <1>1 DEF TypeOK
<1>3. ASSUME NEW q \in Runs PROVE TempInv(q)'
  <2>1. TempInv(q)
    BY DEF AcquireInv
  <2>2. CASE q \in here
    <3>1. /\ seen'[q] = seen[q] \cup {v} /\ lock'[Dir[q]] = v
          /\ q \in returned' <=> q \in returned \/ v \in seen[q]
          /\ UNCHANGED <<pc, held, temp>>
      BY <1>1, <2>2 DEF TypeOK
    <3>2. QED
      BY <2>1, <2>2, <3>1 DEF TempInv
  <2>3. CASE q \notin here
    <3>1. /\ seen'[q] = seen[q] /\ (q \in returned' <=> q \in returned)
          /\ UNCHANGED <<pc, held, temp>>
      BY <1>1, <2>3
    <3>2. CASE Dir[q] = c
      BY <2>1, <2>3, <3>1, <3>2 DEF TempInv, TypeOK
    <3>3. CASE Dir[q] # c
      <4>1. lock'[Dir[q]] = lock[Dir[q]]
        BY <1>1, <3>3 DEF TypeOK
      <4>2. QED
        BY <2>1, <3>1, <4>1, TempFrame
    <3>4. QED
      BY <3>2, <3>3
  <2>4. QED
    BY <2>2, <2>3
<1>4. QED
  BY <1>1, <1>2, <1>3 DEF AcquireInv, OfOneLock

LEMMA ClearStep ==
  ASSUME TypeOK, AcquireInv, NEW c \in Checkouts, Clear(c)
  PROVE  TypeOK' /\ AcquireInv'
<1>1. TypeOK'
  BY DEF Clear, TypeOK
<1>2. \A q \in Runs : TempInv(q)'
  BY DEF Clear, AcquireInv, TempInv
<1>3. \A d \in Checkouts : out'[d] # None => OfOneLock(out'[d])
  BY DEF Clear, AcquireInv, TypeOK
<1>4. QED
  BY <1>1, <1>2, <1>3 DEF AcquireInv, OfOneLock

LEMMA InitSafe == Init => TypeOK /\ AcquireInv
BY DEF Init, TypeOK, AcquireInv, TempInv

LEMMA NextSafe == TypeOK /\ AcquireInv /\ [Next]_vars => TypeOK' /\ AcquireInv'
<1> SUFFICES ASSUME TypeOK, AcquireInv, [Next]_vars PROVE TypeOK' /\ AcquireInv'
  OBVIOUS
<1>1. CASE UNCHANGED vars
  BY <1>1 DEF vars, TypeOK, AcquireInv, TempInv, OfOneLock
<1>2. QED
  BY <1>1, RunStep, EditStep, ClearStep DEF Next

LEMMA Invariance == Spec => [](TypeOK /\ AcquireInv)
  BY InitSafe, NextSafe, PTL DEF Spec

(* Every reachable state is well typed.                                    *)
THEOREM TypeCorrect == Spec => []TypeOK
  BY Invariance, PTL

(* The inductive invariant: under a final name there is only a complete    *)
(* bundle, and at every statement the temporary directory of a run is as   *)
(* far as TempInv says, for any runs, any contents of the locks and any    *)
(* edits, also those that bring a content back.                            *)
THEOREM AcquireSafe == Spec => []AcquireInv
  BY Invariance, PTL

-----------------------------------------------------------------------------
(* What AtomicAdmission sees of the end of a run: it is over.              *)
LEMMA EndIsOver ==
  ASSUME TypeOK, NEW r \in Runs, NEW rest, End(r, rest), UNCHANGED lock,
         NEW c \in Checkouts, Dir[r] = c
  PROVE  Admission(c)!Over(r)
<1>1. SeenIn(c)' = [SeenIn(c) EXCEPT ![r] = {}]
  BY DEF End, SeenIn, RunsIn, TypeOK
<1>2. ReturnedIn(c)' = ReturnedIn(c) \ {r}
  BY DEF End, ReturnedIn
<1>3. QED
  BY <1>1, <1>2 DEF Admission!Over

LEMMA EndIsAbort ==
  ASSUME TypeOK, NEW r \in Runs, NEW rest, End(r, rest), UNCHANGED <<lock, out>>,
         NEW c \in Checkouts, Dir[r] = c
  PROVE  Admission(c)!Next
<1>1. Admission(c)!Over(r)
  BY EndIsOver
<1>2. Admission(c)!Abort(r) /\ r \in RunsIn(c)
  BY <1>1 DEF Admission!Abort, RunsIn
<1>3. QED
  BY <1>2 DEF Admission!Next

LEMMA FailIsAbort ==
  ASSUME TypeOK, NEW r \in Runs, Fail(r), NEW c \in Checkouts, Dir[r] = c
  PROVE  Admission(c)!Next
<1>1. PICK rest \in {None, Remains} : End(r, rest)
  BY DEF Fail
<1>2. UNCHANGED <<lock, out>>
  BY DEF Fail
<1>3. QED
  BY <1>1, <1>2, EndIsAbort

LEMMA Stutters ==
  ASSUME UNCHANGED <<lock, out, seen, returned>>, NEW c \in Checkouts
  PROVE  UNCHANGED Admission(c)!vars
BY DEF Admission!vars, SeenIn, ReturnedIn

(* A run of another checkout is none of its business.                      *)
LEMMA ElsewhereStutters ==
  ASSUME TypeOK, NEW r \in Runs, ValidateLock(r) \/ Step(r) \/ Kill(r),
         NEW c \in Checkouts, Dir[r] # c
  PROVE  UNCHANGED Admission(c)!vars
<1>1. \A q \in RunsIn(c) : seen'[q] = seen[q] /\ (q \in returned' <=> q \in returned)
  BY OtherRuns DEF RunsIn
<1>2. SeenIn(c)' = SeenIn(c) /\ ReturnedIn(c)' = ReturnedIn(c)
  BY <1>1 DEF SeenIn, ReturnedIn
<1>3. out'[c] = out[c] /\ UNCHANGED lock
  <2>1. CASE Admit(r) /\ Out(r) = None
    BY <2>1 DEF Admit, TypeOK
  <2>2. CASE ~(Admit(r) /\ Out(r) = None)
    BY <2>2, OutputStays
  <2>3. QED
    BY <2>1, <2>2
<1>4. QED
  BY <1>2, <1>3 DEF Admission!vars

LEMMA AdmitRefines ==
  ASSUME TypeOK, NEW r \in Runs, TempInv(r), Admit(r), Out(r) = None,
         NEW c \in Checkouts, Dir[r] = c
  PROVE  Admission(c)!Next
<1> DEFINE v == held[r]
           w == temp[r].sha
<1>1. /\ temp[r] \in Bundle /\ v \in Valid \cap seen[r] /\ w \in seen[r]
      /\ temp[r].files = Inventory[v] /\ temp[r].manifest = Inventory[v]
      /\ v = w \/ r \in returned
  BY DEF Admit, TempInv
<1>2. temp[r] = [files |-> Inventory[v], sha |-> w, manifest |-> Inventory[v]]
  BY <1>1 DEF Bundle
<1>3. out[c] = None /\ out'[c] = temp[r] /\ Admission(c)!Over(r)
  <2>1. out' = [out EXCEPT ![Dir[r]] = temp[r]] /\ End(r, None) /\ UNCHANGED lock
    BY DEF Admit
  <2>2. QED
    BY <2>1, EndIsOver DEF TypeOK
<1>4. r \in RunsIn(c) /\ SeenIn(c)[r] = seen[r] /\ (r \in returned => r \in ReturnedIn(c))
  BY DEF RunsIn, SeenIn, ReturnedIn
<1> HIDE DEF v, w
<1>5. Admission(c)!Admit(r)
  BY <1>1, <1>2, <1>3, <1>4 DEF Admission!Admit
<1>6. QED
  BY <1>4, <1>5 DEF Admission!Next

LEMMA StepRefines ==
  ASSUME TypeOK, AcquireInv, NEW r \in Runs,
         ValidateLock(r) \/ Step(r) \/ Kill(r), NEW c \in Checkouts
  PROVE  [Admission(c)!Next]_(Admission(c)!vars)
<1>1. CASE Dir[r] # c
  BY <1>1, ElsewhereStutters
<1>2. CASE Dir[r] = c
  <2>1. CASE Fail(r)
    BY <1>2, <2>1, FailIsAbort
  <2>2. CASE ValidateLock(r)
    <3>1. pc[r] = "ended" /\ UNCHANGED <<lock, out, returned>>
          /\ seen' = [seen EXCEPT ![r] = {lock[c]}] /\ lock[c] \in Valid
      BY <1>2, <2>2 DEF ValidateLock
    <3>2. seen[r] = {} /\ r \in RunsIn(c)
      BY <1>2, <3>1 DEF AcquireInv, TempInv, RunsIn
    <3>3. /\ SeenIn(c)[r] = {} /\ SeenIn(c)' = [SeenIn(c) EXCEPT ![r] = {lock[c]}]
          /\ UNCHANGED ReturnedIn(c)
      BY <3>1, <3>2 DEF SeenIn, ReturnedIn, RunsIn, TypeOK
    <3>4. Admission(c)!Begin(r)
      BY <3>1, <3>3 DEF Admission!Begin
    <3>5. QED
      BY <3>2, <3>4 DEF Admission!Next
  <2>3. CASE Kill(r) \/ MakeTemp(r)
    <3>1. CASE \E rest \in {None, Remains} : End(r, rest)
      BY <1>2, <2>3, <3>1, EndIsAbort DEF Kill, MakeTemp
    <3>2. QED
      BY <2>3, <3>1, Stutters DEF Kill, MakeTemp
  <2>4. CASE Admit(r)
    BY <1>2, <2>1, <2>4, AdmitRefines DEF Admit, AcquireInv
  <2>5. CASE Fetch(r) \/ RetryOrRaise(r) \/ WriteRecords(r)
    BY <2>1, <2>5, Stutters DEF Fetch, RetryOrRaise, WriteRecords
  <2>6. CASE VerifyFiles(r) \/ VerifyRecords(r)
    BY <2>1, <2>6, Stutters DEF VerifyFiles, VerifyRecords
  <2>7. QED
    BY <2>1, <2>2, <2>3, <2>4, <2>5, <2>6 DEF Step, Raise
<1>3. QED
  BY <1>1, <1>2

(* An edit is seen by exactly the runs that are at work in the checkout.   *)
LEMMA EditRefines ==
  ASSUME TypeOK, AcquireInv, NEW d \in Checkouts, Edit(d), NEW c \in Checkouts
  PROVE  [Admission(c)!Next]_(Admission(c)!vars)
<1> DEFINE here == {r \in Runs : Dir[r] = d /\ pc[r] \in Running}
<1>1. PICK v \in Versions \ {lock[d]} :
        /\ lock' = [lock EXCEPT ![d] = v]
        /\ seen' = [r \in Runs |-> IF r \in here THEN seen[r] \cup {v} ELSE seen[r]]
        /\ returned' = returned \cup {r \in here : v \in seen[r]}
        /\ UNCHANGED out
  BY DEF Edit
<1>2. \A r \in Runs : pc[r] \in Running <=> seen[r] # {}
  BY DEF AcquireInv, TempInv, TypeOK
<1>3. CASE d = c
  <2>1. SeenIn(c)' = [r \in RunsIn(c) |-> IF SeenIn(c)[r] = {} THEN {}
                                          ELSE SeenIn(c)[r] \cup {v}]
    BY <1>1, <1>2, <1>3 DEF SeenIn, RunsIn
  <2>2. ReturnedIn(c)' = ReturnedIn(c) \cup {r \in RunsIn(c) : v \in SeenIn(c)[r]}
    BY <1>1, <1>2, <1>3 DEF ReturnedIn, SeenIn, RunsIn
  <2>3. Admission(c)!Edit
    BY <1>1, <1>3, <2>1, <2>2 DEF Admission!Edit, TypeOK
  <2>4. QED
    BY <2>3 DEF Admission!Next
<1>4. CASE d # c
  <2>1. SeenIn(c)' = SeenIn(c) /\ ReturnedIn(c)' = ReturnedIn(c)
    BY <1>1, <1>4 DEF SeenIn, ReturnedIn, RunsIn
  <2>2. QED
    BY <1>1, <1>4, <2>1 DEF Admission!vars, TypeOK
<1>5. QED
  BY <1>3, <1>4

LEMMA ClearRefines ==
  ASSUME TypeOK, NEW d \in Checkouts, Clear(d), NEW c \in Checkouts
  PROVE  [Admission(c)!Next]_(Admission(c)!vars)
<1>1. SeenIn(c)' = SeenIn(c) /\ ReturnedIn(c)' = ReturnedIn(c)
  BY DEF Clear, SeenIn, ReturnedIn
<1>2. CASE d = c
  BY <1>1, <1>2 DEF Clear, Admission!Next, Admission!Clear, TypeOK
<1>3. CASE d # c
  BY <1>1, <1>3 DEF Clear, Admission!vars, TypeOK
<1>4. QED
  BY <1>2, <1>3

(* The runs of every checkout implement AtomicAdmission: an output         *)
(* directory only goes from absent to a complete bundle, labelled with the *)
(* digest of its content unless a content came back during the run that    *)
(* made it, and back.                                                      *)
THEOREM AdmissionRefined == Spec => ImplementsAdmission
<1>1. Init => \A c \in Checkouts : Admission(c)!Init
  BY DEF Init, Admission!Init, SeenIn, ReturnedIn, RunsIn
<1>2. TypeOK /\ AcquireInv /\ [Next]_vars =>
        [\A c \in Checkouts : [Admission(c)!Next]_(Admission(c)!vars)]_vars
  <2> SUFFICES ASSUME TypeOK, AcquireInv, [Next]_vars, NEW c \in Checkouts
               PROVE  [Admission(c)!Next]_(Admission(c)!vars)
    OBVIOUS
  <2>1. CASE UNCHANGED vars
    BY <2>1, Stutters DEF vars
  <2>2. QED
    BY <2>1, EditRefines, ClearRefines, StepRefines DEF Next
<1> QED
  BY <1>1, <1>2, Invariance, PTL DEF Spec, ImplementsAdmission

-----------------------------------------------------------------------------
(* What Remaining is at every statement, before and after a step.          *)
LEMMA RemainingIs ==
  ASSUME NEW r \in Runs
  PROVE  /\ pc[r] = "output" => Remaining(r) = 3 * Len(Inventory[held[r]]) + 5
         /\ pc[r] = "download" => Remaining(r) = Missing(r) * 3 - attempt[r] + 4
         /\ pc[r] = "record" => Remaining(r) = 4
         /\ pc[r] = "verify" => Remaining(r) = 3
         /\ pc[r] = "compare" => Remaining(r) = 2
         /\ pc[r] = "admit" => Remaining(r) = 1
         /\ pc[r] = "ended" => Remaining(r) = 0
BY DEF Remaining

LEMMA RemainingIsAfter ==
  ASSUME NEW r \in Runs
  PROVE  /\ pc'[r] = "output" => Remaining(r)' = 3 * Len(Inventory[held'[r]]) + 5
         /\ pc'[r] = "download" => Remaining(r)' = Missing(r)' * 3 - attempt'[r] + 4
         /\ pc'[r] = "record" => Remaining(r)' = 4
         /\ pc'[r] = "verify" => Remaining(r)' = 3
         /\ pc'[r] = "compare" => Remaining(r)' = 2
         /\ pc'[r] = "admit" => Remaining(r)' = 1
         /\ pc'[r] = "ended" => Remaining(r)' = 0
BY DEF Remaining

(* A run that downloads misses at least one file.                          *)
LEMMA MissingPositive ==
  ASSUME TypeOK, AcquireInv, NEW r \in Runs
  PROVE  /\ pc[r] = "output" => Len(Inventory[held[r]]) \in Nat
         /\ pc[r] = "download" =>
              /\ Missing(r) \in Nat \ {0} /\ attempt[r] \in 0 .. 2
              /\ temp[r] \in Bundle /\ held[r] \in Valid
              /\ Len(Inventory[held[r]]) \in Nat /\ Len(temp[r].files) \in Nat
<1>1. ASSUME pc[r] \in {"output", "download"}
      PROVE  Inventory[held[r]] \in Seq(Files) /\ held[r] \in Valid
  BY <1>1, FilesAssumption DEF AcquireInv, TempInv
<1>2. ASSUME pc[r] = "download"
      PROVE  /\ temp[r] \in Bundle /\ temp[r].files \in Seq(Files)
             /\ Len(temp[r].files) < Len(Inventory[held[r]])
  BY <1>2 DEF AcquireInv, TempInv, Bundle
<1>3. attempt[r] \in 0 .. 2
  BY DEF TypeOK
<1>4. \A t \in Seq(Files) : Len(t) \in Nat
  OBVIOUS
<1> QED
  BY <1>1, <1>2, <1>3, <1>4 DEF Missing

(* The statements a run has left.                                          *)
LEMMA RemainingNat ==
  ASSUME TypeOK, AcquireInv, NEW r \in Runs
  PROVE  /\ Remaining(r) \in Nat
         /\ pc[r] \in Running => Remaining(r) > 0
         /\ pc[r] \in {"output", "download"} => Remaining(r) > 4
<1>1. pc[r] \in Running \cup {"ended"}
  BY DEF TypeOK
<1>2. CASE pc[r] = "output"
  <2>1. Len(Inventory[held[r]]) \in Nat
    BY <1>2, MissingPositive
  <2> QED
    BY <1>2, <2>1, RemainingIs
<1>3. CASE pc[r] = "download"
  <2>1. Missing(r) \in Nat \ {0} /\ attempt[r] \in 0 .. 2
    BY <1>3, MissingPositive
  <2> QED
    BY <1>3, <2>1, RemainingIs
<1> QED
  BY <1>1, <1>2, <1>3, RemainingIs

LEMMA StepShortens ==
  ASSUME TypeOK, AcquireInv, TypeOK', AcquireInv', NEW r \in Runs, Step(r)
  PROVE  Remaining(r)' \in 0 .. (Remaining(r) - 1)
<1>t. /\ pc \in [Runs -> Running \cup {"ended"}] /\ attempt \in [Runs -> 0 .. 2]
      /\ temp \in [Runs -> Bundle \cup {None, Remains}]
  BY DEF TypeOK
<1>n. /\ Remaining(r) \in Nat
      /\ pc[r] \in Running => Remaining(r) > 0
      /\ pc[r] \in {"output", "download"} => Remaining(r) > 4
  BY RemainingNat
<1>e. ASSUME pc[r] \in Running, NEW rest, End(r, rest)
      PROVE  Remaining(r)' \in 0 .. (Remaining(r) - 1)
  <2>1. pc'[r] = "ended"
    BY <1>e, <1>t DEF End
  <2>2. QED
    BY <1>e, <1>n, <2>1, RemainingIsAfter
<1>f. ASSUME pc[r] \in Running, Fail(r)
      PROVE  Remaining(r)' \in 0 .. (Remaining(r) - 1)
  BY <1>e, <1>f DEF Fail
<1>1. CASE MakeTemp(r)
  <2>1. pc[r] = "output" /\ Len(Inventory[held[r]]) \in Nat
    BY <1>1, MissingPositive DEF MakeTemp
  <2>2. CASE End(r, None)
    BY <1>e, <2>1, <2>2
  <2>3. CASE ~End(r, None)
    <3>1. temp'[r].files = <<>> /\ held' = held /\ attempt' = attempt
          /\ pc'[r] = "download"
      BY <1>1, <1>t, <2>3 DEF MakeTemp
    <3>2. Missing(r)' = Len(Inventory[held[r]]) /\ attempt'[r] \in 0 .. 2
      BY <1>t, <3>1 DEF Missing
    <3>3. Remaining(r) = 3 * Len(Inventory[held[r]]) + 5
      BY <2>1, RemainingIs
    <3>4. Remaining(r)' = Len(Inventory[held[r]]) * 3 - attempt'[r] + 4
      BY <3>1, <3>2, RemainingIsAfter
    <3> QED
      BY <2>1, <3>2, <3>3, <3>4
  <2> QED
    BY <2>2, <2>3
<1>2. CASE Fetch(r) /\ ~Fail(r)
  <2>1. pc[r] = "download" /\ held' = held
    BY <1>2 DEF Fetch
  <2>2. CASE pc'[r] = "record"
    BY <1>n, <2>1, <2>2, RemainingIsAfter
  <2>3. CASE pc'[r] = "download"
    <3> DEFINE f == Inventory[held[r]][Len(temp[r].files) + 1]
    <3>1. /\ temp' = [temp EXCEPT ![r].files = Append(@, f)]
          /\ attempt'[r] = 0
      BY <1>2, <1>t DEF Fetch
    <3>2. temp[r] \in Bundle /\ temp'[r].files = Append(temp[r].files, f)
      BY <1>t, <2>1, <3>1, MissingPositive DEF Bundle
    <3>3. Len(temp'[r].files) = Len(temp[r].files) + 1
      BY <3>2 DEF Bundle
    <3>4. Missing(r) \in Nat \ {0} /\ Missing(r)' = Missing(r) - 1
          /\ attempt[r] \in 0 .. 2
      BY <2>1, <3>3, MissingPositive DEF Missing
    <3> QED
      BY <1>n, <2>1, <2>3, <3>1, <3>4, RemainingIs, RemainingIsAfter
  <2> QED
    BY <1>2, <1>t, <2>2, <2>3 DEF Fetch
<1>3. CASE RetryOrRaise(r) /\ ~Fail(r)
  <2>1. pc[r] = "download" /\ pc'[r] = "download"
    BY <1>3 DEF RetryOrRaise
  <2>2. attempt'[r] = attempt[r] + 1 /\ Missing(r)' = Missing(r) /\ attempt[r] # 2
    BY <1>3, <1>t DEF RetryOrRaise, Missing
  <2>3. Missing(r) \in Nat \ {0} /\ attempt[r] \in 0 .. 1
    BY <1>t, <2>1, <2>2, MissingPositive
  <2> QED
    BY <1>n, <2>1, <2>2, <2>3, RemainingIs, RemainingIsAfter
<1>4. CASE WriteRecords(r)
  <2>1. pc[r] = "record" /\ pc'[r] = "verify"
    BY <1>4, <1>t DEF WriteRecords
  <2> QED
    BY <2>1, RemainingIs, RemainingIsAfter
<1>5. CASE VerifyFiles(r) /\ ~Fail(r)
  <2>1. pc[r] = "verify" /\ pc'[r] = "compare"
    BY <1>5, <1>t DEF VerifyFiles
  <2> QED
    BY <2>1, RemainingIs, RemainingIsAfter
<1>6. CASE VerifyRecords(r) /\ ~Fail(r)
  <2>1. pc[r] = "compare" /\ pc'[r] = "admit"
    BY <1>6, <1>t DEF VerifyRecords
  <2> QED
    BY <2>1, RemainingIs, RemainingIsAfter
<1>7. CASE Admit(r) /\ ~Fail(r)
  BY <1>7, <1>e DEF Admit
<1>8. pc[r] \in Running
  BY DEF Step, MakeTemp, Fetch, RetryOrRaise, WriteRecords, VerifyFiles,
         VerifyRecords, Admit, Raise
<1> QED
  BY <1>1, <1>2, <1>3, <1>4, <1>5, <1>6, <1>7, <1>8, <1>f DEF Step, Raise

(* What the others do leaves a run where it is.                            *)
LEMMA OthersLeave ==
  ASSUME TypeOK, NEW q \in Runs,
         \/ \E c \in Checkouts : Edit(c) \/ Clear(c)
         \/ UNCHANGED vars
         \/ \E r \in Runs \ {q} : Kill(r) \/ ValidateLock(r) \/ Step(r)
  PROVE  UNCHANGED <<pc[q], temp[q], attempt[q]>>
<1>1. CASE (\E c \in Checkouts : Edit(c) \/ Clear(c)) \/ UNCHANGED vars
  BY <1>1 DEF Edit, Clear, vars
<1>2. ASSUME NEW r \in Runs \ {q}, Kill(r) \/ ValidateLock(r) \/ Step(r)
      PROVE  UNCHANGED <<pc[q], temp[q], attempt[q]>>
  BY <1>2, OtherRuns
<1> QED
  BY <1>1, <1>2

(* Every statement of a run brings it nearer to its end.  Together with    *)
(* the fairness of Step it is why AcquireEnds holds.                       *)
THEOREM StepsBoundedSafe == Spec => StepsBounded
<1> DEFINE At(r) == <<pc[r], temp[r], attempt[r]>>
           Nearer(r) == pc[r] \in Running /\ At(r)' # At(r)
                          => Remaining(r)' \in 0 .. (Remaining(r) - 1)
<1>1. TypeOK /\ AcquireInv /\ (TypeOK /\ AcquireInv)' /\ [Next]_vars
        => \A r \in Runs : Nearer(r)
  <2> SUFFICES ASSUME TypeOK, AcquireInv, TypeOK', AcquireInv', [Next]_vars,
                      NEW q \in Runs, pc[q] \in Running, At(q)' # At(q)
               PROVE  Remaining(q)' \in 0 .. (Remaining(q) - 1)
    OBVIOUS
  <2>1. CASE Kill(q)
    <3>1. pc'[q] = "ended"
      BY <2>1 DEF Kill, End, TypeOK
    <3>2. Remaining(q) \in Nat \ {0}
      BY RemainingNat
    <3> QED
      BY <3>1, <3>2, RemainingIsAfter
  <2>2. CASE ValidateLock(q)
    BY <2>2 DEF ValidateLock
  <2>3. CASE Step(q)
    BY <2>3, StepShortens
  <2> QED
    BY <2>1, <2>2, <2>3, OthersLeave DEF Next
<1> QED
  BY <1>1, Invariance, PTL DEF Spec, StepsBounded

=============================================================================
