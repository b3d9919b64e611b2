---------------------------- MODULE ViewsProofs -----------------------------
(***************************************************************************)
(* Proofs about ControlViews, for any documents and any processes: what    *)
(* the end of a run says about the files.                                  *)
(***************************************************************************)
EXTENDS ControlViews, TLAPS

USE ViewsAssumption
USE DEF documents, runs, Running, Writing

(* A text without a carriage return is read as it was written.             *)
LEMMA ReadAsWritten ==
  ASSUME NEW n \in OscalDrafts, ~Returns(n)
  PROVE  ReadText(Shown[n]) = Shown[n]
<1> DEFINE Same(x) == [f \in DOMAIN x |-> Translated(x[f])]
<1>1. \A x \in Shown[n] : x = [f \in DOMAIN x |-> x[f]]
  <2>1. \A r : Row(r) = [f \in DOMAIN Row(r) |-> Row(r)[f]]
    BY DEF Row
  <2>2. \A x \in Shown[n] : \E r : x = Row(r)
    BY DEF Shown, View
  <2>3. QED
    BY <2>1, <2>2
<1>2. \A x \in Shown[n] : \A f \in DOMAIN x : Translated(x[f]) = x[f]
  BY DEF Returns, Translated
<1>3. \A x \in Shown[n] : Same(x) = x
  BY <1>1, <1>2
<1>4. {Same(x) : x \in Shown[n]} = Shown[n]
  BY <1>3
<1>5. QED
  BY <1>4 DEF ReadText

-----------------------------------------------------------------------------
(* The inductive invariant: a quiet run has seen the files as they are.    *)

(* The view v is as the run p wants it.                                    *)
Right(p, v) == (IF check[p] THEN ReadText(views[v]) ELSE views[v]) = Shown[read[p]]

QuietRun(p) ==
  quiet[p] =>
    /\ step[p] \in {"sources", "exceptions", "schema"} \cup Writing => read[p] = oscal
    /\ step[p] \in {"exceptions", "schema"} \cup Writing => sources \in AcceptedSources
    /\ step[p] \in {"schema"} \cup Writing => exceptions \in AcceptedExceptions
    /\ step[p] = "fill csv" => views["csv"] = Truncated /\ ~check[p]
    /\ step[p] = "fill markdown" => views["markdown"] = Truncated /\ ~check[p]
    /\ step[p] \in {"markdown", "fill markdown", "ok"} => Right(p, "csv")
    /\ step[p] = "ok" => Right(p, "markdown")

(* A view may be stale to a reader.                                        *)
Stale == Returns(oscal) \/ \E v \in ViewFiles : views[v] # Shown[oscal]

HasReason(p) == step[p] = "failed" /\ quiet[p] =>
                  ~Consistent(p) \/ ~Printable(oscal) \/ (check[p] /\ Stale)

EndsRight(p) == QuietRun(p) /\ HasReason(p)

ViewsInv == ViewsTypeOK /\ \A p \in Processes : EndsRight(p)

LEMMA InitialViews == ViewsInit => ViewsInv
  BY DEF ViewsInit, ViewsInv, ViewsTypeOK, EndsRight, QuietRun, HasReason, ViewFiles,
         Unwritten

(* The others: a process that does not move keeps this, or is disturbed.   *)
LEMMA OthersStep ==
  ASSUME NEW q, EndsRight(q), UNCHANGED <<step[q], check[q], strict[q], read[q]>>,
         ~quiet'[q] \/ UNCHANGED <<oscal, sources, exceptions, views, quiet[q]>>
  PROVE  EndsRight(q)'
<1>1. CASE ~quiet'[q]
  BY <1>1 DEF EndsRight, QuietRun, HasReason
<1>2. CASE UNCHANGED <<oscal, sources, exceptions, views, quiet[q]>>
  <2>1. /\ Consistent(q)' = Consistent(q) /\ Stale' = Stale
        /\ Printable(oscal)' = Printable(oscal)
    BY <1>2 DEF Consistent, Stale, Returns, Printable
  <2>2. QuietRun(q)'
    BY <1>2 DEF EndsRight, QuietRun, Right, ReadText
  <2>3. HasReason(q)'
    BY <1>2, <2>1 DEF EndsRight, HasReason
  <2>4. QED
    BY <2>2, <2>3 DEF EndsRight
<1>3. QED
  BY <1>1, <1>2

LEMMA EditStep ==
  ASSUME ViewsInv, NEW file, Edit(file)
  PROVE  ViewsInv'
<1>1. \A p \in Processes : ~quiet'[p]
  BY DEF Edit
<1>2. oscal' \in OscalDrafts /\ sources' \in SourceDrafts /\ exceptions' \in ExceptionDrafts
  BY DEF Edit, ViewsInv, ViewsTypeOK
<1>3. views' = views \/ views' = [views EXCEPT ![file] = Edited]
  BY DEF Edit
<1>4. views' \in [ViewFiles -> Unwritten \cup {Shown[n] : n \in OscalDrafts}]
  BY <1>3 DEF ViewsInv, ViewsTypeOK, Unwritten
<1>5. quiet' \in [Processes -> BOOLEAN]
  BY Zenon DEF Edit
<1>6. edits' \in 0 .. MaxEdits
  <2>1. edits \in 0 .. MaxEdits
    BY DEF ViewsInv, ViewsTypeOK
  <2>2. edits < MaxEdits /\ edits' = edits + 1
    BY DEF Edit
  <2>3. QED
    BY <2>1, <2>2
<1>7. UNCHANGED <<step, check, strict, read>>
  BY DEF Edit
<1>8. ViewsTypeOK'
  BY <1>2, <1>4, <1>5, <1>6, <1>7 DEF ViewsInv, ViewsTypeOK
<1>9. \A p \in Processes : EndsRight(p)'
  BY <1>1, <1>7, OthersStep DEF ViewsInv
<1>10. QED
  BY <1>8, <1>9 DEF ViewsInv

LEMMA RunStep ==
  ASSUME ViewsInv, NEW p \in Processes, Run(p) \/ KillRun(p)
  PROVE  ViewsInv'
<1>1. quiet' \in [Processes -> BOOLEAN]
  BY Zenon DEF ViewsInv, ViewsTypeOK, Run, KillRun
<1>2. /\ check' \in [Processes -> BOOLEAN] /\ strict' \in [Processes -> BOOLEAN]
      /\ step'[p] \in {"oscal", "idle"}
      /\ step' \in [Processes -> Running \cup {"idle", "ok", "failed"}]
      /\ read' \in [Processes -> OscalDrafts \cup {Garbage}]
      /\ UNCHANGED <<oscal, sources, exceptions, edits>>
      /\ views' = views \/ \E v \in ViewFiles : views' = [views EXCEPT ![v] = Torn]
      /\ \A q \in Processes \ {p} : UNCHANGED <<step[q], check[q], strict[q], read[q]>>
  <2>1. CASE Run(p)
    <3>1. PICK o \in Options[p] : /\ check' = [check EXCEPT ![p] = o[1]]
                                 /\ strict' = [strict EXCEPT ![p] = o[2]]
      BY <2>1 DEF Run
    <3>2. o[1] \in BOOLEAN /\ o[2] \in BOOLEAN
      OBVIOUS
    <3>3. QED
      BY <2>1, <3>1, <3>2 DEF ViewsInv, ViewsTypeOK, Run
  <2>2. CASE KillRun(p)
    BY <2>2 DEF ViewsInv, ViewsTypeOK, KillRun, Filled
  <2>3. QED
    BY <2>1, <2>2
<1>3. ViewsTypeOK'
  <2>1. views' \in [ViewFiles -> Unwritten \cup {Shown[n] : n \in OscalDrafts}]
    BY <1>2 DEF ViewsInv, ViewsTypeOK, Unwritten
  <2>2. QED
    BY <1>1, <1>2, <2>1 DEF ViewsInv, ViewsTypeOK
<1>4. EndsRight(p)'
  BY <1>2 DEF EndsRight, QuietRun, HasReason
<1>5. \A q \in Processes \ {p} : ~quiet'[q] \/ (quiet'[q] = quiet[q] /\ views' = views)
  BY Zenon DEF Run, KillRun, ViewsInv, ViewsTypeOK
<1>6. \A q \in Processes \ {p} : EndsRight(q)'
  BY <1>2, <1>5, OthersStep DEF ViewsInv
<1>7. QED
  BY <1>3, <1>4, <1>6 DEF ViewsInv

(* A step that changes no file but reads or compares.                      *)
Looks(p) ==
  /\ UNCHANGED <<oscal, sources, exceptions, views, edits, check, strict, quiet>>
  /\ \A q \in Processes \ {p} : UNCHANGED <<step[q], read[q]>>

LEMMA LookStep ==
  ASSUME ViewsInv, NEW p \in Processes, Looks(p), ViewsTypeOK', EndsRight(p)'
  PROVE  ViewsInv'
<1>1. \A q \in Processes \ {p} : EndsRight(q)'
  BY OthersStep DEF ViewsInv, Looks
<1>2. QED
  BY <1>1 DEF ViewsInv

LEMMA ReadStep ==
  ASSUME ViewsInv, NEW p \in Processes, ReadOscal(p)
  PROVE  ViewsInv'
<1>1. /\ Looks(p) /\ read'[p] = oscal
      /\ step'[p] = IF oscal \in Accepted THEN "sources" ELSE "failed"
  BY DEF ViewsInv, ViewsTypeOK, ReadOscal, Continue, Looks
<1>2. ViewsTypeOK'
  BY DEF ViewsInv, ViewsTypeOK, ReadOscal, Continue
<1>3. EndsRight(p)'
  BY <1>1 DEF EndsRight, QuietRun, HasReason, Consistent, Looks
<1>4. QED
  BY <1>1, <1>2, <1>3, LookStep

LEMMA ValidateStep ==
  ASSUME ViewsInv, NEW p \in Processes, ReadSources(p) \/ ReadExceptions(p) \/ CheckSchema(p)
  PROVE  ViewsInv'
<1>1. /\ Looks(p) /\ read'[p] = read[p]
      /\ \/ /\ step[p] = "sources"
            /\ step'[p] = IF sources \in AcceptedSources THEN "exceptions" ELSE "failed"
         \/ /\ step[p] = "exceptions"
            /\ step'[p] = IF exceptions \in AcceptedExceptions THEN "schema" ELSE "failed"
         \/ /\ step[p] = "schema"
            /\ step'[p] = IF strict[p] => read[p] \in Conforms THEN "csv" ELSE "failed"
  BY DEF ViewsInv, ViewsTypeOK, ReadSources, ReadExceptions, CheckSchema, Continue, Untouched, Looks
<1>2. step' \in [Processes -> Running \cup {"idle", "ok", "failed"}] /\ read' = read
  BY DEF ViewsInv, ViewsTypeOK, ReadSources, ReadExceptions, CheckSchema, Continue, Untouched
<1>3. ViewsTypeOK'
  BY <1>1, <1>2 DEF ViewsInv, ViewsTypeOK, Looks
<1>4. EndsRight(p)'
  BY <1>1 DEF ViewsInv, EndsRight, QuietRun, HasReason, Consistent, Looks
<1>5. QED
  BY <1>1, <1>3, <1>4, LookStep

LEMMA CompareStep ==
  ASSUME ViewsInv, NEW p \in Processes,
         Compare(p, "csv", "markdown") \/ Compare(p, "markdown", "ok")
  PROVE  ViewsInv'
<1>1. /\ Looks(p) /\ read' = read /\ check[p]
      /\ \/ /\ step[p] = "csv"
            /\ step'[p] = IF Right(p, "csv") THEN "markdown" ELSE "failed"
         \/ /\ step[p] = "markdown"
            /\ step'[p] = IF Right(p, "markdown") THEN "ok" ELSE "failed"
  BY DEF ViewsInv, ViewsTypeOK, Compare, Continue, Untouched, Looks, Right
<1>2. step' \in [Processes -> Running \cup {"idle", "ok", "failed"}]
  BY DEF ViewsInv, ViewsTypeOK, Compare, Continue
<1>3. ViewsTypeOK'
  BY <1>1, <1>2 DEF ViewsInv, ViewsTypeOK, Looks
<1>4. \A v : Right(p, v)' = Right(p, v)
  BY <1>1 DEF Right, ReadText, Looks
<1>5. QuietRun(p)'
  BY <1>1, <1>4 DEF ViewsInv, EndsRight, QuietRun, Looks
<1>6. HasReason(p)'
  <2> SUFFICES ASSUME step'[p] = "failed", quiet'[p] PROVE Stale'
    BY <1>1 DEF HasReason, Looks
  <2>1. quiet[p] /\ read[p] = oscal /\ oscal \in OscalDrafts
    BY <1>1 DEF ViewsInv, ViewsTypeOK, EndsRight, QuietRun, Looks
  <2>2. PICK v \in ViewFiles : ~Right(p, v)
    BY <1>1 DEF ViewFiles
  <2>3. ReadText(views[v]) # Shown[oscal]
    BY <1>1, <2>1, <2>2 DEF Right
  <2>4. Stale
    BY <2>1, <2>3, ReadAsWritten DEF Stale
  <2>5. QED
    BY <1>1, <2>4 DEF Stale, Returns, Looks
<1>7. QED
  BY <1>1, <1>3, <1>5, <1>6, LookStep DEF EndsRight

LEMMA RenderFailsStep ==
  ASSUME ViewsInv, NEW p \in Processes, RenderFails(p)
  PROVE  ViewsInv'
<1>1. /\ Looks(p) /\ read' = read /\ step[p] = "markdown" /\ step'[p] = "failed"
      /\ ~Printable(read[p])
  BY DEF ViewsInv, ViewsTypeOK, RenderFails, Render, Continue, Untouched, Looks
<1>2. step' \in [Processes -> Running \cup {"idle", "ok", "failed"}]
  BY DEF ViewsInv, ViewsTypeOK, RenderFails, Continue
<1>3. ViewsTypeOK'
  BY <1>1, <1>2 DEF ViewsInv, ViewsTypeOK, Looks
<1>4. QuietRun(p)'
  BY <1>1 DEF QuietRun
<1>5. HasReason(p)'
  BY <1>1 DEF ViewsInv, EndsRight, QuietRun, HasReason, Printable, Looks
<1>6. QED
  BY <1>1, <1>3, <1>4, <1>5, LookStep DEF EndsRight

LEMMA WriteStep ==
  ASSUME ViewsInv, NEW p \in Processes,
         \/ Truncate(p, "csv", "fill csv") \/ Fill(p, "fill csv", "csv", "markdown")
         \/ Truncate(p, "markdown", "fill markdown")
         \/ Fill(p, "fill markdown", "markdown", "ok")
  PROVE  ViewsInv'
<1>1. /\ UNCHANGED <<oscal, sources, exceptions, edits, check, strict, read>>
      /\ quiet' = [q \in Processes |-> quiet[q] /\ q = p]
      /\ \A q \in Processes \ {p} : UNCHANGED step[q]
      /\ step' \in [Processes -> Running \cup {"idle", "ok", "failed"}]
      /\ read[p] \in Accepted
  BY DEF ViewsInv, ViewsTypeOK, Truncate, Fill, Change
<1>2. \E v \in ViewFiles : \E content \in {Truncated, Torn, views[v], Shown[read[p]]} :
        views' = [views EXCEPT ![v] = content]
  BY DEF Truncate, Fill, Change, ViewFiles
<1>3. views' \in [ViewFiles -> Unwritten \cup {Shown[n] : n \in OscalDrafts}]
  <2>1. Shown[read[p]] \in {Shown[n] : n \in OscalDrafts}
    BY <1>1 DEF Accepted
  <2>2. QED
    BY <1>2, <2>1 DEF ViewsInv, ViewsTypeOK, Unwritten
<1>4. quiet' \in [Processes -> BOOLEAN]
  BY <1>1, Zenon
<1>5. \A q \in Processes : (quiet'[q] => quiet[q]) /\ (q # p => ~quiet'[q])
  BY <1>1, Zenon
<1>6. ViewsTypeOK'
  <2>1. step'[p] \in {"fill csv", "markdown", "fill markdown", "ok"} /\ step[p] \in Writing
    BY DEF ViewsInv, ViewsTypeOK, Truncate, Fill, Change
  <2>2. QED
    BY <1>1, <1>3, <1>4, <2>1 DEF ViewsInv, ViewsTypeOK
<1>7. EndsRight(p)'
  <2> SUFFICES ASSUME quiet'[p] PROVE EndsRight(p)'
    BY DEF EndsRight, QuietRun, HasReason
  <2>1. quiet[p] /\ QuietRun(p) /\ views \in [ViewFiles -> Unwritten \cup {Shown[n] : n \in OscalDrafts}]
    BY <1>5 DEF ViewsInv, ViewsTypeOK, EndsRight
  <2>2. \/ /\ step[p] = "csv" /\ step'[p] = "fill csv" /\ ~check[p]
           /\ views'["csv"] = Truncated
        \/ /\ step[p] = "fill csv" /\ step'[p] = "markdown" /\ ~check[p]
           /\ views'["csv"] = Shown[read[p]]
        \/ /\ step[p] = "markdown" /\ step'[p] = "fill markdown" /\ ~check[p]
           /\ views'["csv"] = views["csv"] /\ views'["markdown"] = Truncated
        \/ /\ step[p] = "fill markdown" /\ step'[p] = "ok" /\ ~check[p]
           /\ views'["csv"] = views["csv"] /\ views'["markdown"] = Shown[read[p]]
    BY <2>1 DEF ViewsInv, ViewsTypeOK, Truncate, Fill, Change, ViewFiles, QuietRun
  <2>3. QuietRun(p)'
    BY <1>1, <2>1, <2>2 DEF QuietRun, Right
  <2>4. HasReason(p)'
    BY <2>2 DEF HasReason
  <2>5. QED
    BY <2>3, <2>4 DEF EndsRight
<1>8. \A q \in Processes \ {p} : EndsRight(q)'
  BY <1>1, <1>5, OthersStep DEF ViewsInv
<1>9. QED
  BY <1>6, <1>7, <1>8 DEF ViewsInv

LEMMA ViewsStep == ViewsInv /\ [ViewsNext]_viewsVars => ViewsInv'
<1> SUFFICES ASSUME ViewsInv, [ViewsNext]_viewsVars PROVE ViewsInv'
  OBVIOUS
<1>1. CASE UNCHANGED viewsVars
  BY <1>1, OthersStep DEF viewsVars, ViewsInv, ViewsTypeOK
<1>2. CASE \E file \in {"oscal", "sources", "exceptions"} \cup ViewFiles : Edit(file)
  BY <1>2, EditStep
<1>3. ASSUME NEW p \in Processes, \/ Run(p) \/ KillRun(p) \/ ReadOscal(p) \/ ReadSources(p)
                                 \/ ReadExceptions(p) \/ CheckSchema(p)
      PROVE  ViewsInv'
  BY <1>3, RunStep, ReadStep, ValidateStep
<1>4. ASSUME NEW p \in Processes, Csv(p) \/ Markdown(p)
      PROVE  ViewsInv'
  BY <1>4, CompareStep, WriteStep, RenderFailsStep DEF Csv, Markdown
<1>5. QED
  BY <1>1, <1>2, <1>3, <1>4 DEF ViewsNext

LEMMA ViewsInductive == ViewsSpec => []ViewsInv
  BY InitialViews, ViewsStep, PTL DEF ViewsSpec

(* Types: among them, that a run comes to the views only with a document   *)
(* that passed every check asked for.                                      *)
THEOREM ViewsTypeCorrect == ViewsSpec => []ViewsTypeOK
  BY ViewsInductive, PTL DEF ViewsInv

(* A run that ends well and undisturbed says that the documents are valid  *)
(* and that both views are fresh, to a run that checks when they are read. *)
THEOREM GreenSafe == ViewsSpec => []GreenIsCurrent
<1>1. ViewsInv => GreenIsCurrent
  BY DEF ViewsInv, ViewsTypeOK, EndsRight, QuietRun, GreenIsCurrent, Consistent, Fresh,
         Right, ViewFiles
<1>2. QED
  BY <1>1, ViewsInductive, PTL

(* One that fails undisturbed has a reason in the files: a document that   *)
(* is not valid or a description that no view can be made of, or, for      *)
(* --check, a view that is stale or a carriage return in the document.     *)
THEOREM RedSafe == ViewsSpec => []RedHasReason
<1>1. ViewsInv => RedHasReason
  BY DEF ViewsInv, EndsRight, HasReason, RedHasReason, Stale
<1>2. QED
  BY <1>1, ViewsInductive, PTL

=============================================================================
