---------------------------- MODULE ControlViews ----------------------------
(***************************************************************************)
(* scripts/cybersecurity.py: runs of it in one working tree check the      *)
(* OSCAL component definition and the two registers, and write the views   *)
(* sctm.csv and CONTROL-IMPLEMENTATION.md or, with --check, compare them.  *)
(* People edit the files at any time, also between two steps of a run, and *)
(* a run may be killed.  A document is Garbage when it has not the outer   *)
(* form that the script asks for.                                          *)
(***************************************************************************)
EXTENDS Naturals, Sequences

CONSTANTS Processes,
          Options,          \* how a process is started: <<with --check, with
                            \* --oscal-schema>>
          OscalDrafts,      \* names of the OSCAL documents that people write
          Document,         \* and what is in them
          Conforms,         \* those that the OSCAL schema allows
          SourceDrafts, ExceptionDrafts,  \* what people write into the registers
          RepositoryPaths,  \* values that begin with docs/, tests/ or .github/
          Digests,          \* strings that are a SHA-256
          Malformed,        \* a value that is no string
          Blank,            \* the empty string
          Return, Line,     \* a text with a carriage return, and what is read
                            \* of it: the same with a line feed instead
          Garbage,
          Absent, Truncated, Torn, Edited,  \* a view that no run has written
                            \* in full: part of a text, or of two, is torn
          MaxEdits          \* bound: changes by people

ASSUME ViewsAssumption ==
  /\ OscalDrafts # {} /\ SourceDrafts # {} /\ ExceptionDrafts # {}
  /\ MaxEdits \in Nat
  /\ Options \in [Processes -> SUBSET (BOOLEAN \X BOOLEAN)]

Classifications == {"image-owned", "deployment-supported", "inherited",
                    "not-applicable", "unsupported", "research-required"}
RequiredProps == {"classification", "source-requirement", "rationale", "residual-risk",
                  "evidence", "owner", "review-status", "assessment-method",
                  "default-state", "configurable-state", "prerequisites",
                  "restart-behavior", "operational-impact", "loss-of-protection",
                  "limitations"}

-----------------------------------------------------------------------------
(* The checks.  A document is the sequence of its implemented requirements *)
(* (of the first component, all implementations); a requirement's own      *)
(* properties are those in the namespace of the project.                   *)

Own(r) == {i \in DOMAIN r.props : r.props[i].ns = "postgresql-ubi"}
Names(r) == {r.props[i].name : i \in Own(r)}
PropValue(r, name) == LET i == CHOOSE i \in Own(r) : r.props[i].name = name
                      IN  r.props[i].value

ValidProperties(r) ==
  /\ \A i \in Own(r) : r.props[i].name # Malformed /\ r.props[i].value # Malformed
  /\ \A i, j \in Own(r) : r.props[i].name = r.props[j].name => i = j

ValidRequirement(r) ==
  /\ r.id \notin {Malformed, Blank} /\ ValidProperties(r)
  /\ \A name \in RequiredProps : name \in Names(r) /\ PropValue(r, name) # Blank
  /\ PropValue(r, "classification") \in Classifications
  /\ PropValue(r, "review-status") \in {"reviewed", "pending-independent-review"}
  /\ PropValue(r, "evidence") \in RepositoryPaths

ValidControls(d) ==
  /\ d \notin {Garbage, <<>>}
  /\ \A i \in DOMAIN d : ValidRequirement(d[i])
  /\ \A i, j \in DOMAIN d : d[i].id = d[j].id => i = j

ValidSources(d) ==
  /\ d \notin {Garbage, <<>>}
  /\ \A i \in DOMAIN d :
       /\ d[i].complete /\ d[i].sha256 \in Digests
       /\ d[i].status \in {"current", "superseded", "sunset", "reference"}
  /\ \A i, j \in DOMAIN d : d[i].id = d[j].id => i = j

ValidExceptions(d) ==
  /\ d # Garbage
  /\ \A i \in DOMAIN d :
       /\ d[i].complete /\ d[i].digest \in Digests
       /\ d[i].architecture \in {"amd64", "arm64"} /\ d[i].expires # "never"

(* The record of a requirement, in which a property of that name replaces  *)
(* the control ID or the description.  Both views show the same fields of  *)
(* the records in the order of control_id, so that a view is a set here.   *)
Field(r, f) == IF f \in Names(r) THEN PropValue(r, f)
               ELSE IF f = "control_id" THEN r.id ELSE r.description

Row(r) == [f \in {"control_id", "description"} \cup RequiredProps |-> Field(r, f)]
View(d) == {Row(d[i]) : i \in DOMAIN d}

Accepted == {n \in OscalDrafts : ValidControls(Document[n])}
AcceptedSources == {d \in SourceDrafts : ValidSources(d)}
AcceptedExceptions == {d \in ExceptionDrafts : ValidExceptions(d)}
Shown == [n \in OscalDrafts |-> View(Document[n])]

(* The Markdown view joins strings; nothing has checked a description.     *)
Printable(n) == \A x \in Shown[n] : x["description"] # Malformed

(* Views are written as they are and read with newlines translated.        *)
Unwritten == {Absent, Truncated, Torn, Edited}
Translated(text) == IF text = Return THEN Line ELSE text
ReadText(view) ==
  IF view \in Unwritten THEN view
  ELSE {[f \in DOMAIN x |-> Translated(x[f])] : x \in view}
Returns(n) == \E x \in Shown[n] : \E f \in DOMAIN x : x[f] = Return

-----------------------------------------------------------------------------
VARIABLES oscal, sources, exceptions,  \* the files
          views,   \* the two views
          edits,   \* number of changes by people
          step,    \* the next step of a run
          check,   \* it has --check
          strict,  \* it has --oscal-schema, with the schema that is pinned
          read,    \* the OSCAL document it has read
          quiet    \* history: since a run began, nothing but this run has
                   \* changed a file

documents == <<oscal, sources, exceptions>>
runs == <<step, check, strict, read>>
viewsVars == <<documents, views, edits, runs, quiet>>

ViewFiles == {"csv", "markdown"}
Running == {"oscal", "sources", "exceptions", "schema", "csv", "fill csv",
            "markdown", "fill markdown"}

(* The view that a step fills.                                             *)
Filled(s) == {v \in ViewFiles : s = IF v = "csv" THEN "fill csv" ELSE "fill markdown"}

ViewsInit ==
  /\ oscal \in OscalDrafts /\ sources \in SourceDrafts /\ exceptions \in ExceptionDrafts
  /\ views = [v \in ViewFiles |-> Absent] /\ edits = 0
  /\ step = [p \in Processes |-> "idle"]
  /\ check = [p \in Processes |-> FALSE] /\ strict = [p \in Processes |-> FALSE]
  /\ read = [p \in Processes |-> Garbage]
  /\ quiet = [p \in Processes |-> FALSE]

Edit(file) ==
  /\ edits < MaxEdits /\ edits' = edits + 1
  /\ oscal' \in IF file = "oscal" THEN OscalDrafts ELSE {oscal}
  /\ sources' \in IF file = "sources" THEN SourceDrafts ELSE {sources}
  /\ exceptions' \in IF file = "exceptions" THEN ExceptionDrafts ELSE {exceptions}
  /\ views' \in IF file \in ViewFiles THEN {[views EXCEPT ![file] = Edited]} ELSE {views}
  /\ quiet' = [p \in Processes |-> FALSE]
  /\ UNCHANGED <<runs>>

Run(p) ==
  /\ step[p] \notin Running
  /\ step' = [step EXCEPT ![p] = "oscal"]
  /\ \E o \in Options[p] :
       check' = [check EXCEPT ![p] = o[1]] /\ strict' = [strict EXCEPT ![p] = o[2]]
  /\ read' = [read EXCEPT ![p] = Garbage] /\ quiet' = [quiet EXCEPT ![p] = TRUE]
  /\ UNCHANGED <<documents, views, edits>>

(* Killed, or an error of the system, also in the middle of a write.       *)
KillRun(p) ==
  /\ step[p] \in Running /\ step' = [step EXCEPT ![p] = "idle"]
  /\ views' \in {views} \cup {[views EXCEPT ![v] = Torn] : v \in Filled(step[p])}
  /\ quiet' = [q \in Processes |-> quiet[q] /\ q # p /\ views' = views]
  /\ check' = [check EXCEPT ![p] = FALSE] /\ strict' = [strict EXCEPT ![p] = FALSE]
  /\ read' = [read EXCEPT ![p] = Garbage]
  /\ UNCHANGED <<documents, edits>>

Continue(p, valid, next) == step' = [step EXCEPT ![p] = IF valid THEN next ELSE "failed"]

ReadOscal(p) ==
  /\ step[p] = "oscal" /\ Continue(p, oscal \in Accepted, "sources")
  /\ read' = [read EXCEPT ![p] = oscal]
  /\ UNCHANGED <<documents, views, edits, check, strict, quiet>>

Untouched == UNCHANGED <<documents, views, edits, check, strict, read, quiet>>

(* Mutant: only a source in force is accepted.                             *)
ReadSourcesInForce(p) ==
  /\ step[p] = "sources" /\ Untouched
  /\ Continue(p, sources \in AcceptedSources /\ \A i \in DOMAIN sources : sources[i].status = "current",
          "exceptions")

ReadSources(p) == /\ step[p] = "sources" /\ Untouched
                  /\ Continue(p, sources \in AcceptedSources, "exceptions")

ReadExceptions(p) == /\ step[p] = "exceptions" /\ Untouched
                     /\ Continue(p, exceptions \in AcceptedExceptions, "schema")

(* Mutant: the schema matters only to --check.                             *)
CheckSchemaIfChecking(p) ==
  /\ step[p] = "schema" /\ Untouched
  /\ Continue(p, strict[p] /\ check[p] => read[p] \in Conforms, "csv")

(* The document that was read, against the schema when there is one.       *)
CheckSchema(p) == /\ step[p] = "schema" /\ Untouched
                  /\ Continue(p, strict[p] => read[p] \in Conforms, "csv")

(* write_or_check.                                                         *)
Compare(p, v, next) ==
  /\ step[p] = v /\ check[p] /\ Untouched
  /\ Continue(p, ReadText(views[v]) = Shown[read[p]], next)

Change(p, v, content, next) ==
  /\ views' = [views EXCEPT ![v] = content]
  /\ step' = [step EXCEPT ![p] = next]
  /\ quiet' = [q \in Processes |-> quiet[q] /\ q = p]
  /\ UNCHANGED <<documents, edits, check, strict, read>>

(* write_text opens the file with truncation and writes from its start.    *)
(* Over what was put there meanwhile the text comes out whole or mixed, or *)
(* not at all when the file was replaced.                                  *)
Truncate(p, v, next) == /\ step[p] = v /\ ~check[p] /\ Change(p, v, Truncated, next)
Fill(p, at, v, next) ==
  LET text == Shown[read[p]]
  IN  /\ step[p] = at
      /\ \E content \in IF views[v] \in {Truncated, text} THEN {text} ELSE {text, Torn, views[v]} :
           Change(p, v, content, next)

Csv(p) == \/ Compare(p, "csv", "markdown") \/ Truncate(p, "csv", "fill csv")
          \/ Fill(p, "fill csv", "csv", "markdown")

(* The text is made first; an error of that ends the run like any other.   *)
Render(p, printed) == step[p] = "markdown" /\ printed = Printable(read[p])
RenderFails(p) == Render(p, FALSE) /\ Untouched /\ Continue(p, FALSE, "ok")

(* Mutant: --check is satisfied with the first view.                       *)
MarkdownUnchecked(p) ==
  \/ RenderFails(p)
  \/ Render(p, TRUE) /\ check[p] /\ Untouched /\ Continue(p, TRUE, "ok")
  \/ Render(p, TRUE) /\ Truncate(p, "markdown", "fill markdown")
  \/ Fill(p, "fill markdown", "markdown", "ok")

Markdown(p) == \/ RenderFails(p)
               \/ Render(p, TRUE) /\ Compare(p, "markdown", "ok")
               \/ Render(p, TRUE) /\ Truncate(p, "markdown", "fill markdown")
               \/ Fill(p, "fill markdown", "markdown", "ok")

ViewsNext ==
  \/ \E file \in {"oscal", "sources", "exceptions"} \cup ViewFiles : Edit(file)
  \/ \E p \in Processes : \/ Run(p) \/ KillRun(p) \/ ReadOscal(p) \/ ReadSources(p)
                          \/ ReadExceptions(p) \/ CheckSchema(p) \/ Csv(p) \/ Markdown(p)

ViewsSpec == ViewsInit /\ [][ViewsNext]_viewsVars

-----------------------------------------------------------------------------
(* Properties.                                                             *)

Writing == {"csv", "fill csv", "markdown", "fill markdown", "ok"}

(* Types; a run that has come to the views holds a document that passed.   *)
ViewsTypeOK ==
  /\ oscal \in OscalDrafts /\ sources \in SourceDrafts /\ exceptions \in ExceptionDrafts
  /\ step \in [Processes -> Running \cup {"idle", "ok", "failed"}]
  /\ views \in [ViewFiles -> Unwritten \cup {Shown[n] : n \in OscalDrafts}]
  /\ edits \in 0 .. MaxEdits
  /\ check \in [Processes -> BOOLEAN] /\ strict \in [Processes -> BOOLEAN]
  /\ quiet \in [Processes -> BOOLEAN] /\ read \in [Processes -> OscalDrafts \cup {Garbage}]
  /\ \A p \in Processes :
       /\ step[p] \in Writing \cup {"sources", "exceptions", "schema"} => read[p] \in Accepted
       /\ step[p] \in Writing /\ strict[p] => read[p] \in Conforms

Consistent(p) ==
  /\ oscal \in Accepted /\ sources \in AcceptedSources /\ exceptions \in AcceptedExceptions
  /\ strict[p] => oscal \in Conforms

(* A view is fresh to a run that checks if it reads like the document.     *)
Fresh(p) == \A v \in ViewFiles :
  (IF check[p] THEN ReadText(views[v]) ELSE views[v]) = Shown[oscal]

(* A run that ends well, with or without --check, says that the three      *)
(* documents are valid and that both views show the present one, if no     *)
(* other run or person changed a file meanwhile.                           *)
GreenIsCurrent == \A p \in Processes : step[p] = "ok" /\ quiet[p] => Consistent(p) /\ Fresh(p)

(* And one that fails has a reason in the files: a document is not valid,  *)
(* a description is no string, or the run has --check and a view is stale, *)
(* torn or edited, or a text of the document has a carriage return, which  *)
(* no view that was written and read again still has.                      *)
RedHasReason == \A p \in Processes : step[p] = "failed" /\ quiet[p] =>
  \/ ~Consistent(p) \/ ~Printable(oscal)
  \/ check[p] /\ (Returns(oscal) \/ \E v \in ViewFiles : views[v] # Shown[oscal])

-----------------------------------------------------------------------------
(* What the docs say of it, and the code does not do.                      *)

(* docs/SECURITY-ENGINEERING.md:61-62: "Every analyzed control has exactly *)
(* one ownership classification".  A view that a run has written has one   *)
(* entry for a control.                                                    *)
ClassifiedOnce ==
  \A v \in ViewFiles : views[v] \notin Unwritten =>
    \A x, y \in views[v] : x["control_id"] = y["control_id"] => x = y

=============================================================================
