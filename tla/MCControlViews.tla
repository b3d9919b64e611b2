--------------------------- MODULE MCControlViews ---------------------------
(* Instances of ControlViews: the documents that people write. *)
EXTENDS ControlViews, TLC

Prop(name, value) == [ns |-> "postgresql-ubi", name |-> name, value |-> value]
Order == <<"classification", "source-requirement", "rationale", "residual-risk",
           "evidence", "owner", "review-status", "assessment-method", "default-state",
           "configurable-state", "prerequisites", "restart-behavior",
           "operational-impact", "loss-of-protection", "limitations">>
Props(class) ==
  [i \in 1 .. 15 |-> Prop(Order[i], CASE Order[i] = "classification" -> class
                                      [] Order[i] = "review-status" -> "reviewed"
                                      [] Order[i] = "evidence" -> "docs/A.md"
                                      [] OTHER -> "text")]
Requirement(id, text, props) == [id |-> id, description |-> text, props |-> props]
Control(id, class) == Requirement(id, "text", Props(class))
Described(text) ==
  <<Control("ac-3", "inherited"), Requirement("si-2", text, Props("image-owned"))>>

(* A good one; one with a carriage return in it; one with a description    *)
(* that is no string, which the OSCAL schema does not allow; one with a    *)
(* control that is classified twice; and one with a property that takes    *)
(* the place of a control ID: any token is the name of a property.         *)
MCDocument ==
  [good |-> Described(Line), return |-> Described(Return), number |-> Described(Malformed),
   twice |-> <<Control("ac-3", "inherited"), Control("ac-3", "unsupported")>>,
   renamed |-> <<Control("ac-3", "inherited"),
                 Requirement("si-2", "text",
                   Append(Props("unsupported"), Prop("control_id", "ac-3")))>>]
MCConforms == {"good", "return", "twice", "renamed"}

Source(id, status) == [id |-> id, complete |-> TRUE, sha256 |-> "sha", status |-> status]

MCSources == {<<Source("nist", "current"), Source("stig", "sunset")>>, <<>>}
Exception(expires) == [complete |-> TRUE, digest |-> "sha", architecture |-> "arm64",
                       expires |-> expires]
MCExceptions == {<<>>, <<Exception("never")>>}

(* Runs of all kinds, with one other run that writes.                      *)
CONSTANTS p1, p2
MCOptions == [p \in Processes |-> IF p = p1 THEN BOOLEAN \X BOOLEAN ELSE {<<FALSE, FALSE>>}]

=============================================================================
