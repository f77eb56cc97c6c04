--------------------------- MODULE EventClassifier ---------------------------
(***************************************************************************)
(* What an approved rule makes of a line (knowledge/policy.py,             *)
(* knowledge/classifier.py): whether the line takes part in the inference. *)
(* A line is a record of its severity and whether it is a recovery.  The   *)
(* body of a rule is a record of                                           *)
(*   covers    the signatures it is about                                  *)
(*   weight    its priority and the length of its signature, as an order   *)
(*   mistyped  "priority" if that is no number, "class" or "role" if that  *)
(*             is no text, else "no": files with such values are accepted  *)
(*   policy    its ranges of severities with their actions, in order       *)
(*   class     what its classification means, "none" if nothing known      *)
(*   role      what its correlation role means, "none" if nothing known    *)
(***************************************************************************)
EXTENDS Integers, Sequences

NoBody == [covers |-> {}, weight |-> 0, mistyped |-> "no",
           policy |-> <<>>, class |-> "none", role |-> "none"]

\* resolve_severity_action: the first range that has the severity.
SeverityAction(body, severity) ==
    LET hits == {k \in DOMAIN body.policy : severity \in body.policy[k].range}
    IN  IF hits = {} THEN "none"
        ELSE body.policy[CHOOSE k \in hits : \A j \in hits : k <= j].action

EventAction(known, body, severity) ==
    LET asked == SeverityAction(body, severity)
    IN  IF known /\ asked \in {"correlate_only", "retain_only"} THEN asked
        ELSE IF known THEN "create_incident" ELSE "review"

\* What the role, or else the action, of a rule without a class means.
ByRole(body, action) ==
    IF body.role # "none" THEN body.role
    ELSE IF action = "retain_only" THEN "retain-only"
    ELSE IF action = "create_incident" THEN "fault-signal" ELSE "state-change"

Classification(known, body, line) ==
    IF line.recovery THEN "recovery"
    ELSE IF ~known THEN "unknown"
    ELSE IF body.class # "none" THEN body.class
    ELSE ByRole(body, EventAction(known, body, line.severity))

\* A class that is no text is an exception when it is looked at; so is a role, which is
\* looked at where the class says nothing.
Misread(body, line) ==
    /\ ~line.recovery
    /\ \/ body.mistyped = "class"
       \/ body.mistyped = "role" /\ body.class = "none"

\* should_skip_inference
SkipsInference(known, body, line) ==
    \/ EventAction(known, body, line.severity) = "retain_only"
    \/ Classification(known, body, line) \in {"noise", "retain-only"}

\* The lines that reach the buffer of observations or the recovery of incidents.
Infers(known, body, line) ==
    /\ ~SkipsInference(known, body, line)
    /\ Classification(known, body, line) \notin {"config-change", "security"}
=============================================================================
