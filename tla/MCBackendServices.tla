-------------------------- MODULE MCBackendServices --------------------------
(***************************************************************************)
(* One rule, of the vendors' file, that waits to be approved: it keeps     *)
(* lines of severity 5 out of the inference, and its classification is no  *)
(* text, which ends the handling of all lines but recoveries.  A fault of  *)
(* severity 3 and a recovery of severity 5 have its signature.             *)
(***************************************************************************)
EXTENDS BackendServices

MCSpeakers == {"consumer", "request"} \cup Starters

Odd == [NoBody EXCEPT !.covers = {"s1"}, !.weight = 1, !.mistyped = "class",
                      !.policy = <<[range |-> 4..7, action |-> "retain_only"]>>]

Rule(id, status, body) == [id |-> id, status |-> status, body |-> body]

Line(severity, recovery) == [sig |-> "s1", severity |-> severity, recovery |-> recovery]

MCLines  == {Line(3, FALSE), Line(5, TRUE)}
MCBodies == {Odd}
MCVendor == <<Rule("r1", "pending", Odd)>>
MCDrafts == {<<>>}
NoRules  == <<>>
=============================================================================
