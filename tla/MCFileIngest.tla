----------------------------- MODULE MCFileIngest -----------------------------
(***************************************************************************)
(* A spine (1) over two leaves (2, 3) with two cables between the leaves,  *)
(* written in the topology file in opposite orders, and an access switch   *)
(* (4) under leaf 3; device 5 has BGP sessions with the leaves and no      *)
(* cable.  The table may hold an incident of a device 9 that has gone, or  *)
(* two of the same day: one of leaf 2 from a file, one of the spine from   *)
(* the backend, with an object as root cause.                              *)
(* Work is planned on leaf 3 with what is below it, and on a device that   *)
(* the topology does not have.                                             *)
(***************************************************************************)
EXTENDS FileIngest

MCNodes  == 1..5
MCRank   == <<0, 3, 3, 4, 5>>
MCCables == {<<1, 2>>, <<1, 3>>, <<2, 3>>, <<3, 2>>, <<3, 4>>, <<4, 7>>}
MCEbgp   == {<<5, 2>>, <<5, 3>>, <<1, 2>>}
MCIbgp   == {}

Line(host) == [host |-> host, at |-> 0, minor |-> FALSE, routing |-> FALSE, lost |-> Nobody,
               recovery |-> FALSE, ignored |-> FALSE, event |-> "link"]

MCLines == {Line(1), Line(2), Line(3), Line(4),
            [Line(5) EXCEPT !.routing = TRUE, !.lost = 2],
            [Line(2) EXCEPT !.lost = 1, !.event = "bgp"],
            [Line(2) EXCEPT !.recovery = TRUE],
            [Line(3) EXCEPT !.minor = TRUE], [Line(3) EXCEPT !.ignored = TRUE], Line(9)}

Row(root, object, created) ==
    [root |-> root, object |-> object, secondary |-> {}, logs |-> {}, count |-> 1,
     event |-> "link", confidence |-> 45, status |-> "OPEN", condition |-> "ACTIVE", plan |-> 0,
     created |-> created, faultAt |-> 0, recurrence |-> 0]

MCEarlier == {(0 :> Row(9, FALSE, 0)), (1 :> Row(2, FALSE, -1)) @@ (2 :> Row(1, TRUE, 0))}

MCPlans == <<[id |-> 1, status |-> "planned", start |-> 1, end |-> 2, expected |-> {"link"},
              devices |-> << [id |-> 3, scope |-> "including-downstream"] >>],
             [id |-> 2, status |-> "in-progress", start |-> 3, end |-> 3, expected |-> {},
              devices |-> << [id |-> 4, scope |-> "device-only"],
                             [id |-> 8, scope |-> "including-links"] >>],
             [id |-> 3, status |-> "completed", start |-> 0, end |-> 3, expected |-> {},
              devices |-> << [id |-> 1, scope |-> "device-only"] >>]>>
=============================================================================
