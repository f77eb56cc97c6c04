------------------------- MODULE MCObservationBuffer -------------------------
(***************************************************************************)
(* Two spines (1, 2) and two leaves (3, 4), a link from each spine to each *)
(* leaf and a BGP session over it.  The lines: both ends of the link 1-3,  *)
(* one of them in two messages, neighbours lost on either side of it and   *)
(* elsewhere, a line nobody knows, one of an unlisted interface, a         *)
(* recovery, and a line of a host outside the topology.                    *)
(***************************************************************************)
EXTENDS ObservationBuffer

MCDevices     == 1..4
MCRole        == <<"spine", "spine", "leaf", "leaf">>
MCConnections == {<< <<1, 1>>, <<3, 1>> >>, << <<1, 2>>, <<4, 1>> >>,
                  << <<2, 1>>, <<3, 2>> >>, << <<2, 2>>, <<4, 2>> >>}
MCInterfaces  == UNION {{c[1], c[2]} : c \in MCConnections}
MCSessions    == {<<1, 3>>, <<1, 4>>, <<2, 3>>, <<2, 4>>}

Line(host, class) ==
    [host |-> host, address |-> 0, protocol |-> "none", neighbour |-> Nobody, interface |-> 0,
     state |-> FALSE, strong |-> FALSE, recovery |-> FALSE, class |-> class, action |-> "none",
     rule |-> Uncapped, text |-> 1]

Down(d, i)      == [Line(d, "fault-signal") EXCEPT !.interface = i, !.state = TRUE]
Again(line)     == [line EXCEPT !.text = 2]
Lost(d, peer)   == [Line(d, "fault-signal") EXCEPT !.protocol = "BGP", !.neighbour = peer]
Expired(d, peer) == [Lost(d, peer) EXCEPT !.strong = TRUE]
Back(d, peer)   == [Lost(d, peer) EXCEPT !.class = "recovery"]

MCLines == {Down(3, 1), Again(Down(3, 1)), Down(1, 1), Lost(3, 1), Lost(4, 1), Lost(1, 3),
            Lost(2, 3), Expired(3, 2), Down(4, 9),
            [Line(3, "unknown") EXCEPT !.rule = NoRule], Back(3, 1), Down(9, 1)}
=============================================================================
