-------------------------- MODULE MCIncidentBackend --------------------------
(***************************************************************************)
(* A spine and a leaf joined by one link: the leaf's interface, the        *)
(* physical link, and a session that runs over it.  Lines are about the    *)
(* interface or the session; the scorer names the interface for the        *)
(* interface alone and the link as soon as the session is affected.  An    *)
(* object outside the topology explains nothing and is explained by none.  *)
(***************************************************************************)
EXTENDS IncidentBackend, TLC

CONSTANTS link, interface, session, outside, none, spine, leaf

MCObjects    == {link, interface, session, outside}
MCNodes      == {spine, leaf}
MCEdges      == {<<link, interface>>, <<interface, link>>, <<link, session>>}
MCUpstream   == MCEdges \cup {<<interface, session>>}
MCTypeOf     == link :> "physical-link" @@ interface :> "interface" @@ session :> "session"
                  @@ outside :> "interface"
MCNodeOf     == link :> spine @@ interface :> leaf @@ session :> spine
                  @@ outside :> leaf
MCRoots      == [objs \in SUBSET MCObjects |->
                   IF session \in objs THEN {link}
                   ELSE IF interface \in objs THEN {interface} ELSE {none}]
MCLineage    == {<<spine, leaf>>, <<leaf, spine>>}
\* A line about the session is the leaf's, whose incident is the spine's.
MCInterface  == {<<interface, leaf>>}
MCSession    == {<<session, leaf>>}
MCObservable == {<<interface, leaf>>, <<outside, leaf>>}

\* Coroutines of one kind are interchangeable.
Interchangeable == Permutations(Pipes) \cup Permutations(Hooks)
=============================================================================
