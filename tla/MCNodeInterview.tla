-------------------------- MODULE MCNodeInterview ---------------------------
(* Values for the constants of NodeInterview.                              *)
EXTENDS NodeInterview

CONSTANTS m, n   \* two nodes

TwoNodes == <<m, n>>
OneNode  == <<n>>

\* Between them the nodes take every branch of every phase; or the phases are short,
\* for the sake of what the nodes send of their own.
AllPhases     == m :> Classes @@ n :> {"VERSION", "MANUFACTURER_SPECIFIC"}
FewPhases     == m :> {"MULTI_CHANNEL"} @@ n :> {}
VersionOnly   == n :> {"VERSION", "MANUFACTURER_SPECIFIC"}

FirstVersions == [i \in Nodes |-> 1]
LaterVersions == [i \in Nodes |-> 2]
=============================================================================
