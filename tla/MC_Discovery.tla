---------------------------- MODULE MC_Discovery ----------------------------
(* Three nodes, two of which may dial any other one.                           *)
EXTENDS Discovery, TLC

CONSTANTS n1, n2, n3

MC_Nodes == {n1, n2, n3}

MC_Dialers == {n1, n2}

MC_NoPings == [n \in MC_Nodes |-> {}]

\* The third node pings n1, which stands for n2 as well.
MC_Pings == [n \in MC_Nodes |-> IF n = n3 THEN {n1} ELSE {}]

MC_Symmetry == Permutations(MC_Dialers)

\* n3 pings when the others meet it by way of each other, not when both dial it.
MC_PingOrJoin == pinged' # {} => ~(dialed'[n1] = n3 /\ dialed'[n2] = n3)
=============================================================================
