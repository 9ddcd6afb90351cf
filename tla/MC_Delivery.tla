----------------------------- MODULE MC_Delivery -----------------------------
(* Instances of Delivery for the model checker: node n1 sends `big`, of two    *)
(* packets, to n2, and n2 sends `small`, of one packet, to n1.                 *)
EXTENDS Delivery, TLC

CONSTANTS n1, n2, big, small, ipA, ipB

MC_Nodes == {n1, n2}

MC_NoNode == {}

MC_OneMessage == {big}
MC_TwoMessages == {big, small}

MC_OriginOne == big :> n1
MC_TargetOne == big :> n2
MC_TotalOne == big :> 2

MC_OriginTwo == big :> n1 @@ small :> n2
MC_TargetTwo == big :> n2 @@ small :> n1
MC_TotalTwo == big :> 2 @@ small :> 1

\* Two machines, and two processes of one machine.
MC_TwoHosts == n1 :> ipA @@ n2 :> ipB
MC_OneHost == n1 :> ipA @@ n2 :> ipA
==============================================================================
