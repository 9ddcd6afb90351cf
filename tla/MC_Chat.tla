------------------------------- MODULE MC_Chat -------------------------------
(* Two nodes; one dials the other, which may ping it, and types a message.      *)
EXTENDS Chat, TLC

CONSTANTS n1, n2, hello, ipA, ipB

MC_Nodes == {n1, n2}

MC_Dialers == {n1}

MC_Pings == n1 :> {} @@ n2 :> {n1}

MC_Messages == {hello}

MC_Author == hello :> n2

MC_Host == n1 :> ipA @@ n2 :> ipB
==============================================================================
