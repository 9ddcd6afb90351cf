------------------------------- MODULE MC_Gossip -------------------------------
(* Three nodes on two machines.  What is typed at n1 is published to n2 once n1  *)
(* knows it, and from there to n3; when n2 knows n1 too, it draws a sample.  n3   *)
(* knows nobody but itself.                                                      *)
EXTENDS Gossip, TLC

CONSTANTS n1, n2, n3, hello, ipA, ipB

MC_Nodes == {n1, n2, n3}

MC_Messages == {hello}

MC_Author == hello :> n1

MC_Initially == n1 :> {n1} @@ n2 :> {n2, n3} @@ n3 :> {n3}

MC_Reachable == n1 :> {n2} @@ n2 :> {n1} @@ n3 :> {}

MC_Host == n1 :> ipA @@ n2 :> ipB @@ n3 :> ipB

\* A node that knows nobody but itself.
MC_Alone == {n1}

MC_InitiallyAlone == n1 :> {n1}

MC_NobodyNew == n1 :> {}

MC_HostAlone == n1 :> ipA
================================================================================
