--------------------------- MODULE MC_RoutingTable ---------------------------
(* Keys of three bytes of two bits and buckets of two peers.  The local key is *)
(* zero, so a peer's key is its distance.                                      *)
EXTENDS RoutingTable

CONSTANTS home, moved

Peer(a, b, c, address) == [key |-> <<a, b, c>>, address |-> address]

MC_Addresses == {home, moved}

MC_Local == Peer(<<0, 0>>, <<0, 0>>, <<0, 0>>, home)    \* 000
MC_A == Peer(<<1, 0>>, <<0, 1>>, <<0, 0>>, home)        \* 1010
MC_AMoved == Peer(<<1, 0>>, <<0, 1>>, <<0, 0>>, moved)
MC_B == Peer(<<1, 0>>, <<1, 0>>, <<0, 0>>, home)        \* 10100
MC_C == Peer(<<1, 1>>, <<0, 0>>, <<0, 1>>, home)        \* 1101

MC_FewPeers == {MC_Local, MC_A, MC_AMoved, MC_B, MC_C}
MC_Leaving == {MC_A, MC_Local}
MC_NoPeers == {}
==============================================================================
