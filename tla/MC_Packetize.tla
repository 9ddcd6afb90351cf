---------------------------- MODULE MC_Packetize ----------------------------
(* Packets of three bytes and every message up to thirty-six bytes, so that    *)
(* the number of packets passes the packet size and its multiples.             *)
EXTENDS Packetize

MC_Lengths == 0..36
=============================================================================
