------------------------------- MODULE PeerSet -------------------------------
(* What a routing table promises to discovery and gossip, without buckets,     *)
(* prefixes or distances: it is a set of peers that grows with every update,   *)
(* and loses a peer only when it is asked to remove one.                       *)
EXTENDS Naturals, FiniteSets

CONSTANTS PeerInfos, LocalInfo, Removable, MaxBucketLen

VARIABLES
    known,      \* the keys of the peers in the table
    last        \* the last operation, its argument and whether it panicked

vars == <<known, last>>

Init ==
    /\ known = {LocalInfo.key}
    /\ last = [op |-> "new", peer |-> LocalInfo, panicked |-> FALSE]

Ends(op, p, panicked) ==
    ~last.panicked /\ last' = [op |-> op, peer |-> p, panicked |-> panicked]

\* An update adds the peer, whatever the table holds, but for a table of as many peers as
\* one bucket has room for, with which it may panic instead.
Update(p) ==
    \/ Ends("update", p, FALSE) /\ known' = known \cup {p.key}
    \/ Ends("update", p, TRUE) /\ Cardinality(known) >= MaxBucketLen /\ UNCHANGED known

\* remove_peer removes the peer, or misses it.
RemovePeer(p) ==
    \/ Ends("remove_peer", p, FALSE) /\ known' \in {known, known \ {p.key}}
    \/ Ends("remove_peer", p, TRUE) /\ UNCHANGED known

\* remove_lru removes some peer, or none.
RemoveLru(p) ==
    \/ Ends("remove_lru", p, FALSE) /\ \E gone \in SUBSET known :
          Cardinality(gone) <= 1 /\ known' = known \ gone
    \/ Ends("remove_lru", p, TRUE) /\ UNCHANGED known

Next ==
    \/ \E p \in PeerInfos : Update(p)
    \/ \E p \in Removable : RemovePeer(p) \/ RemoveLru(p)

Spec == Init /\ [][Next]_vars
==============================================================================
