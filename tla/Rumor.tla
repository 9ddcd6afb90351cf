--------------------------------- MODULE Rumor ---------------------------------
(* What gossip promises, without caches, heartbeats, samples or letters: a        *)
(* message spreads from its author from one node to a peer in its table, users    *)
(* are handed only what a peer told their node, and nothing once heard is unheard. *)
EXTENDS Naturals

CONSTANTS Nodes, Messages, Author

VARIABLES
    known,      \* known[n]: the peers in n's table
    heard,      \* who has had which message
    handed      \* whose user has been handed which

vars == <<known, heard, handed>>

Init ==
    /\ known \in [Nodes -> SUBSET Nodes]
    /\ heard = {} /\ handed = {}

Begin(m) ==
    /\ heard' = heard \cup {<<Author[m], m>>}
    /\ UNCHANGED <<known, handed>>

\* p tells n, who may have heard it before.
Tell(p, n, m) ==
    /\ <<p, m>> \in heard /\ n \in known[p]
    /\ heard' = heard \cup {<<n, m>>} /\ handed' = handed \cup {<<n, m>>}
    /\ UNCHANGED known

Meet ==
    /\ \A n \in Nodes : known[n] \subseteq known'[n]
    /\ UNCHANGED <<heard, handed>>

Next ==
    \/ \E m \in Messages : Begin(m) \/ \E p, n \in Nodes : Tell(p, n, m)
    \/ Meet

Spec == Init /\ [][Next]_vars
================================================================================
