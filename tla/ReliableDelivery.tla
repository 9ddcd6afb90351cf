--------------------------- MODULE ReliableDelivery ---------------------------
(* What the transport layer promises of each packet and each message, without  *)
(* addresses, acknowledgements, channels, threads or datagrams: a packet is    *)
(* sent at most MaxAttempts times, its sender forgets it only when it has      *)
(* arrived or that budget is spent, and a message is handed on, perhaps more   *)
(* than once, only when all its packets have arrived.                          *)
EXTENDS Naturals

CONSTANTS Messages, Total, MaxAttempts

VARIABLES
    phase,      \* phase[p]: "unsent", "open" (kept for a retry) or "closed"
    tries,      \* tries[p]: how often packet p was sent
    arrived,    \* the packets that reached their destination
    handed      \* the messages handed on there

vars == <<phase, tries, arrived, handed>>

Packets == UNION {{m} \X (1..Total[m]) : m \in Messages}

Init ==
    /\ phase = [p \in Packets |-> "unsent"]
    /\ tries = [p \in Packets |-> 0]
    /\ arrived = {}
    /\ handed = {}

------------------------------------------------------------------------------
Wait(p) == phase'[p] = phase[p] /\ tries'[p] = tries[p]

FirstSend(p) ==
    /\ phase[p] = "unsent" /\ phase'[p] = "open"
    /\ tries'[p] = 1

SendAgain(p) ==
    /\ phase[p] = "open" /\ phase'[p] = "open"
    /\ tries[p] < MaxAttempts /\ tries'[p] = tries[p] + 1

Forget(p) ==
    /\ phase[p] = "open" /\ phase'[p] = "closed"
    /\ p \in arrived \/ tries[p] = MaxAttempts
    /\ tries'[p] = tries[p]

\* A sender does something to any number of packets.
Senders ==
    /\ \A p \in Packets : Wait(p) \/ FirstSend(p) \/ SendAgain(p) \/ Forget(p)
    /\ phase' \in [Packets -> {"unsent", "open", "closed"}]
    /\ tries' \in [Packets -> 0..MaxAttempts]
    /\ UNCHANGED <<arrived, handed>>

Arrive ==
    \E p \in Packets :
        /\ tries[p] > 0
        /\ arrived' = arrived \cup {p}
        /\ UNCHANGED <<phase, tries, handed>>

HandOn ==
    \E m \in Messages :
        /\ {m} \X (1..Total[m]) \subseteq arrived
        /\ handed' = handed \cup {m}
        /\ UNCHANGED <<phase, tries, arrived>>

Next == Senders \/ Arrive \/ HandOn

Spec == Init /\ [][Next]_vars
=============================================================================
