---------------------------- MODULE FlowControl ----------------------------
(***************************************************************************)
(* What every byte-stream benchmark of the suite (fifo, tcp, domain)       *)
(* promises: the client keeps at most a window of bytes outstanding, the   *)
(* server echoes what it has accepted, and no byte is echoed before it is  *)
(* accepted or received before it is echoed.                               *)
(***************************************************************************)
EXTENDS Naturals

CONSTANT Window   \* a natural number, the client's maxOutstandingBytes

VARIABLES
    sent,      \* bytes the client has handed to the request channel
    accepted,  \* bytes the server has taken from it
    echoed,    \* bytes the server has handed to the response channel
    received   \* bytes the client has taken from it

vars == <<sent, accepted, echoed, received>>

Init ==
    /\ sent = 0
    /\ accepted = 0
    /\ echoed = 0
    /\ received = 0

\* The client may send as long as the window is not exceeded.
Send ==
    /\ sent' \in (sent + 1)..(received + Window)
    /\ UNCHANGED <<accepted, echoed, received>>

Accept ==
    /\ accepted' \in (accepted + 1)..sent
    /\ UNCHANGED <<sent, echoed, received>>

Echo ==
    /\ echoed' \in (echoed + 1)..accepted
    /\ UNCHANGED <<sent, accepted, received>>

Receive ==
    /\ received' \in (received + 1)..echoed
    /\ UNCHANGED <<sent, accepted, echoed>>

Next == Send \/ Accept \/ Echo \/ Receive

Spec == Init /\ [][Next]_vars
=============================================================================
