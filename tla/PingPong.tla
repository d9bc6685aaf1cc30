----------------------------- MODULE PingPong -----------------------------
(***************************************************************************)
(* What a one-message-at-a-time benchmark promises: the two processes take *)
(* turns, Rounds times.  eventfd-bi, pipe and signal are shown to do so.   *)
(***************************************************************************)
EXTENDS Naturals

CONSTANT Rounds

VARIABLES
    pings,  \* signals of the process that starts a round
    pongs   \* answers of the other one

vars == <<pings, pongs>>

Init == pings = 0 /\ pongs = 0

Ping ==
    /\ pings = pongs
    /\ pings < Rounds
    /\ pings' = pings + 1
    /\ UNCHANGED pongs

Pong ==
    /\ pongs < pings
    /\ pongs' = pongs + 1
    /\ UNCHANGED pings

Next == Ping \/ Pong

Spec == Init /\ [][Next]_vars
=============================================================================
