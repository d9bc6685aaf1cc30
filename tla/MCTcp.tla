------------------------------- MODULE MCTcp -------------------------------
(***************************************************************************)
(* Tcp with a memory of whether any SIGINT was delivered and whether any   *)
(* call of the client's helpers moved part of a request, so that one run   *)
(* answers for the disturbed and for the undisturbed behaviours.           *)
(***************************************************************************)
EXTENDS Tcp

VARIABLES
    signalled,  \* a SIGINT has reached the client or the server
    cut         \* a helper call of the client has ended inside a request

MCInit == Init /\ signalled = FALSE /\ cut = FALSE

\* The client's helper call that returns now moved a part of a request.
CutsRequest ==
    /\ pc["client"] \in {"account", "wrote"}
    /\ pc'["client"] # pc["client"]
    /\ moved["client"] % Size # 0

MCNext ==
    /\ \/ (Client \/ Server \/ Network) /\ UNCHANGED signalled
       \/ Signal /\ signalled' = TRUE
    /\ cut' = (cut \/ CutsRequest)

MCSpec == MCInit /\ [][MCNext]_<<vars, signalled, cut>> /\ Fairness
-----------------------------------------------------------------------------
\* In a run that nobody interrupts connect() never meets a server that does
\* not listen yet: the byte in TCP_FIFO comes after listen.
ConnectSucceeds == ~signalled => \A p \in Procs : pc[p] # "dead"

\* As long as the client's calls move whole requests, every time evaluateClient
\* reports is the difference of a write time and the arrival of the answer,
\* although stamping runs ahead of what can be written.
TimesAreDifferences ==
    pc["client"] = "done" /\ ~cut =>
        \A i \in 0..(ReportedCount - 1) : times[i] = "rtt"

\* In a run that nobody interrupts the server echoes every request and ends,
\* and the client ends unless the server's close has reset the connection
\* while answers were in flight.
RunEnds ==
    /\ <>(signalled \/ pc["server"] = "done")
    /\ <>(signalled \/ lost > 0 \/ pc["client"] \in Ended)
=============================================================================
