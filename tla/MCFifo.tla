------------------------------ MODULE MCFifo ------------------------------
(***************************************************************************)
(* Fifo with a memory of whether any SIGINT was delivered, so that one run *)
(* answers for the interrupted and for the undisturbed behaviours.         *)
(***************************************************************************)
EXTENDS Fifo

VARIABLE signalled  \* a SIGINT has reached the client or the server

MCInit == Init /\ signalled = FALSE

MCNext ==
    \/ (Client \/ Server) /\ UNCHANGED signalled
    \/ Signal /\ signalled' = TRUE

MCSpec == MCInit /\ [][MCNext]_<<vars, signalled>> /\ Fairness
-----------------------------------------------------------------------------
\* A run that nobody interrupts never fails in F_SETPIPE_SZ, whichever order
\* the two open_fifo calls come in, nor in evaluateClient's assertion that the
\* count is positive, and when it is over every request has been answered and
\* timed and no response is left unread, also when Rate does not divide Count.
Complete ==
    ~signalled =>
        /\ \A p \in Procs : pc[p] \notin {"dead", "aborted"}
        /\ (\A p \in Procs : pc[p] = "done") =>
              /\ ReportedCount = Count
              /\ total["client"] = total["server"]
              /\ bytes["RESPONSE"] = 0

\* A run that nobody interrupts ends: the opens meet, no two blocking calls
\* wait for each other, and the client's last write meets a reader or EPIPE.
Termination == <>(signalled \/ \A p \in Procs : pc[p] = "done")
=============================================================================
