----------------------------- MODULE MCDomain -----------------------------
(***************************************************************************)
(* Domain with a memory of whether any SIGINT was delivered, so that one   *)
(* run answers for the interrupted and for the undisturbed behaviours.     *)
(***************************************************************************)
EXTENDS Domain

VARIABLE signalled  \* a SIGINT has reached the client or the server

MCInit == Init /\ signalled = FALSE

MCNext ==
    \/ (Client \/ Server) /\ UNCHANGED signalled
    \/ Signal /\ signalled' = TRUE

MCSpec == MCInit /\ [][MCNext]_<<vars, signalled>> /\ Fairness
-----------------------------------------------------------------------------
\* In a run that nobody interrupts connect() never meets a server that does
\* not listen yet ("must be in order"), evaluateClient's assertion that the
\* count is positive holds, and when the run is over all requests have been
\* answered and timed; the server's close takes no answer away.
Complete ==
    ~signalled =>
        /\ \A p \in Procs : pc[p] \notin {"dead", "aborted"}
        /\ (\A p \in Procs : pc[p] = "done") =>
              /\ ReportedCount = Count
              /\ total["client"] = total["server"]
              /\ queue["client"] = 0

\* A run that nobody interrupts ends: no two blocking calls wait for each
\* other, and the client's last window meets a reader or EPIPE.
Termination == <>(signalled \/ \A p \in Procs : pc[p] = "done")
=============================================================================
