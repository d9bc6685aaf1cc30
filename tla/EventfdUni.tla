----------------------------- MODULE EventfdUni -----------------------------
(***************************************************************************)
(* source/eventfd/eventfd-uni.c: the child (client) writes its clock into  *)
(* an eventfd, Count times and without waiting; the parent (server) reads  *)
(* Count times.  A write adds to the 64-bit counter and waits when the sum *)
(* would pass 2^64 - 2; a read takes the whole sum.                        *)
(***************************************************************************)
EXTENDS Naturals

CONSTANTS
    Count,   \* args->count
    Room     \* how many clock values the counter has room for

VARIABLES
    count,    \* args->count of the client, which counts down
    counter,  \* how many clock values are added up in the eventfd
    message,  \* message of the server, which counts up
    start     \* how many of the client's clock values are in bench.single_start

vars == <<count, counter, message, start>>

TypeOK ==
    /\ count \in 0..Count
    /\ counter \in 0..Room
    /\ message \in 0..Count
    /\ start \in 0..Room

Init ==
    /\ count = Count
    /\ counter = 0
    /\ message = 0
    /\ start = 0

\* write(descriptor, &timestamp, 8)
ClientWrite ==
    /\ count > 0
    /\ counter < Room
    /\ counter' = counter + 1
    /\ count' = count - 1
    /\ UNCHANGED <<message, start>>

\* read(descriptor, &bench.single_start, 8) and benchmark(&bench)
ServerRead ==
    /\ message < Count
    /\ counter > 0
    /\ start' = counter
    /\ counter' = 0
    /\ message' = message + 1
    /\ UNCHANGED count

Next == ClientWrite \/ ServerRead

\* Neither process stops.
Fairness == WF_vars(ClientWrite) /\ WF_vars(ServerRead)

Spec == Init /\ [][Next]_vars /\ Fairness
-----------------------------------------------------------------------------
\* "Here we read the start timestamp into the benchmark object": what the
\* server reads is one clock value, not a sum of several.
ReadsTimestamp == start <= 1
=============================================================================
