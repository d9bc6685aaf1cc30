----------------------------- MODULE EventfdBi -----------------------------
(***************************************************************************)
(* source/eventfd/eventfd-bi.c: parent (server) and forked child (client)  *)
(* take turns through the one counter of an eventfd.  A write adds to the  *)
(* counter; a read waits until it is not 0, returns it and resets it; a    *)
(* process that reads a value it does not want writes it back.             *)
(***************************************************************************)
EXTENDS Naturals

CONSTANT Count   \* args->count

ASSUME CountAssumption == Count \in Nat \ {0}

SERVER_TOKEN == 1
CLIENT_TOKEN == 2

Procs == {"client", "server"}

VARIABLES
    pc,       \* where each process is in its loop
    counter,  \* the value of the eventfd
    stored,   \* the value a process has read and will write back
    count,    \* args->count of the client, which counts down
    message   \* message of the server, which counts up

vars == <<pc, counter, stored, count, message>>

Labels == {"notify", "wait", "putback", "done"}

TypeOK ==
    /\ pc \in [Procs -> Labels]
    /\ counter \in Nat
    /\ stored \in [Procs -> Nat]
    /\ count \in 0..Count
    /\ message \in 0..Count

Init ==
    /\ pc = [client |-> "notify", server |-> "wait"]
    /\ counter = 0
    /\ stored = [p \in Procs |-> 0]
    /\ count = Count
    /\ message = 0

Goto(p, label) == pc' = [pc EXCEPT ![p] = label]

Wanted(p) == IF p = "client" THEN CLIENT_TOKEN ELSE SERVER_TOKEN

\* eventfd_notify(descriptor, SERVER_TOKEN), then eventfd_wait
ClientNotify ==
    /\ pc["client"] = "notify"
    /\ counter' = counter + SERVER_TOKEN
    /\ Goto("client", "wait")
    /\ UNCHANGED <<stored, count, message>>

\* Mutant: the server answers with the token it waits for.
ServerNotifyOwnToken ==
    /\ pc["server"] = "notify"
    /\ counter' = counter + SERVER_TOKEN
    /\ message' = message + 1
    /\ Goto("server", IF message + 1 < Count THEN "wait" ELSE "done")
    /\ UNCHANGED <<stored, count>>

\* eventfd_notify(descriptor, CLIENT_TOKEN) and the end of the round
ServerNotify ==
    /\ pc["server"] = "notify"
    /\ counter' = counter + CLIENT_TOKEN
    /\ message' = message + 1
    /\ Goto("server", IF message + 1 < Count THEN "wait" ELSE "done")
    /\ UNCHANGED <<stored, count>>

\* Mutant: the read does not reset the counter.
ReadOtherKeepsCounter(p) ==
    /\ pc[p] = "wait"
    /\ counter # 0
    /\ counter # Wanted(p)
    /\ stored' = [stored EXCEPT ![p] = counter]
    /\ Goto(p, "putback")
    /\ UNCHANGED <<counter, count, message>>

\* The read of eventfd_wait that returns something else than wanted.
ReadOther(p) ==
    /\ pc[p] = "wait"
    /\ counter # 0
    /\ counter # Wanted(p)
    /\ stored' = [stored EXCEPT ![p] = counter]
    /\ counter' = 0
    /\ Goto(p, "putback")
    /\ UNCHANGED <<count, message>>

\* Mutant: what was read and not wanted is dropped.
WriteBackNothing(p) ==
    /\ pc[p] = "putback"
    /\ Goto(p, "wait")
    /\ UNCHANGED <<counter, stored, count, message>>

WriteBack(p) ==
    /\ pc[p] = "putback"
    /\ counter' = counter + stored[p]
    /\ Goto(p, "wait")
    /\ UNCHANGED <<stored, count, message>>

\* The read of eventfd_wait that returns the wanted value; the client's round
\* is over, the server's notify follows.
ClientReadWanted ==
    /\ pc["client"] = "wait"
    /\ counter = Wanted("client")
    /\ counter' = 0
    /\ count' = count - 1
    /\ Goto("client", IF count - 1 > 0 THEN "notify" ELSE "done")
    /\ UNCHANGED <<stored, message>>

ServerReadWanted ==
    /\ pc["server"] = "wait"
    /\ counter = Wanted("server")
    /\ counter' = 0
    /\ Goto("server", "notify")
    /\ UNCHANGED <<stored, count, message>>

Client == ClientNotify \/ ClientReadWanted \/ ReadOther("client") \/ WriteBack("client")
Server == ServerNotify \/ ServerReadWanted \/ ReadOther("server") \/ WriteBack("server")

Next == Client \/ Server

\* Neither process stops.  Nothing decides who wins the race for the counter.
Fairness == WF_vars(Client) /\ WF_vars(Server)

Spec == Init /\ [][Next]_vars /\ Fairness
-----------------------------------------------------------------------------
\* The token a process has read and not yet written back.
Held(p) == IF pc[p] = "putback" THEN stored[p] ELSE 0

\* There is at most one token, in the counter or in the hands of one process:
\* two tokens that met in the counter would add up to a value neither
\* eventfd_wait wants, and both would write it back forever.  And it is never
\* lost: it is gone only when one of the processes is about to put one in, or all
\* rounds are over, so somebody is always able to go on.
OneToken ==
    /\ counter + Held("client") + Held("server") \in {0, SERVER_TOKEN, CLIENT_TOKEN}
    /\ \A p \in Procs : Held(p) # Wanted(p)
    /\ counter + Held("client") + Held("server") = 0 =>
          \/ \E p \in Procs : pc[p] = "notify"
          \/ \A p \in Procs : pc[p] = "done"

Peer(p) == CHOOSE q \in Procs : q # p

\* p reads the token its peer waits for and writes it back, again and again, and
\* its peer, although waiting all the time, never gets it.
Starves(p) ==
    /\ []<>(pc[p] = "putback")
    /\ <>[](pc[Peer(p)] = "wait" /\ counter + Held(p) = Wanted(Peer(p)))

\* Both loops of eventfd-bi.c end, unless one process wins the race for the
\* counter forever: there is no other way for eventfd_wait to hang.  The race is
\* not assumed to be fair, an eventfd wakes every reader and the process that
\* has written the token back may be the first to read it again.
OnlyLostRacesHang ==
    \/ <>(\A p \in Procs : pc[p] = "done")
    \/ \E p \in Procs : Starves(p)

Pairs == INSTANCE PingPong WITH
    Rounds <- Count,
    pings <- (Count - count) + (IF pc["client"] \in {"wait", "putback"} THEN 1 ELSE 0),
    pongs <- message

\* The processes take turns: no notification is lost, merged or answered twice,
\* whoever picks up the token.
TakeTurns == Pairs!Spec
=============================================================================
