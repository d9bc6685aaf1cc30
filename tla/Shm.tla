-------------------------------- MODULE Shm --------------------------------
(***************************************************************************)
(* source/shm/client.c and source/shm/server.c: one message at a time      *)
(* through a System V shared memory segment, whose first byte is a guard   *)
(* that says whose turn it is ('s' or 'c').  A segment outlives the        *)
(* processes: only a server that reaches its cleanup removes it.           *)
(***************************************************************************)
EXTENDS Naturals

CONSTANTS
    Count,    \* args->count
    MaxKills  \* how many runs are killed before one is left alone

ASSUME CountAssumption == Count \in Nat \ {0}
ASSUME KillsAssumption == MaxKills \in Nat

Procs == {"client", "server"}

VARIABLES
    pc,
    guard,    \* first byte of the segment; 0 in a new one
    data,     \* whose message the rest of the segment holds, and its number
    count,    \* args->count of the client, which counts down
    message,  \* message of the server, which counts up
    got,      \* what each process has copied into its buffer last
    kills     \* runs killed so far

vars == <<pc, guard, data, count, message, got, kills>>

ClientLabels == {"init", "wait", "read", "write", "notify", "done"}
ServerLabels == {"first", "write", "notify", "wait", "read", "cleanup", "done"}

\* The n-th message of process p; number 0 stands for a segment never written.
Messages == Procs \X (0..Count)
Nothing == <<"client", 0>>

TypeOK ==
    /\ pc \in [Procs -> ClientLabels \cup ServerLabels]
    /\ guard \in {"0", "s", "c"}
    /\ data \in Messages
    /\ count \in 0..Count
    /\ message \in 0..Count
    /\ got \in [Procs -> Messages]
    /\ kills \in 0..MaxKills

Init ==
    /\ pc = [client |-> "init", server |-> "first"]
    /\ guard = "0"
    /\ data = Nothing
    /\ count = Count
    /\ message = 0
    /\ got = [p \in Procs |-> Nothing]
    /\ kills = 0

Goto(p, label) == pc' = [pc EXCEPT ![p] = label]
-----------------------------------------------------------------------------
(***************************************************************************)
(* client.c                                                                *)
(***************************************************************************)

\* shmget, shmat and atomic_init(guard, 's')
ClientInit ==
    /\ pc["client"] = "init"
    /\ guard' = "s"
    /\ Goto("client", "wait")
    /\ UNCHANGED <<data, count, message, got, kills>>

\* Mutant: the client's shm_wait waits until the guard leaves its initial value.
ClientWaitForAny ==
    /\ pc["client"] = "wait"
    /\ guard # "0"
    /\ Goto("client", "read")
    /\ UNCHANGED <<guard, data, count, message, got, kills>>

\* shm_wait(guard)
ClientWait ==
    /\ pc["client"] = "wait"
    /\ guard = "c"
    /\ Goto("client", "read")
    /\ UNCHANGED <<guard, data, count, message, got, kills>>

\* memcpy(buffer, shared_memory + 1, args->size)
ClientRead ==
    /\ pc["client"] = "read"
    /\ got' = [got EXCEPT !["client"] = data]
    /\ Goto("client", "write")
    /\ UNCHANGED <<guard, data, count, message, kills>>

\* memset(shared_memory + 1, '*', args->size)
ClientWrite ==
    /\ pc["client"] = "write"
    /\ data' = <<"client", Count - count + 1>>
    /\ Goto("client", "notify")
    /\ UNCHANGED <<guard, count, message, got, kills>>

\* shm_notify(guard) and the end of the round
ClientNotify ==
    /\ pc["client"] = "notify"
    /\ guard' = "s"
    /\ count' = count - 1
    /\ Goto("client", IF count - 1 > 0 THEN "wait" ELSE "done")
    /\ UNCHANGED <<data, message, got, kills>>
-----------------------------------------------------------------------------
(***************************************************************************)
(* server.c                                                                *)
(***************************************************************************)

\* shmget and shmat, and the shm_wait before the loop
ServerFirstWait ==
    /\ pc["server"] = "first"
    /\ guard = "s"
    /\ Goto("server", "write")
    /\ UNCHANGED <<guard, data, count, message, got, kills>>

\* memset(shared_memory + 1, '*', args->size)
ServerWrite ==
    /\ pc["server"] = "write"
    /\ data' = <<"server", message + 1>>
    /\ Goto("server", "notify")
    /\ UNCHANGED <<guard, count, message, got, kills>>

\* shm_notify(guard)
ServerNotify ==
    /\ pc["server"] = "notify"
    /\ guard' = "c"
    /\ Goto("server", "wait")
    /\ UNCHANGED <<data, count, message, got, kills>>

\* Mutant: the server does not wait for the answer.
ServerWaitsNot ==
    /\ pc["server"] = "wait"
    /\ Goto("server", "read")
    /\ UNCHANGED <<guard, data, count, message, got, kills>>

\* shm_wait(guard)
ServerWait ==
    /\ pc["server"] = "wait"
    /\ guard = "s"
    /\ Goto("server", "read")
    /\ UNCHANGED <<guard, data, count, message, got, kills>>

\* Mutant: the loop makes a round too many.
ServerReadOneMore ==
    /\ pc["server"] = "read"
    /\ got' = [got EXCEPT !["server"] = data]
    /\ message' = message + 1
    /\ Goto("server", IF message + 1 <= Count THEN "write" ELSE "cleanup")
    /\ UNCHANGED <<guard, data, count, kills>>

\* memcpy(buffer, shared_memory + 1, args->size) and the end of the round
ServerRead ==
    /\ pc["server"] = "read"
    /\ got' = [got EXCEPT !["server"] = data]
    /\ message' = message + 1
    /\ Goto("server", IF message + 1 < Count THEN "write" ELSE "cleanup")
    /\ UNCHANGED <<guard, data, count, kills>>

\* shmdt and IPC_RMID: the next run gets a new segment.  A client still attached
\* keeps the old one, whose guard nobody changes any more.
ServerCleanup ==
    /\ pc["server"] = "cleanup"
    /\ Goto("server", "done")
    /\ UNCHANGED <<guard, data, count, message, got, kills>>
-----------------------------------------------------------------------------
\* Both processes are killed and started again while the segment still exists.
KillAndRestart ==
    /\ kills < MaxKills
    /\ pc["server"] # "done"
    /\ kills' = kills + 1
    /\ pc' = [client |-> "init", server |-> "first"]
    /\ count' = Count
    /\ message' = 0
    /\ got' = [p \in Procs |-> Nothing]
    /\ UNCHANGED <<guard, data>>

Client ==
    \/ ClientInit \/ ClientWait \/ ClientRead \/ ClientWrite \/ ClientNotify

Server ==
    \/ ServerFirstWait \/ ServerWrite \/ ServerNotify \/ ServerWait \/ ServerRead
    \/ ServerCleanup

Next == Client \/ Server \/ KillAndRestart

\* Both processes spin and are scheduled again and again.
Fairness == WF_vars(Client) /\ WF_vars(Server)

Spec == Init /\ [][Next]_vars /\ Fairness
-----------------------------------------------------------------------------
\* The processes inside their memcpy or memset.
Touching(p) == pc[p] \in {"read", "write"}

\* The guard keeps the two processes apart: the plain memcpy and memset of one
\* never run while the other one's do, not even on a segment left behind by a
\* killed run.
Exclusive == ~(Touching("client") /\ Touching("server"))

\* On a new segment no message is lost or read twice: what a process has copied
\* when its turn ends is the other one's message of the same round.
RoundTrip ==
    kills = 0 =>
        /\ pc["client"] \in {"write", "notify"} =>
              got["client"] = <<"server", Count - count + 1>>
        /\ pc["server"] \in {"write", "notify", "wait", "cleanup"} /\ message > 0 =>
              got["server"] = <<"client", message>>

\* The server passes its first wait ("Wait for signal from client") only after
\* the client of the same run has set the guard.
WaitsForClient == pc["server"] # "first" => pc["client"] # "init"

\* Every run ends whose server waits for its client, as on a new segment it
\* always does: a segment left behind does no other harm than the early start.
OnlyEarlyStartHangs == []WaitsForClient => <>(\A p \in Procs : pc[p] = "done")
=============================================================================
