------------------------------ MODULE ShmSync ------------------------------
(***************************************************************************)
(* source/shm-sync: one message at a time through a System V shared memory *)
(* segment, the turns kept by a mutex and a condition variable that live   *)
(* in the segment behind the data.                                         *)
(***************************************************************************)
EXTENDS Naturals

CONSTANTS
    Count,      \* args->count
    Size,       \* args->size
    SyncBytes,  \* sizeof(struct Sync)
    PageBytes   \* the segment is rounded up to pages

Procs == {"client", "server"}

VARIABLES
    pc,
    mutex,     \* the process that holds it, or "free"
    waiters,   \* processes the condition variable knows to be waiting
    data,      \* who wrote the data last
    count,     \* args->count of the client, which counts down
    message    \* message of the server, which counts up

vars == <<pc, mutex, waiters, data, count, message>>

TypeOK ==
    /\ DOMAIN pc = Procs
    /\ mutex \in Procs \cup {"free"}
    /\ waiters \subseteq Procs
    /\ data \in Procs \cup {"nobody"}
    /\ count \in 0..Count
    /\ message \in 0..Count

\* A new segment is zero, which is a free mutex and a condition variable
\* without waiters.
Init ==
    /\ pc = [p \in Procs |-> "attach"]
    /\ mutex = "free"
    /\ waiters = {}
    /\ data = "nobody"
    /\ count = Count
    /\ message = 0

Goto(p, label) == pc' = [pc EXCEPT ![p] = label]
-----------------------------------------------------------------------------
(***************************************************************************)
(* shm-sync-common.c                                                       *)
(***************************************************************************)

\* create_segment: the size that is asked for, in whole pages
create_segment == ((Size + SyncBytes + PageBytes - 1) \div PageBytes) * PageBytes

\* create_sync: the pointer arithmetic counts in struct Syncs, so the sync is
\* behind Size of them and not behind Size bytes.
SyncInSegment == (Size + 1) * SyncBytes <= create_segment

\* shmget, shmat and the memset of the data
attach_segment(p) ==
    /\ pc[p] = "attach"
    /\ data' = "nobody"
    /\ Goto(p, "init")
    /\ UNCHANGED <<mutex, waiters, count, message>>

\* init_sync, by either process at any time: the mutex is free again whoever
\* held it, and the condition variable may have forgotten who waits on it.
create_sync(p, to) ==
    /\ pc[p] = "init"
    /\ IF SyncInSegment
       THEN mutex' = "free" /\ waiters' \in SUBSET waiters /\ Goto(p, to)
       ELSE Goto(p, "SIGSEGV") /\ UNCHANGED <<mutex, waiters>>
    /\ UNCHANGED <<data, count, message>>

\* sync_wait: pthread_mutex_lock, which waits forever for a mutex that p itself
\* has kept from its last sync_wait.
Lock(p, from, to) ==
    /\ pc[p] = from
    /\ mutex = "free"
    /\ mutex' = p
    /\ Goto(p, to)
    /\ UNCHANGED <<waiters, data, count, message>>

\* sync_wait: pthread_cond_wait releases the mutex and falls asleep at once.
Sleep(p, from, to) ==
    /\ pc[p] = from
    /\ mutex' = "free"
    /\ waiters' = waiters \cup {p}
    /\ Goto(p, to)
    /\ UNCHANGED <<data, count, message>>

\* sync_wait: signalled, p takes the mutex and returns with it.
Wake(p, from, to) ==
    /\ pc[p] = from
    /\ mutex = "free"
    /\ mutex' = p
    /\ Goto(p, to)
    /\ UNCHANGED <<waiters, data, count, message>>

Asleep == {"first sleeping", "sleeping"}
Woken(label) == IF label = "first sleeping" THEN "first woken" ELSE "woken"

\* sync_notify: pthread_cond_signal wakes a waiter if there is one, and is lost
\* otherwise.
sync_notify(p, from, to) ==
    /\ pc[p] = from
    /\ \/ \E q \in waiters \ {p} :
             /\ waiters' = waiters \ {q}
             /\ pc' = [pc EXCEPT ![p] = to, ![q] = Woken(@)]
       \/ waiters = {} /\ Goto(p, to) /\ UNCHANGED waiters
    /\ UNCHANGED <<mutex, data, count, message>>

\* pthread_cond_wait may return without a signal.
SpuriousWakeup(p) ==
    /\ pc[p] \in Asleep
    /\ waiters' = waiters \ {p}
    /\ Goto(p, Woken(pc[p]))
    /\ UNCHANGED <<mutex, data, count, message>>
-----------------------------------------------------------------------------
(***************************************************************************)
(* server.c: a wait for the client, then rounds of memset, notify, wait,   *)
(* memcpy, notify.                                                         *)
(***************************************************************************)
ServerWrite ==
    /\ pc["server"] = "write"
    /\ data' = "server"
    /\ Goto("server", "notify")
    /\ UNCHANGED <<mutex, waiters, count, message>>

\* memcpy, and the notify that ends the round; after the last one, evaluate
ServerRead ==
    /\ pc["server"] = "read"
    /\ message' = message + 1
    /\ Goto("server", "end round")
    /\ UNCHANGED <<mutex, waiters, data, count>>

ServerEndRound ==
    sync_notify("server", "end round", IF message < Count THEN "write" ELSE "cleanup")

\* cleanup: shmdt and IPC_RMID, then destroy_sync of the memory just detached
ServerCleanup ==
    /\ pc["server"] = "cleanup"
    /\ Goto("server", "SIGSEGV")
    /\ UNCHANGED <<mutex, waiters, data, count, message>>

Server ==
    \/ attach_segment("server") \/ create_sync("server", "first lock")
    \/ Lock("server", "first lock", "first wait")
    \/ Sleep("server", "first wait", "first sleeping")
    \/ Wake("server", "first woken", "write")
    \/ ServerWrite
    \/ sync_notify("server", "notify", "lock")
    \/ Lock("server", "lock", "wait")
    \/ Sleep("server", "wait", "sleeping")
    \/ Wake("server", "woken", "read")
    \/ ServerRead \/ ServerEndRound \/ ServerCleanup
-----------------------------------------------------------------------------
(***************************************************************************)
(* client.c: a notify, then rounds of wait, memcpy, memset, notify.        *)
(***************************************************************************)
ClientAnswer ==
    /\ pc["client"] = "answer"
    /\ data' = "client"
    /\ count' = count - 1
    /\ Goto("client", "notify")
    /\ UNCHANGED <<mutex, waiters, message>>

\* The notify that ends the round; after the last one, shmdt
ClientEndRound ==
    sync_notify("client", "notify", IF count > 0 THEN "lock" ELSE "done")

Client ==
    \/ attach_segment("client") \/ create_sync("client", "hello")
    \/ sync_notify("client", "hello", "lock")
    \/ Lock("client", "lock", "wait")
    \/ Sleep("client", "wait", "sleeping")
    \/ Wake("client", "woken", "answer")
    \/ ClientAnswer \/ ClientEndRound

Next == Client \/ Server \/ \E p \in Procs : SpuriousWakeup(p)

\* Nothing stops a process but the calls it waits in.  Nobody is owed a
\* spurious wake-up.
Fairness == WF_vars(Client) /\ WF_vars(Server)

Spec == Init /\ [][Next]_vars /\ Fairness
-----------------------------------------------------------------------------
\* The launcher "will start a new server and client process, run benchmarks and
\* print results": the server reaches evaluate.
PrintsResults == <>(pc["server"] \in {"cleanup", "SIGSEGV"} /\ message = Count)
=============================================================================
