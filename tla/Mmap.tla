-------------------------------- MODULE Mmap --------------------------------
(***************************************************************************)
(* source/mmap/client.c and source/mmap/server.c: one message at a time    *)
(* through the file /tmp/mmap, mapped by both.  The guard that says whose  *)
(* turn it is ('s' or 'c') is the first byte of the message itself, so     *)
(* every memset overwrites it.  Only the server gives the file its length, *)
(* only the client removes it.                                             *)
(***************************************************************************)
EXTENDS Naturals

CONSTANTS
    Count,    \* args->count
    MaxKills  \* how many runs are killed before one is left alone

ASSUME CountAssumption == Count \in Nat \ {0}
ASSUME KillsAssumption == MaxKills \in Nat

Procs == {"client", "server"}

VARIABLES
    pc,
    space,    \* the file is long enough for a message
    guard,    \* first byte of the file; "0" in a new one, "*" after a memset
    data,     \* whose message the file holds, and its number
    count,    \* args->count of the client, which counts down
    message,  \* message of the server, which counts up
    got,      \* what each process has copied into its buffer last
    kills     \* runs killed so far

vars == <<pc, space, guard, data, count, message, got, kills>>

ClientLabels == {"open", "first", "wait", "read", "write", "fill", "notify",
                 "remove", "done", "SIGBUS"}
ServerLabels == {"open", "first", "write", "fill", "notify", "wait", "read", "done"}

\* The n-th message of process p; number 0 stands for a file never written.
Messages == Procs \X (0..Count)
Nothing == <<"client", 0>>

TypeOK ==
    /\ pc \in [Procs -> ClientLabels \cup ServerLabels]
    /\ space \in BOOLEAN
    /\ guard \in {"0", "*", "s", "c"}
    /\ data \in Messages
    /\ count \in 0..Count
    /\ message \in 0..Count
    /\ got \in [Procs -> Messages]
    /\ kills \in 0..MaxKills

Init ==
    /\ pc = [p \in Procs |-> "open"]
    /\ space = FALSE
    /\ guard = "0"
    /\ data = Nothing
    /\ count = Count
    /\ message = 0
    /\ got = [p \in Procs |-> Nothing]
    /\ kills = 0

Goto(p, label) == pc' = [pc EXCEPT ![p] = label]

\* memset(file_memory, '*', args->size) runs over guard and data in any order
\* with plain stores; the build may leave out the store to the first byte,
\* which mmap_notify overwrites.
Fill(p, n) ==
    /\ pc[p] \in {"write", "fill"}
    /\ guard' \in {guard, "*"}
    /\ IF pc[p] = "write"
       THEN Goto(p, "fill") /\ UNCHANGED data
       ELSE Goto(p, "notify") /\ data' = <<p, n>>
-----------------------------------------------------------------------------
(***************************************************************************)
(* client.c                                                                *)
(***************************************************************************)

\* get_file_descriptor and mmap; neither looks at the file's length
ClientOpen ==
    /\ pc["client"] = "open"
    /\ Goto("client", "first")
    /\ UNCHANGED <<space, guard, data, count, message, got, kills>>

\* The first mmap_notify(guard); a store past the end of the file is a SIGBUS.
ClientFirstNotify ==
    /\ pc["client"] = "first"
    /\ \/ /\ space
          /\ guard' = "s"
          /\ Goto("client", "wait")
       \/ /\ ~space
          /\ Goto("client", "SIGBUS")
          /\ UNCHANGED guard
    /\ UNCHANGED <<space, data, count, message, got, kills>>

\* Mutant: mmap_wait waits until the guard is not its own.
ClientWaitForAny ==
    /\ pc["client"] = "wait"
    /\ guard # "s"
    /\ Goto("client", "read")
    /\ UNCHANGED <<space, guard, data, count, message, got, kills>>

\* mmap_wait(guard)
ClientWait ==
    /\ pc["client"] = "wait"
    /\ guard = "c"
    /\ Goto("client", "read")
    /\ UNCHANGED <<space, guard, data, count, message, got, kills>>

\* memcpy(buffer, file_memory, args->size)
ClientRead ==
    /\ pc["client"] = "read"
    /\ got' = [got EXCEPT !["client"] = data]
    /\ Goto("client", "write")
    /\ UNCHANGED <<space, guard, data, count, message, kills>>

ClientWrite ==
    /\ Fill("client", Count - count + 1)
    /\ UNCHANGED <<space, count, message, got, kills>>

\* mmap_notify(guard) and the end of the round
ClientNotify ==
    /\ pc["client"] = "notify"
    /\ guard' = "s"
    /\ count' = count - 1
    /\ Goto("client", IF count - 1 > 0 THEN "wait" ELSE "remove")
    /\ UNCHANGED <<space, data, message, got, kills>>

\* munmap and remove: the next run gets a new file, the server keeps this one.
ClientRemove ==
    /\ pc["client"] = "remove"
    /\ Goto("client", "done")
    /\ UNCHANGED <<space, guard, data, count, message, got, kills>>
-----------------------------------------------------------------------------
(***************************************************************************)
(* server.c                                                                *)
(***************************************************************************)

\* get_file_descriptor with make_space, and mmap
ServerOpen ==
    /\ pc["server"] = "open"
    /\ space' = TRUE
    /\ Goto("server", "first")
    /\ UNCHANGED <<guard, data, count, message, got, kills>>

\* the mmap_wait(guard) before the loop
ServerFirstWait ==
    /\ pc["server"] = "first"
    /\ guard = "s"
    /\ Goto("server", "write")
    /\ UNCHANGED <<space, guard, data, count, message, got, kills>>

ServerWrite ==
    /\ Fill("server", message + 1)
    /\ UNCHANGED <<space, count, message, got, kills>>

\* mmap_notify(guard)
ServerNotify ==
    /\ pc["server"] = "notify"
    /\ guard' = "c"
    /\ Goto("server", "wait")
    /\ UNCHANGED <<space, data, count, message, got, kills>>

\* Mutant: the server goes on when the client has begun to write.
ServerWaitForStar ==
    /\ pc["server"] = "wait"
    /\ guard # "c"
    /\ Goto("server", "read")
    /\ UNCHANGED <<space, guard, data, count, message, got, kills>>

\* mmap_wait(guard)
ServerWait ==
    /\ pc["server"] = "wait"
    /\ guard = "s"
    /\ Goto("server", "read")
    /\ UNCHANGED <<space, guard, data, count, message, got, kills>>

\* Mutant: the loop makes a round too many.
ServerReadOneMore ==
    /\ pc["server"] = "read"
    /\ got' = [got EXCEPT !["server"] = data]
    /\ message' = message + 1
    /\ Goto("server", IF message + 1 <= Count THEN "write" ELSE "done")
    /\ UNCHANGED <<space, guard, data, count, kills>>

\* memcpy(buffer, file_memory, args->size) and the end of the round
ServerRead ==
    /\ pc["server"] = "read"
    /\ got' = [got EXCEPT !["server"] = data]
    /\ message' = message + 1
    /\ Goto("server", IF message + 1 < Count THEN "write" ELSE "done")
    /\ UNCHANGED <<space, guard, data, count, kills>>
-----------------------------------------------------------------------------
\* Both processes are killed and started again.  The file stays as it is, or
\* is a new one if the client had removed it.
KillAndRestart ==
    /\ kills < MaxKills
    /\ kills' = kills + 1
    /\ pc' = [p \in Procs |-> "open"]
    /\ count' = Count
    /\ message' = 0
    /\ got' = [p \in Procs |-> Nothing]
    /\ IF pc["client"] = "done"
       THEN space' = FALSE /\ guard' = "0" /\ data' = Nothing
       ELSE UNCHANGED <<space, guard, data>>

Client ==
    \/ ClientOpen \/ ClientFirstNotify \/ ClientWait \/ ClientRead \/ ClientWrite
    \/ ClientNotify \/ ClientRemove

Server ==
    \/ ServerOpen \/ ServerFirstWait \/ ServerWrite \/ ServerNotify \/ ServerWait
    \/ ServerRead

Next == Client \/ Server \/ KillAndRestart

\* Both processes spin and are scheduled again and again.
Fairness == WF_vars(Client) /\ WF_vars(Server)

Spec == Init /\ [][Next]_vars /\ Fairness
-----------------------------------------------------------------------------
\* The processes inside their memcpy or memset.
Touching(p) == pc[p] \in {"read", "write", "fill"}

\* The guard keeps the two processes apart although each memset destroys it and
\* a killed run may have left any value in it.
Exclusive == ~(Touching("client") /\ Touching("server"))

\* On a new file no message is lost or read twice: what a process has copied
\* when its turn ends is the other one's message of the same round.
RoundTrip ==
    kills = 0 =>
        /\ pc["client"] \in {"write", "fill", "notify"} =>
              got["client"] = <<"server", Count - count + 1>>
        /\ pc["server"] \in {"write", "fill", "notify", "wait", "done"} /\ message > 0 =>
              got["server"] = <<"client", message>>

\* The server passes its first mmap_wait only after the client of the same run
\* has set the guard.
WaitsForClient == pc["server"] \notin {"open", "first"} => pc["client"] \notin {"open", "first"}

\* "Ensure that the file will hold enough space", says the server of make_space:
\* the client's first mmap_notify does not touch the file before that.
SpaceEnsured == pc["client"] # "SIGBUS"

\* Every run ends whose server waits for its client, unless the client meets a
\* file without space: a file left behind does no other harm than the early
\* start of the server.
OnlyEarlyStartHangs ==
    []WaitsForClient => <>((\A p \in Procs : pc[p] = "done") \/ ~SpaceEnsured)
=============================================================================
