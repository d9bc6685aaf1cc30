--------------------------------- MODULE Mq ---------------------------------
(***************************************************************************)
(* source/mq: one message at a time through a System V message queue,      *)
(* answers told from requests by their type.  The server tells the client  *)
(* with SIGUSR2 that the queue is there.  A queue and its messages outlive *)
(* a killed run; only a server that reaches its cleanup removes them.      *)
(***************************************************************************)
EXTENDS Signals, Sequences

CONSTANTS
    Count,    \* args->count
    Sizes,    \* values of args->size, one per run (at most MAXIMUM_MESSAGE_SIZE)
    Room,     \* messages a queue has room for (msg_qbytes)
    MaxKills  \* how many runs are killed before one is left alone

ASSUME CountAssumption == Count \in Nat \ {0}
ASSUME SizesAssumption == Sizes \subseteq Nat \ {0}
ASSUME RoomAssumption == Room \in Nat \ {0}
ASSUME KillsAssumption == MaxKills \in Nat

VARIABLES
    exists,   \* whether there is a queue with the key
    queue,    \* its messages of each type, oldest first
    size,     \* args->size of this run
    count,    \* args->count of the client, which counts down
    message,  \* index of the server, which counts up
    got,      \* number of the last message each process has received
    kills     \* runs killed so far

mq == <<exists, queue>>
run == <<size, count, message, got, kills>>
vars == <<pc, signals, mq, run>>

\* SERVER_MESSAGE and CLIENT_MESSAGE are named after their senders.  A message
\* has a size and its number in its run; those of killed runs have number 0.
Types == Children
Messages == [size : Sizes, number : 0..Count]

TypeOK ==
    /\ SignalsTypeOK
    /\ exists \in BOOLEAN
    /\ queue \in [Types -> Seq(Messages)]
    /\ size \in Sizes
    /\ count \in 0..Count
    /\ message \in 0..Count
    /\ got \in [Children -> 0..Count]
    /\ kills \in 0..MaxKills

NewRun ==
    [launcher |-> "setup", server |-> "unborn", client |-> "unborn"]

NoMessages == [t \in Types |-> <<>>]

Init ==
    /\ SignalsInit
    /\ pc = NewRun
    /\ exists = FALSE
    /\ queue = NoMessages
    /\ size \in Sizes
    /\ count = Count
    /\ message = 0
    /\ got = [p \in Children |-> 0]
    /\ kills = 0

Backlog == Len(queue["server"]) + Len(queue["client"])

msgsnd(type, number) ==
    queue' = [queue EXCEPT ![type] = Append(@, [size |-> size, number |-> number])]

\* Mutant: a type of 0, which receives the first message of any type.
msgrcv_Any(p, type, to) ==
    \E t \in Types :
        LET m == Head(queue[t])
        IN /\ queue[t] # <<>>
           /\ queue' = [queue EXCEPT ![t] = Tail(@)]
           /\ got' = [got EXCEPT ![p] = m.number]
           /\ Goto(p, to)

\* p receives the oldest message of the type, or throws: a longer message is
\* refused and stays (E2BIG), a shorter one is taken but is less than asked for.
msgrcv(p, type, to) ==
    LET m == Head(queue[type])
    IN /\ queue[type] # <<>>
       /\ queue' = IF m.size > size THEN queue ELSE [queue EXCEPT ![type] = Tail(@)]
       /\ IF m.size = size
          THEN Goto(p, to) /\ got' = [got EXCEPT ![p] = m.number]
          ELSE Goto(p, "failed") /\ UNCHANGED got

\* A call on a queue that is not there (ENOENT, EIDRM) makes the client throw.
ClientThrows(from) ==
    /\ pc["client"] = from
    /\ ~exists
    /\ Goto("client", "failed")
    /\ UNCHANGED <<signals, mq, run>>
-----------------------------------------------------------------------------
(***************************************************************************)
(* server.c                                                                *)
(***************************************************************************)

\* create_mq: msgget with IPC_CREAT
ServerGetQueue ==
    /\ pc["server"] = "create"
    /\ exists' = TRUE
    /\ Goto("server", "ignore")
    /\ UNCHANGED <<signals, queue, run>>

\* create_mq: server_once(NOTIFY)
ServerOnce ==
    /\ \/ setup_ignored_signals("server", "ignore", "block")
       \/ setup_blocked_signals("server", "block", "notify")
       \/ notify("server", "notify", "send")
    /\ UNCHANGED <<mq, run>>

ServerSend ==
    /\ pc["server"] = "send"
    /\ IF Backlog < Room
       THEN msgsnd("server", message + 1) /\ Goto("server", "receive")
       ELSE Goto("server", "failed") /\ UNCHANGED queue
    /\ UNCHANGED <<signals, exists, run>>

\* Mutant: the server takes what is there and does not wait for the answer.
ServerReceiveNoWait ==
    /\ pc["server"] = "receive"
    /\ Goto("server", IF message + 1 < Count THEN "send" ELSE "cleanup")
    /\ message' = message + 1
    /\ UNCHANGED <<signals, mq, got, size, count, kills>>

\* Mutant: the server's loop makes a round too many.
ServerReceiveOneMore ==
    /\ pc["server"] = "receive"
    /\ msgrcv("server", "client", IF message < Count THEN "send" ELSE "cleanup")
    /\ message' = IF pc'["server"] = "send" THEN message + 1 ELSE message
    /\ UNCHANGED <<signals, exists, size, count, kills>>

ServerReceive ==
    /\ pc["server"] = "receive"
    /\ msgrcv("server", "client", IF message + 1 < Count THEN "send" ELSE "cleanup")
    /\ message' = IF pc'["server"] = "failed" THEN message ELSE message + 1
    /\ UNCHANGED <<signals, exists, size, count, kills>>

\* evaluate, then cleanup: msgctl(mq, IPC_RMID, NULL)
ServerCleanup ==
    /\ pc["server"] = "cleanup"
    /\ exists' = FALSE
    /\ queue' = NoMessages
    /\ Goto("server", "done")
    /\ UNCHANGED <<signals, run>>
-----------------------------------------------------------------------------
(***************************************************************************)
(* client.c                                                                *)
(***************************************************************************)

\* create_mq: client_once(WAIT)
ClientOnce ==
    /\ \/ setup_ignored_signals("client", "ignore", "block")
       \/ setup_blocked_signals("client", "block", "wait")
       \/ wait_for_signal("client", "wait", "get")
    /\ UNCHANGED <<mq, run>>

\* create_mq: msgget
ClientGetQueue ==
    \/ /\ pc["client"] = "get"
       /\ exists
       /\ Goto("client", "receive")
       /\ UNCHANGED <<signals, mq, run>>
    \/ ClientThrows("get")

ClientReceive ==
    \/ /\ pc["client"] = "receive"
       /\ exists
       /\ msgrcv("client", "server", "send")
       /\ UNCHANGED <<signals, exists, size, count, message, kills>>
    \/ ClientThrows("receive")

\* msgsnd without IPC_NOWAIT waits for room.
ClientSend ==
    \/ /\ pc["client"] = "send"
       /\ exists
       /\ Backlog < Room
       /\ msgsnd("client", Count - count + 1)
       /\ count' = count - 1
       /\ Goto("client", IF count > 1 THEN "receive" ELSE "done")
       /\ UNCHANGED <<signals, exists, size, message, got, kills>>
    \/ ClientThrows("send")
-----------------------------------------------------------------------------
\* The whole group is killed, or has ended, and a new run is started, perhaps
\* with another message size.  The messages of the old run stay in the queue.
KillAndRestart ==
    /\ kills < MaxKills
    /\ kills' = kills + 1
    /\ pc' = NewRun
    /\ handled' = [p \in Processes |-> {}]
    /\ blocked' = [p \in Processes |-> {}]
    /\ pending' = [p \in Processes |-> {}]
    /\ queue' = [t \in Types |->
                   [i \in DOMAIN queue[t] |-> [queue[t][i] EXCEPT !.number = 0]]]
    /\ size' \in Sizes
    /\ count' = Count
    /\ message' = 0
    /\ got' = [p \in Children |-> 0]
    /\ UNCHANGED exists

Server ==
    \/ start_process("server", "create") /\ UNCHANGED <<mq, run>>
    \/ ServerGetQueue \/ ServerOnce \/ ServerSend \/ ServerReceive \/ ServerCleanup

Client ==
    \/ start_process("client", "ignore") /\ UNCHANGED <<mq, run>>
    \/ ClientOnce \/ ClientGetQueue \/ ClientReceive \/ ClientSend

Next ==
    \/ Launcher /\ UNCHANGED <<mq, run>>
    \/ Server \/ Client \/ KillAndRestart

\* Nothing stops a process but the calls it waits in.
Fairness == WF_vars(Launcher /\ UNCHANGED <<mq, run>>) /\ WF_vars(Server) /\ WF_vars(Client)

Spec == Init /\ [][Next]_vars /\ Fairness
-----------------------------------------------------------------------------
\* On a new queue no message is lost or taken for another one: what a process
\* has received is the other one's message of the same round.
RoundTrip ==
    kills = 0 =>
        /\ pc["client"] = "send" => got["client"] = Count - count + 1
        /\ pc["server"] \in {"send", "receive", "cleanup", "done"} =>
              got["server"] = message

\* On a new queue no call fails: the client finds the queue, the server's
\* IPC_NOWAIT finds room, and IPC_RMID never takes the queue from a client that
\* still has a message to receive or to send.
NeverFails == kills = 0 => \A p \in Children : pc[p] # "failed"

\* A killed run leaves at most one message behind, so the server's msgsnd with
\* IPC_NOWAIT cannot find a full queue before as many runs were killed as the
\* queue has room for.
BacklogBounded == Backlog <= kills + 1

\* "Tell the client it can now get the queue": the signal, sent once, finds the
\* client waiting for it or about to.
ClientTold ==
    pc["server"] \in {"send", "receive", "cleanup", "done", "failed"} =>
        Own("client") \in blocked["client"]

\* Whatever killed runs have left in the queue, as long as they do not fill it,
\* a run ends unless the one signal came before the client had blocked it, or
\* one process has thrown on a message of another size and left the queue and
\* the other process behind.
OnlyEarlySignalHangs ==
    [](ClientTold /\ kills < Room) =>
        <>(pc["launcher"] = "done" \/ (exists /\ \E p \in Children : pc[p] = "failed"))
=============================================================================
