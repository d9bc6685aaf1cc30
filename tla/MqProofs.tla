------------------------------ MODULE MqProofs ------------------------------
(***************************************************************************)
(* How many messages killed runs of mq can leave in the queue, for every   *)
(* Count, Room, set of sizes and number of killed runs; and that a run on  *)
(* a new queue exchanges every message and fails in no call.               *)
(***************************************************************************)
EXTENDS Mq, SequenceTheorems, TLAPS

Queues == [Types -> Seq(Messages)]

\* A message the client has taken and not yet answered
InHand == IF pc["client"] = "send" THEN 1 ELSE 0

\* The server's own message of the round, sent and not yet answered, or left
\* behind by a server that threw
InRound == IF pc["server"] \in {"receive", "failed"} THEN 1 ELSE 0

\* Nothing is there before the launcher has started it.
Places ==
    /\ DOMAIN pc = Processes
    /\ pc["launcher"] \in {"setup", "fork server"} => pc["server"] = "unborn"
    /\ pc["launcher"] \in {"setup", "fork server", "fork client"} => pc["client"] = "unborn"

\* The bound is not inductive by itself: a client that answers adds a message,
\* which it has taken before, and the server sends only after it has received.
IInv ==
    /\ Places
    /\ queue \in Queues
    /\ size \in Sizes
    /\ kills \in Nat
    /\ count \in 0..Count
    /\ message \in 0..Count
    /\ pc["client"] \notin Ended => count > 0
    /\ pc["server"] \notin Ended \cup {"cleanup"} => message < Count
    /\ Backlog + InHand <= kills + InRound

\* The number of messages in a queue
Total(q) == Len(q["server"]) + Len(q["client"])

\* msgsnd adds a message.
LEMMA AppendTotal ==
    ASSUME NEW q \in Queues, NEW t \in Types, NEW m \in Messages
    PROVE  /\ [q EXCEPT ![t] = Append(@, m)] \in Queues
           /\ Total([q EXCEPT ![t] = Append(@, m)]) = Total(q) + 1
<1> DEFINE r == [q EXCEPT ![t] = Append(@, m)]
           s0 == Len(q["server"])
           c0 == Len(q["client"])
           s1 == Len(r["server"])
           c1 == Len(r["client"])
<1>1. r \in Queues
  BY DEF Queues
<1>2. Len(r[t]) = Len(q[t]) + 1
  BY DEF Queues
<1>3. \A u \in Types \ {t} : r[u] = q[u]
  BY DEF Queues
<1>4. s0 \in Nat /\ c0 \in Nat
  BY DEF Queues, Types, Children
<1>5. t \in {"server", "client"}
  BY DEF Types, Children
<1>6. \/ s1 = s0 + 1 /\ c1 = c0
      \/ s1 = s0 /\ c1 = c0 + 1
  <2> HIDE DEF r
  <2>1. CASE t = "server"
    BY <1>2, <1>3, <2>1 DEF Types, Children
  <2>2. CASE t = "client"
    BY <1>2, <1>3, <2>2 DEF Types, Children
  <2> QED
    BY <1>5, <2>1, <2>2
<1>7. Total(r) = s1 + c1 /\ Total(q) = s0 + c0
  BY DEF Total
<1> HIDE DEF r, s0, c0, s1, c1
<1>8. s1 + c1 = (s0 + c0) + 1
  BY <1>4, <1>6
<1>9. Total(r) = Total(q) + 1
  BY <1>7, <1>8
<1> QED
  BY <1>1, <1>9 DEF r

\* msgrcv takes one.
LEMMA TailTotal ==
    ASSUME NEW q \in Queues, NEW t \in Types, q[t] # <<>>
    PROVE  /\ [q EXCEPT ![t] = Tail(@)] \in Queues
           /\ Total([q EXCEPT ![t] = Tail(@)]) = Total(q) - 1
<1> DEFINE r == [q EXCEPT ![t] = Tail(@)]
<1>1. r \in Queues
  BY DEF Queues
<1>2. Len(r[t]) = Len(q[t]) - 1
  BY DEF Queues
<1>3. \A u \in Types \ {t} : r[u] = q[u]
  BY DEF Queues
<1>4. \A u \in Types : Len(q[u]) \in Nat
  BY DEF Queues
<1> HIDE DEF r
<1>5. Total(r) = Total(q) - 1
  <2>1. "server" \in Types /\ "client" \in Types /\ t \in {"server", "client"}
    BY DEF Types, Children
  <2>2. Len(q["server"]) \in Nat /\ Len(q["client"]) \in Nat
    BY <1>4, <2>1
  <2>3. CASE t = "server"
    <3>1. Len(r["client"]) = Len(q["client"])
      BY <1>3, <2>1, <2>3
    <3>2. Len(r["server"]) = Len(q["server"]) - 1
      BY <1>2, <2>3
    <3> QED
      BY <2>2, <3>1, <3>2 DEF Total
  <2>4. CASE t = "client"
    <3>1. Len(r["server"]) = Len(q["server"])
      BY <1>3, <2>1, <2>4
    <3>2. Len(r["client"]) = Len(q["client"]) - 1
      BY <1>2, <2>4
    <3> QED
      BY <2>2, <3>1, <3>2 DEF Total
  <2> QED
    BY <2>1, <2>3, <2>4
<1> QED
  BY <1>1, <1>5 DEF r

Renumbered(q) ==
    [t \in Types |-> [i \in DOMAIN q[t] |-> [q[t][i] EXCEPT !.number = 0]]]

\* A killed run leaves the messages where they are.
LEMMA RenumberedTotal ==
    ASSUME NEW q \in Queues
    PROVE  Renumbered(q) \in Queues /\ Total(Renumbered(q)) = Total(q)
<1>1. ASSUME NEW t \in Types
      PROVE  /\ Renumbered(q)[t] \in Seq(Messages)
             /\ Len(Renumbered(q)[t]) = Len(q[t])
  <2> DEFINE s == q[t]
             r == [i \in DOMAIN s |-> [s[i] EXCEPT !.number = 0]]
  <2>1. s \in Seq(Messages)
    BY DEF Queues
  <2> HIDE DEF s
  <2>2. DOMAIN s = 1..Len(s) /\ Len(s) \in Nat
    BY <2>1
  <2>3. ASSUME NEW i \in 1..Len(s) PROVE [s[i] EXCEPT !.number = 0] \in Messages
    <3>1. s[i] \in Messages
      BY <2>1, <2>2
    <3>2. 0 \in 0..Count
      BY CountAssumption
    <3> QED
      BY <3>1, <3>2 DEF Messages
  <2>4. r \in [1..Len(s) -> Messages]
    BY <2>2, <2>3
  <2> HIDE DEF r
  <2>5. r \in Seq(Messages)
    BY <2>2, <2>4, SeqDef
  <2>6. Len(r) = Len(s)
    BY <2>2, <2>4, <2>5
  <2> QED
    BY <2>5, <2>6 DEF r, s, Renumbered
<1>2. Renumbered(q) \in Queues
  BY <1>1 DEF Queues, Renumbered
<1> HIDE DEF Renumbered
<1> QED
  BY <1>1, <1>2 DEF Total, Types, Children

\* A total is a number.
LEMMA TotalNat == ASSUME NEW q \in Queues PROVE Total(q) \in Nat
BY DEF Queues, Total, Types, Children
-----------------------------------------------------------------------------
\* The steps that send and receive no message
LEMMA QuietStep ==
    ASSUME IInv,
           \/ Launcher /\ UNCHANGED <<mq, run>>
           \/ start_process("server", "create") /\ UNCHANGED <<mq, run>>
           \/ start_process("client", "ignore") /\ UNCHANGED <<mq, run>>
           \/ ServerGetQueue \/ ServerOnce
           \/ ClientOnce \/ ClientGetQueue
           \/ ClientThrows("receive") \/ ClientThrows("send")
    PROVE  IInv'
<1>1. UNCHANGED <<queue, size, count, message, kills>>
  BY DEF mq, run, ServerGetQueue, ServerOnce, ClientOnce, ClientGetQueue, ClientThrows
<1>2. /\ Places'
      /\ pc'["client"] \notin Ended => pc["client"] \notin Ended
      /\ pc'["server"] \notin Ended \cup {"cleanup"} => pc["server"] \notin Ended \cup {"cleanup"}
      /\ pc'["client"] = "send" => pc["client"] = "send"
      /\ pc'["server"] = "receive" <=> pc["server"] = "receive"
      /\ pc'["server"] = "failed" <=> pc["server"] = "failed"
  <2>0. Places
    BY DEF IInv
  <2> USE <2>0 DEF Places, Processes, Children, Goto, Ended
  <2>1. CASE Launcher
    BY <2>1 DEF Launcher, setup_parent, start_server, start_client, Fork,
                waitpid_server, waitpid_client
  <2>2. CASE start_process("server", "create") \/ start_process("client", "ignore")
    BY <2>2 DEF start_process
  <2>3. CASE ServerGetQueue
    BY <2>3 DEF ServerGetQueue
  <2>4. CASE ServerOnce
    <3>1. CASE notify("server", "notify", "send")
      BY <3>1 DEF notify, DiesOf, Exists
    <3>2. CASE ~notify("server", "notify", "send")
      BY <2>4, <3>2 DEF ServerOnce, setup_ignored_signals, setup_blocked_signals
    <3> QED
      BY <3>1, <3>2
  <2>5. CASE ClientOnce
    BY <2>5 DEF ClientOnce, setup_ignored_signals, setup_blocked_signals, wait_for_signal
  <2>6. CASE ClientGetQueue
    BY <2>6 DEF ClientGetQueue, ClientThrows
  <2>7. CASE ClientThrows("receive") \/ ClientThrows("send")
    BY <2>7 DEF ClientThrows
  <2> QED
    BY <2>1, <2>2, <2>3, <2>4, <2>5, <2>6, <2>7
<1>3. Backlog' = Backlog /\ Backlog \in Nat
  BY <1>1, TotalNat DEF IInv, Backlog, Total
<1>4. InHand' <= InHand /\ InRound' = InRound
  <2>1. (pc'["client"] = "send") => (pc["client"] = "send")
    BY <1>2
  <2>2. (pc'["server"] \in {"receive", "failed"}) = (pc["server"] \in {"receive", "failed"})
    BY <1>2
  <2>3. InHand' <= InHand
    BY <2>1 DEF InHand
  <2>4. InRound' = InRound
    BY <2>2 DEF InRound
  <2> QED
    BY <2>3, <2>4
<1>5. Backlog' + InHand' <= kills' + InRound'
  BY <1>1, <1>3, <1>4 DEF IInv, InHand, InRound
<1> QED
  BY <1>1, <1>2, <1>5 DEF IInv

\* The counts are numbers.
LEMMA Numbers ==
    ASSUME IInv
    PROVE  Backlog \in Nat /\ Count \in Nat /\ message \in Nat /\ count \in Nat
<1>1. Backlog \in Nat
  BY TotalNat DEF IInv, Backlog, Total
<1> QED
  BY <1>1, CountAssumption DEF IInv

\* msgsnd keeps the type of the queue.
LEMMA Sends ==
    ASSUME IInv, NEW t \in Types, NEW n \in 0..Count, msgsnd(t, n)
    PROVE  queue' \in Queues /\ Backlog' = Backlog + 1
<1>1. [size |-> size, number |-> n] \in Messages
  BY DEF IInv, Messages
<1> QED
  BY <1>1, AppendTotal DEF IInv, msgsnd, Backlog, Total

\* A receive takes a message, or refuses it and throws.
LEMMA Receives ==
    ASSUME IInv, NEW p \in Children, NEW t \in Types, NEW to, msgrcv(p, t, to)
    PROVE  /\ queue' \in Queues
           /\ \/ pc' = [pc EXCEPT ![p] = to] /\ Backlog' = Backlog - 1
              \/ pc' = [pc EXCEPT ![p] = "failed"] /\ Backlog' \in {Backlog, Backlog - 1}
<1> DEFINE m == Head(queue[t])
<1>1. queue \in Queues /\ queue[t] # <<>>
  BY DEF IInv, msgrcv
<1>2. size \in Nat /\ m.size \in Nat
  <2>1. m \in Messages
    BY <1>1 DEF Queues
  <2> QED
    BY <2>1, SizesAssumption DEF IInv, Messages
<1>3. \/ m.size > size /\ queue' = queue
      \/ m.size <= size /\ queue' = [queue EXCEPT ![t] = Tail(@)]
  BY <1>2 DEF msgrcv
<1>4. queue' \in Queues /\ Backlog' \in {Backlog, Backlog - 1}
  BY <1>1, <1>3, TailTotal DEF Backlog, Total
<1>5. CASE m.size = size
  <2>1. queue' = [queue EXCEPT ![t] = Tail(@)] /\ pc' = [pc EXCEPT ![p] = to]
    BY <1>2, <1>3, <1>5 DEF msgrcv, Goto
  <2>2. Backlog' = Backlog - 1
    BY <1>1, <2>1, TailTotal DEF Backlog, Total
  <2> QED
    BY <1>4, <2>1, <2>2
<1>6. CASE m.size # size
  BY <1>4, <1>6 DEF msgrcv, Goto
<1> QED
  BY <1>5, <1>6

\* A round begins with a message more, or the server throws.
LEMMA ServerSendStep == ASSUME IInv, ServerSend PROVE IInv'
<1> USE DEF Processes, Children, Types, Ended
<1>1. /\ UNCHANGED <<size, count, message, kills>>
      /\ pc["server"] = "send" /\ message < Count
  BY DEF ServerSend, run, IInv
<1>2. Backlog \in Nat /\ message + 1 \in 0..Count
  BY <1>1, Numbers
<1>3. CASE Backlog < Room
  <2>1. pc' = [pc EXCEPT !["server"] = "receive"] /\ msgsnd("server", message + 1)
    BY <1>3 DEF ServerSend, Goto
  <2>2. queue' \in Queues /\ Backlog' = Backlog + 1
    BY <1>2, <2>1, Sends
  <2>3. InHand' = InHand /\ InRound = 0 /\ InRound' = 1
    BY <1>1, <2>1 DEF InHand, InRound, IInv, Places
  <2>4. Backlog' + InHand' <= kills' + InRound'
    BY <1>1, <1>2, <2>2, <2>3 DEF IInv, InHand
  <2>5. /\ Places'
        /\ pc'["client"] = pc["client"]
    BY <1>1, <2>1 DEF IInv, Places
  <2> QED
    BY <1>1, <2>1, <2>2, <2>4, <2>5 DEF IInv
<1>4. CASE ~(Backlog < Room)
  <2>1. pc' = [pc EXCEPT !["server"] = "failed"] /\ queue' = queue
    BY <1>4 DEF ServerSend, Goto
  <2>2. Backlog' = Backlog
    BY <2>1 DEF Backlog
  <2>3. InHand' = InHand /\ InRound = 0 /\ InRound' = 1
    BY <1>1, <2>1 DEF InHand, InRound, IInv, Places
  <2>4. Backlog' + InHand' <= kills' + InRound'
    BY <1>1, <1>2, <2>2, <2>3 DEF IInv, InHand
  <2>5. /\ Places'
        /\ pc'["client"] = pc["client"] /\ pc'["server"] = "failed"
    BY <1>1, <2>1 DEF IInv, Places
  <2> QED
    BY <1>1, <2>1, <2>4, <2>5 DEF IInv
<1> QED
  BY <1>3, <1>4

\* The round ends with a message less.
LEMMA ServerReceiveStep == ASSUME IInv, ServerReceive PROVE IInv'
<1> USE DEF Processes, Children, Types, Ended
<1> DEFINE to == IF message + 1 < Count THEN "send" ELSE "cleanup"
<1>1. /\ UNCHANGED <<size, count, kills>>
      /\ pc["server"] = "receive" /\ message < Count
      /\ msgrcv("server", "client", to)
      /\ message' = IF pc'["server"] = "failed" THEN message ELSE message + 1
  BY DEF ServerReceive, IInv
<1>2. Backlog \in Nat /\ message \in Nat /\ Count \in Nat
  BY Numbers
<1>3. /\ queue' \in Queues
      /\ \/ pc' = [pc EXCEPT !["server"] = to] /\ Backlog' = Backlog - 1
         \/ pc' = [pc EXCEPT !["server"] = "failed"] /\ Backlog' \in {Backlog, Backlog - 1}
  BY <1>1, Receives
<1>4. InHand' = InHand /\ InRound = 1 /\ InHand \in {0, 1}
  BY <1>1, <1>3 DEF InHand, InRound, IInv, Places
<1>5. /\ Places'
      /\ pc'["client"] = pc["client"]
  BY <1>1, <1>3 DEF IInv, Places
<1>6. /\ message' \in 0..Count
      /\ pc'["server"] \notin Ended \cup {"cleanup"} => message' < Count
  <2>1. CASE pc' = [pc EXCEPT !["server"] = to]
    <3>1. pc'["server"] = to
      BY <2>1 DEF IInv, Places
    <3> QED
      BY <1>1, <1>2, <3>1
  <2>2. CASE pc' = [pc EXCEPT !["server"] = "failed"]
    <3>1. pc'["server"] = "failed"
      BY <2>2 DEF IInv, Places
    <3> QED
      BY <1>1, <1>2, <3>1
  <2> QED
    BY <1>3, <2>1, <2>2
<1>7. Backlog' + InHand' <= kills' + InRound'
  <2>1. \/ pc'["server"] \in {"send", "cleanup"} /\ Backlog' = Backlog - 1
        \/ pc'["server"] = "failed" /\ Backlog' \in {Backlog, Backlog - 1}
    BY <1>3 DEF IInv, Places
  <2>2. \/ InRound' = 0 /\ Backlog' = Backlog - 1
        \/ InRound' = 1 /\ Backlog' \in {Backlog, Backlog - 1}
    BY <2>1 DEF InRound
  <2> QED
    BY <1>1, <1>2, <1>4, <2>2 DEF IInv
<1> QED
  BY <1>1, <1>3, <1>5, <1>6, <1>7 DEF IInv

\* IPC_RMID takes all messages with the queue.
LEMMA ServerCleanupStep == ASSUME IInv, ServerCleanup PROVE IInv'
<1> USE DEF Processes, Children, Types, Ended
<1>1. /\ UNCHANGED <<size, count, message, kills>>
      /\ pc["server"] = "cleanup" /\ pc' = [pc EXCEPT !["server"] = "done"]
      /\ queue' = NoMessages
  BY DEF ServerCleanup, run, Goto
<1>2. Places' /\ pc'["client"] = pc["client"] /\ pc'["server"] = "done"
  BY <1>1 DEF IInv, Places
<1>3. queue' \in Queues /\ Backlog' = 0
  BY <1>1 DEF Queues, NoMessages, Backlog
<1>4. InHand' = InHand /\ InRound' = 0 /\ InRound = 0
  BY <1>1, <1>2 DEF InHand, InRound
<1>5. Backlog' + InHand' <= kills' + InRound'
  BY <1>1, <1>3, <1>4, Numbers DEF IInv, InHand
<1> QED
  BY <1>1, <1>2, <1>3, <1>5 DEF IInv

\* The client takes a message in hand,
LEMMA ClientReceiveStep == ASSUME IInv, ClientReceive PROVE IInv'
<1> USE DEF Processes, Children, Types, Ended
<1>1. CASE ClientThrows("receive")
  BY <1>1, QuietStep
<1>2. CASE ~ClientThrows("receive")
  <2>1. /\ UNCHANGED <<size, count, message, kills>>
        /\ pc["client"] = "receive"
        /\ msgrcv("client", "server", "send")
    BY <1>2 DEF ClientReceive
  <2>2. /\ queue' \in Queues
        /\ \/ pc' = [pc EXCEPT !["client"] = "send"] /\ Backlog' = Backlog - 1
           \/ pc' = [pc EXCEPT !["client"] = "failed"] /\ Backlog' \in {Backlog, Backlog - 1}
    BY <2>1, Receives
  <2>3. Places' /\ pc'["server"] = pc["server"]
    BY <2>1, <2>2 DEF IInv, Places
  <2>4. InHand = 0 /\ InRound' = InRound /\ InRound \in {0, 1}
    BY <2>1, <2>3 DEF InHand, InRound
  <2>5. \/ InHand' = 1 /\ Backlog' = Backlog - 1
        \/ InHand' = 0 /\ Backlog' \in {Backlog, Backlog - 1}
    BY <2>2 DEF InHand, IInv, Places
  <2>6. Backlog' + InHand' <= kills' + InRound'
    BY <2>1, <2>4, <2>5, Numbers DEF IInv
  <2> QED
    BY <2>1, <2>2, <2>3, <2>6 DEF IInv
<1> QED
  BY <1>1, <1>2

\* and gives one back.
LEMMA ClientSendStep == ASSUME IInv, ClientSend PROVE IInv'
<1> USE DEF Processes, Children, Types, Ended
<1>1. CASE ClientThrows("send")
  BY <1>1, QuietStep
<1>2. CASE ~ClientThrows("send")
  <2> DEFINE to == IF count > 1 THEN "receive" ELSE "done"
  <2>1. /\ UNCHANGED <<size, message, kills>>
        /\ pc["client"] = "send" /\ count' = count - 1
        /\ msgsnd("client", Count - count + 1)
        /\ pc' = [pc EXCEPT !["client"] = to]
    BY <1>2 DEF ClientSend, Goto
  <2>2. count > 0 /\ count \in 0..Count
    BY <2>1 DEF IInv
  <2>3. Count - count + 1 \in 0..Count
    BY <2>2, Numbers
  <2>4. queue' \in Queues /\ Backlog' = Backlog + 1
    BY <2>1, <2>3, Sends
  <2>5. Places' /\ pc'["server"] = pc["server"] /\ pc'["client"] = to
    BY <2>1 DEF IInv, Places
  <2>6. count' \in 0..Count /\ (pc'["client"] \notin Ended => count' > 0)
    BY <2>1, <2>2, <2>5, Numbers
  <2>7. InHand = 1 /\ InHand' = 0 /\ InRound' = InRound /\ InRound \in {0, 1}
    BY <2>1, <2>5 DEF InHand, InRound
  <2>8. Backlog' + InHand' <= kills' + InRound'
    BY <2>1, <2>4, <2>7, Numbers DEF IInv
  <2> QED
    BY <2>1, <2>4, <2>5, <2>6, <2>8 DEF IInv
<1> QED
  BY <1>1, <1>2

\* What a killed run leaves is one message at most: that of its unfinished round.
LEMMA KillAndRestartStep == ASSUME IInv, KillAndRestart PROVE IInv'
<1> USE DEF Processes, Children, Ended, NewRun
<1>1. /\ kills' = kills + 1 /\ size' \in Sizes /\ count' = Count /\ message' = 0
      /\ pc' = NewRun
      /\ queue' = Renumbered(queue)
  BY DEF KillAndRestart, Renumbered
<1>2. queue' \in Queues /\ Backlog' = Backlog
  BY <1>1, RenumberedTotal DEF IInv, Backlog, Total
<1>3. Places' /\ pc'["client"] = "unborn" /\ pc'["server"] = "unborn"
  BY <1>1 DEF Places
<1>4. InHand' = 0 /\ InRound' = 0 /\ InHand \in {0, 1} /\ InRound \in {0, 1}
  BY <1>3 DEF InHand, InRound
<1>5. Backlog' + InHand' <= kills' + InRound'
  BY <1>1, <1>2, <1>4, Numbers DEF IInv
<1>6. kills' \in Nat /\ count' \in 0..Count /\ message' \in 0..Count /\ count' > 0 /\ message' < Count
  BY <1>1, CountAssumption DEF IInv
<1> QED
  BY <1>1, <1>2, <1>3, <1>5, <1>6 DEF IInv
-----------------------------------------------------------------------------
\* The first run starts without a queue.
LEMMA InitIInv == ASSUME Init PROVE IInv
<1> USE DEF Processes, Children, Types, Ended
<1>1. Places /\ pc["client"] = "unborn" /\ pc["server"] = "unborn"
  BY DEF Init, NewRun, Places
<1>2. queue \in Queues /\ Backlog = 0
  BY DEF Init, NoMessages, Queues, Backlog
<1>3. InHand = 0 /\ InRound = 0
  BY <1>1 DEF InHand, InRound
<1> QED
  BY <1>1, <1>2, <1>3, CountAssumption DEF Init, IInv

\* Every step keeps the invariant.
LEMMA NextIInv == ASSUME IInv, [Next]_vars PROVE IInv'
<1>1. CASE UNCHANGED vars
  BY <1>1 DEF IInv, Places, InHand, InRound, Backlog, vars, mq, run
<1>2. CASE Next
  BY <1>2, QuietStep, ServerSendStep, ServerReceiveStep, ServerCleanupStep,
     ClientReceiveStep, ClientSendStep, KillAndRestartStep
     DEF Next, Server, Client
<1> QED
  BY <1>1, <1>2

\* Whatever the message sizes and however many runs were killed at whatever
\* points, a run adds at most one message to what it leaves behind: the server
\* sends with IPC_NOWAIT only after msgrcv has taken the last answer, and the
\* client answers only what it has taken.
THEOREM BacklogIsBounded == Spec => []BacklogBounded
<1>1. IInv => BacklogBounded
  <2> SUFFICES ASSUME IInv PROVE BacklogBounded
    OBVIOUS
  <2>1. InHand \in {0, 1} /\ InRound \in {0, 1}
    BY DEF InHand, InRound
  <2> QED
    BY <2>1, Numbers DEF IInv, BacklogBounded
<1> QED
  BY <1>1, InitIInv, NextIInv, PTL DEF Spec
-----------------------------------------------------------------------------
(***************************************************************************)
(* The round trip.  On a new queue a round is at one place at a time: with *)
(* the server, in the queue as a request, with the client, or in the queue *)
(* as its answer; and the client is past its wait only when the server has *)
(* told it that the queue is there.                                        *)
(***************************************************************************)
Early == {"unborn", "exec", "ignore", "block", "wait"}

\* A client that has no message in hand and none in the queue.  Killed is one
\* that had not blocked SIGUSR2 when it came.
Listening == Early \cup {"killed", "get", "receive"}

Message(n) == [size |-> size, number |-> n]

\* The server has received its m-th message and the client sent the c-th.
Rounds(m, c) == message = m /\ got["server"] = m /\ count = Count - c

\* The server's own SIGUSR2 does not kill it, and the client cannot have it yet.
Starting ==
    /\ pc["server"] \in {"unborn", "exec", "create", "ignore", "block", "notify"}
    /\ pc["server"] \in {"ignore", "block", "notify"} => exists
    /\ pc["server"] \in {"block", "notify"} => "SIGUSR2" \in handled["server"]
    /\ pc["client"] \in Early
    /\ "SIGUSR2" \notin pending["client"]
    /\ queue = NoMessages
    /\ Rounds(0, 0)

Sending ==
    /\ pc["server"] = "send" /\ exists
    /\ pc["client"] \in Listening
    /\ queue = NoMessages
    /\ Rounds(message, message)

Asked ==
    /\ pc["server"] = "receive" /\ exists
    /\ pc["client"] \in Listening
    /\ queue["server"] = <<Message(message + 1)>> /\ queue["client"] = <<>>
    /\ Rounds(message, message)

InClient ==
    /\ pc["server"] = "receive" /\ exists
    /\ pc["client"] = "send"
    /\ got["client"] = message + 1
    /\ queue = NoMessages
    /\ Rounds(message, message)

Answered ==
    /\ pc["server"] = "receive" /\ exists
    /\ pc["client"] = IF count > 0 THEN "receive" ELSE "done"
    /\ queue["server"] = <<>> /\ queue["client"] = <<Message(message + 1)>>
    /\ Rounds(message, message + 1)

Over ==
    /\ pc["server"] \in {"cleanup", "done"}
    /\ pc["client"] = "done"
    /\ got["server"] = message

Undisturbed == Starting \/ Sending \/ Asked \/ InClient \/ Answered \/ Over

\* The tables have an entry for each process.
Tables ==
    /\ DOMAIN handled = Processes
    /\ DOMAIN pending = Processes
    /\ DOMAIN got = Children

RInv == IInv /\ Tables /\ (kills = 0 => Undisturbed)

\* What the sequence operators make of a queue with one message
LEMMA Single ==
    ASSUME NEW m
    PROVE  /\ <<m>> # <<>> /\ Head(<<m>>) = m
           /\ Tail(<<m>>) = <<>> /\ Append(<<>>, m) = <<m>>
OBVIOUS

\* kill(0, SIGUSR2) is what notify of the server does.
LEMMA ServerSends == Sent("server") = "SIGUSR2"
<1>1. \E sig \in UserSignals : sig # Own("server")
  BY DEF UserSignals, Own
<1>2. Sent("server") \in UserSignals /\ Sent("server") # Own("server")
  BY <1>1 DEF Sent
<1> QED
  BY <1>2 DEF UserSignals, Own

\* No step adds or takes an entry.
LEMMA NextTables == ASSUME Tables, [Next]_vars PROVE Tables'
<1> USE DEF Tables, signals, run, mq
<1>1. CASE Launcher /\ UNCHANGED <<mq, run>>
  BY <1>1 DEF Launcher, setup_parent, start_server, start_client, Fork,
              waitpid_server, waitpid_client
<1>2. CASE Server
  BY <1>2 DEF Server, start_process, ServerGetQueue, ServerOnce, setup_ignored_signals,
              setup_blocked_signals, notify, ServerSend, ServerReceive, msgrcv, ServerCleanup
<1>3. CASE Client
  BY <1>3 DEF Client, start_process, ClientOnce, setup_ignored_signals,
              setup_blocked_signals, wait_for_signal, ClientGetQueue, ClientThrows,
              ClientReceive, msgrcv, ClientSend
<1>4. CASE KillAndRestart
  BY <1>4 DEF KillAndRestart
<1>5. CASE UNCHANGED vars
  BY <1>5 DEF vars
<1> QED
  BY <1>1, <1>2, <1>3, <1>4, <1>5 DEF Next

\* Where the other process of an undisturbed run can be, and that the queue is
\* there as long as the client uses it
LEMMA Undisturbances ==
    ASSUME Undisturbed
    PROVE  /\ pc["client"] \notin Early \cup {"killed", "done"} => exists
           /\ pc["server"] \in {"unborn", "exec", "create", "ignore", "block", "notify"}
                => Starting
           /\ pc["server"] = "send" => Sending
           /\ pc["server"] \in {"cleanup", "done"} => Over
           /\ pc["client"] = "send" => InClient
BY DEF Undisturbed, Starting, Sending, Asked, InClient, Answered, Over, Early, Listening

\* The steps before the first message: those of the launcher and of the start of
\* both processes, up to the client's msgget.
LEMMA StartKeepsRound ==
    ASSUME IInv, Tables, Undisturbed,
           \/ Launcher /\ UNCHANGED <<mq, run>>
           \/ start_process("server", "create") /\ UNCHANGED <<mq, run>>
           \/ start_process("client", "ignore") /\ UNCHANGED <<mq, run>>
           \/ ServerGetQueue \/ ServerOnce
           \/ ClientOnce \/ ClientGetQueue
    PROVE  Undisturbed'
<1> USE DEF Tables, Processes, Children, Goto
<1>0. Places
  BY DEF IInv
<1>d. DOMAIN pc = Processes
  BY <1>0 DEF Places
<1>2. ASSUME UNCHANGED <<queue, size, count, message, got, exists, handled, pending>>,
             pc'["server"] = pc["server"], pc'["client"] = pc["client"]
      PROVE  Undisturbed'
  BY <1>2 DEF Undisturbed, Starting, Sending, Asked, InClient, Answered, Over,
              Message, Rounds
<1>3. CASE Launcher /\ UNCHANGED <<mq, run>>
  <2>1. UNCHANGED <<queue, size, count, message, got, exists>>
    BY <1>3 DEF mq, run
  <2>2. CASE setup_parent
    <3>1. /\ pc'["server"] = "unborn" /\ pc'["client"] = "unborn"
          /\ pc["server"] = "unborn" /\ pc["client"] = "unborn"
          /\ UNCHANGED pending
      BY <1>0, <1>d, <2>2 DEF setup_parent, Places
    <3>2. Starting
      BY <3>1, Undisturbances
    <3> QED
      BY <2>1, <3>1, <3>2 DEF Undisturbed, Starting, Early, Rounds
  <2>3. CASE start_server
    <3>1. /\ pc'["server"] = "exec" /\ pc'["client"] = "unborn"
          /\ pc["server"] = "unborn" /\ pc["client"] = "unborn"
          /\ pending'["client"] = pending["client"]
      BY <1>0, <1>d, <2>3 DEF start_server, Fork, Places
    <3>2. Starting
      BY <3>1, Undisturbances
    <3> QED
      BY <2>1, <3>1, <3>2 DEF Undisturbed, Starting, Early, Rounds
  <2>4. CASE start_client
    <3>1. /\ pc'["server"] = pc["server"] /\ pc'["client"] = "exec"
          /\ pc["client"] = "unborn"
          /\ handled'["server"] = handled["server"]
          /\ pending'["client"] = {}
      BY <1>0, <1>d, <2>4 DEF start_client, Fork, Places
    <3> QED
      BY <2>1, <3>1 DEF Undisturbed, Starting, Sending, Asked, InClient, Answered, Over,
                        Early, Listening, Message, Rounds
  <2>5. CASE waitpid_server \/ waitpid_client
    BY <1>2, <1>d, <2>1, <2>5 DEF waitpid_server, waitpid_client, signals
  <2> QED
    BY <1>3, <2>2, <2>3, <2>4, <2>5 DEF Launcher
<1>4. CASE start_process("server", "create") /\ UNCHANGED <<mq, run>>
  <2>1. /\ UNCHANGED <<queue, size, count, message, got, exists, pending>>
        /\ pc["server"] = "exec" /\ pc'["server"] = "create"
        /\ pc'["client"] = pc["client"]
    BY <1>4, <1>d DEF start_process, mq, run
  <2>2. Starting
    BY <2>1, Undisturbances
  <2> QED
    BY <2>1, <2>2 DEF Undisturbed, Starting, Rounds
<1>5. CASE start_process("client", "ignore") /\ UNCHANGED <<mq, run>>
  <2>1. /\ UNCHANGED <<queue, size, count, message, got, exists, pending>>
        /\ pc["client"] = "exec" /\ pc'["client"] = "ignore"
        /\ pc'["server"] = pc["server"]
        /\ handled'["server"] = handled["server"]
    BY <1>5, <1>d DEF start_process, mq, run
  <2> QED
    BY <2>1 DEF Undisturbed, Starting, Sending, Asked, InClient, Answered, Over,
                Early, Listening, Message, Rounds
<1>6. CASE ServerGetQueue
  <2>1. /\ UNCHANGED <<queue, size, count, message, got, pending>>
        /\ exists' = TRUE
        /\ pc["server"] = "create" /\ pc'["server"] = "ignore"
        /\ pc'["client"] = pc["client"]
    BY <1>6, <1>d DEF ServerGetQueue, signals, run
  <2>2. Starting
    BY <2>1, Undisturbances
  <2> QED
    BY <2>1, <2>2 DEF Undisturbed, Starting, Rounds
<1>7. CASE ServerOnce
  <2>1. UNCHANGED <<queue, size, count, message, got, exists>>
    BY <1>7 DEF ServerOnce, mq, run
  <2>2. CASE setup_ignored_signals("server", "ignore", "block")
    <3>1. /\ UNCHANGED pending
          /\ pc["server"] = "ignore" /\ pc'["server"] = "block"
          /\ pc'["client"] = pc["client"]
          /\ "SIGUSR2" \in handled'["server"]
      BY <1>d, <2>2 DEF setup_ignored_signals, UserSignals, Own
    <3>2. Starting
      BY <3>1, Undisturbances
    <3> QED
      BY <2>1, <3>1, <3>2 DEF Undisturbed, Starting, Rounds
  <2>3. CASE setup_blocked_signals("server", "block", "notify")
    <3>1. /\ UNCHANGED <<pending, handled>>
          /\ pc["server"] = "block" /\ pc'["server"] = "notify"
          /\ pc'["client"] = pc["client"]
      BY <1>d, <2>3 DEF setup_blocked_signals
    <3>2. Starting
      BY <3>1, Undisturbances
    <3> QED
      BY <2>1, <3>1, <3>2 DEF Undisturbed, Starting, Rounds
  <2>4. CASE notify("server", "notify", "send")
    <3>1. Starting /\ pc["server"] = "notify"
      BY <2>4, Undisturbances DEF notify
    <3>2. "SIGUSR2" \in handled["server"]
      BY <3>1 DEF Starting
    <3>3. pc'["server"] = "send"
      BY <2>4, <3>2, ServerSends DEF notify, DiesOf
    <3>4. pc'["client"] \in {pc["client"], "killed"}
      BY <2>4 DEF notify
    <3> QED
      BY <2>1, <3>1, <3>3, <3>4 DEF Undisturbed, Starting, Sending, Early, Listening, Rounds
  <2> QED
    BY <1>7, <2>2, <2>3, <2>4 DEF ServerOnce
<1>8. CASE ClientOnce
  <2>1. UNCHANGED <<queue, size, count, message, got, exists>>
    BY <1>8 DEF ClientOnce, mq, run
  <2>2. CASE setup_ignored_signals("client", "ignore", "block")
    <3>1. /\ UNCHANGED pending
          /\ pc["client"] = "ignore" /\ pc'["client"] = "block"
          /\ pc'["server"] = pc["server"]
          /\ handled'["server"] = handled["server"]
      BY <1>d, <2>2 DEF setup_ignored_signals
    <3> QED
      BY <2>1, <3>1 DEF Undisturbed, Starting, Sending, Asked, InClient, Answered, Over,
                        Early, Listening, Message, Rounds
  <2>3. CASE setup_blocked_signals("client", "block", "wait")
    <3>1. /\ UNCHANGED <<pending, handled>>
          /\ pc["client"] = "block" /\ pc'["client"] = "wait"
          /\ pc'["server"] = pc["server"]
      BY <1>d, <2>3 DEF setup_blocked_signals
    <3> QED
      BY <2>1, <3>1 DEF Undisturbed, Starting, Sending, Asked, InClient, Answered, Over,
                        Early, Listening, Message, Rounds
  <2>4. CASE wait_for_signal("client", "wait", "get")
    <3>1. /\ "SIGUSR2" \in pending["client"]
          /\ pc["client"] = "wait" /\ pc'["client"] = "get"
          /\ pc'["server"] = pc["server"]
      BY <1>d, <2>4 DEF wait_for_signal, Own
    <3>2. Sending \/ Asked
      BY <3>1 DEF Undisturbed, Starting, InClient, Answered, Over
    <3> QED
      BY <2>1, <3>1, <3>2 DEF Undisturbed, Sending, Asked, Early, Listening, Message, Rounds
  <2> QED
    BY <1>8, <2>2, <2>3, <2>4 DEF ClientOnce
<1>9. CASE ClientGetQueue
  <2>1. pc["client"] = "get"
    BY <1>9 DEF ClientGetQueue, ClientThrows
  <2>2. exists
    BY <2>1, Undisturbances DEF Early
  <2>3. /\ UNCHANGED <<queue, size, count, message, got, exists>>
        /\ pc'["client"] = "receive" /\ pc'["server"] = pc["server"]
    BY <1>9, <1>d, <2>2 DEF ClientGetQueue, ClientThrows, mq, run
  <2>4. Sending \/ Asked
    BY <2>1 DEF Undisturbed, Starting, InClient, Answered, Over, Early
  <2> QED
    BY <2>3, <2>4 DEF Undisturbed, Sending, Asked, Early, Listening, Message, Rounds
<1> QED
  BY <1>3, <1>4, <1>5, <1>6, <1>7, <1>8, <1>9

\* The server finds room for its message: nothing is in the queue.
LEMMA ServerSendKeepsRound ==
    ASSUME IInv, Undisturbed, ServerSend
    PROVE  Undisturbed'
<1> USE DEF Processes, Children, Types
<1>1. DOMAIN pc = Processes /\ message \in Nat /\ message < Count
  BY Numbers DEF IInv, Places, ServerSend, Ended
<1>2. Sending
  BY Undisturbances DEF ServerSend
<1>3. queue["server"] = <<>> /\ queue["client"] = <<>> /\ queue = NoMessages
  BY <1>2 DEF Sending, NoMessages
<1>4. Backlog < Room
  BY <1>3, RoomAssumption DEF Backlog
<1>5. /\ pc'["server"] = "receive" /\ pc'["client"] = pc["client"]
      /\ UNCHANGED <<exists, size, count, message, got>>
      /\ queue' = [queue EXCEPT !["server"] = Append(@, Message(message + 1))]
  BY <1>1, <1>4 DEF ServerSend, msgsnd, Message, Goto, run
<1>6. queue'["server"] = <<Message(message + 1)>> /\ queue'["client"] = <<>>
  <2>1. queue'["server"] = Append(<<>>, Message(message + 1))
    BY <1>3, <1>5 DEF NoMessages
  <2> QED
    BY <1>3, <1>5, <2>1, Single DEF NoMessages
<1>7. Message(message + 1)' = Message(message + 1)
  BY <1>5 DEF Message
<1>8. Asked'
  BY <1>2, <1>5, <1>6, <1>7 DEF Sending, Asked, Rounds
<1> QED
  BY <1>8 DEF Undisturbed

\* The client takes the message of its round, which has the size it asks for.
LEMMA ClientReceiveKeepsRound ==
    ASSUME IInv, Tables, Undisturbed, ClientReceive
    PROVE  Undisturbed'
<1> USE DEF Processes, Children, Types
<1>1. DOMAIN pc = Processes /\ DOMAIN got = Children /\ queue \in Queues
  BY DEF IInv, Places, Tables
<1>2. pc["client"] = "receive"
  BY DEF ClientReceive, ClientThrows
<1>3. exists
  BY <1>2, Undisturbances DEF Early
<1>4. /\ msgrcv("client", "server", "send")
      /\ UNCHANGED <<exists, size, count, message>>
  BY <1>3 DEF ClientReceive, ClientThrows
<1>5. queue["server"] # <<>>
  BY <1>4 DEF msgrcv
<1>6. Asked
  BY <1>2, <1>5 DEF Undisturbed, Starting, Sending, InClient, Answered, Over, Early, NoMessages
<1> DEFINE m == Message(message + 1)
<1>7. queue["server"] = <<m>> /\ queue["client"] = <<>>
  BY <1>6 DEF Asked
<1>8. Head(queue["server"]) = m /\ Tail(queue["server"]) = <<>>
  BY <1>7, Single
<1>9. m.size = size /\ m.number = message + 1 /\ size \in Nat
  BY SizesAssumption DEF Message, IInv
<1> HIDE DEF m
<1>10. /\ queue' = [queue EXCEPT !["server"] = Tail(@)]
       /\ pc' = [pc EXCEPT !["client"] = "send"]
       /\ got' = [got EXCEPT !["client"] = message + 1]
  BY <1>4, <1>8, <1>9 DEF msgrcv, Goto
<1>11. queue' = NoMessages
  <2>1. queue'["server"] = <<>> /\ queue'["client"] = <<>> /\ queue' \in [Types -> {<<>>}]
    BY <1>1, <1>7, <1>8, <1>10 DEF Queues
  <2> QED
    BY <2>1 DEF NoMessages
<1>12. /\ pc'["client"] = "send" /\ pc'["server"] = pc["server"]
       /\ got'["client"] = message + 1 /\ got'["server"] = got["server"]
  BY <1>1, <1>10
<1>13. InClient'
  BY <1>4, <1>6, <1>11, <1>12 DEF Asked, InClient, Rounds
<1> QED
  BY <1>13 DEF Undisturbed

\* The answer has the number of the round.
LEMMA ClientSendKeepsRound ==
    ASSUME IInv, Undisturbed, ClientSend
    PROVE  Undisturbed'
<1> USE DEF Processes, Children, Types
<1>1. DOMAIN pc = Processes /\ message \in Nat /\ count \in Nat /\ Count \in Nat
  BY Numbers DEF IInv, Places
<1>2. pc["client"] = "send"
  BY DEF ClientSend, ClientThrows
<1>3. InClient
  BY <1>2, Undisturbances
<1>4. exists /\ count = Count - message /\ queue = NoMessages
  BY <1>3 DEF InClient, Rounds
<1>5. Count - count + 1 = message + 1 /\ count - 1 = Count - (message + 1)
  BY <1>1, <1>4
<1>6. /\ UNCHANGED <<exists, size, message, got>>
      /\ count' = Count - (message + 1)
      /\ queue' = [queue EXCEPT !["client"] = Append(@, Message(message + 1))]
      /\ pc'["server"] = pc["server"]
      /\ pc'["client"] = IF count' > 0 THEN "receive" ELSE "done"
  BY <1>1, <1>4, <1>5 DEF ClientSend, ClientThrows, msgsnd, Message, Goto
<1>7. queue'["client"] = <<Message(message + 1)>> /\ queue'["server"] = <<>>
  <2>1. queue'["client"] = Append(<<>>, Message(message + 1))
    BY <1>4, <1>6 DEF NoMessages
  <2> QED
    BY <1>4, <1>6, <2>1, Single DEF NoMessages
<1>8. Message(message + 1)' = Message(message + 1)
  BY <1>6 DEF Message
<1>9. Answered'
  BY <1>3, <1>6, <1>7, <1>8 DEF InClient, Answered, Rounds
<1> QED
  BY <1>9 DEF Undisturbed

\* The server takes the answer, and has taken Count of them only when the
\* client is done.
LEMMA ServerReceiveKeepsRound ==
    ASSUME IInv, Tables, Undisturbed, ServerReceive
    PROVE  Undisturbed'
<1> USE DEF Processes, Children, Types
<1>1. /\ DOMAIN pc = Processes /\ DOMAIN got = Children /\ queue \in Queues
      /\ message \in Nat /\ Count \in Nat /\ message < Count
  BY Numbers DEF IInv, Places, Tables, ServerReceive, Ended
<1> DEFINE to == IF message + 1 < Count THEN "send" ELSE "cleanup"
<1>2. /\ pc["server"] = "receive" /\ msgrcv("server", "client", to)
      /\ message' = IF pc'["server"] = "failed" THEN message ELSE message + 1
      /\ UNCHANGED <<exists, size, count>>
  BY DEF ServerReceive
<1>3. queue["client"] # <<>>
  BY <1>2 DEF msgrcv
<1>4. Answered
  BY <1>2, <1>3 DEF Undisturbed, Starting, Sending, Asked, InClient, Over, NoMessages
<1> DEFINE m == Message(message + 1)
<1>5. queue["client"] = <<m>> /\ queue["server"] = <<>>
  BY <1>4 DEF Answered
<1>6. Head(queue["client"]) = m /\ Tail(queue["client"]) = <<>>
  BY <1>5, Single
<1>7. m.size = size /\ m.number = message + 1 /\ size \in Nat
  BY SizesAssumption DEF Message, IInv
<1> HIDE DEF m
<1>8. /\ queue' = [queue EXCEPT !["client"] = Tail(@)]
      /\ pc' = [pc EXCEPT !["server"] = to]
      /\ got' = [got EXCEPT !["server"] = message + 1]
  BY <1>2, <1>6, <1>7 DEF msgrcv, Goto
<1>9. queue' = NoMessages
  <2>1. queue'["server"] = <<>> /\ queue'["client"] = <<>> /\ queue' \in [Types -> {<<>>}]
    BY <1>1, <1>5, <1>6, <1>8 DEF Queues
  <2> QED
    BY <2>1 DEF NoMessages
<1>10. /\ pc'["server"] = to /\ pc'["client"] = pc["client"]
       /\ got'["server"] = message + 1
  BY <1>1, <1>8
<1>11. message' = message + 1
  BY <1>2, <1>10
<1>12. CASE message + 1 < Count
  <2>1. pc["client"] = "receive"
    <3>1. count > 0
      BY <1>1, <1>4, <1>12 DEF Answered, Rounds
    <3> QED
      BY <1>4, <3>1 DEF Answered
  <2>2. Sending'
    BY <1>2, <1>4, <1>9, <1>10, <1>11, <1>12, <2>1
       DEF Answered, Sending, Listening, Rounds
  <2> QED
    BY <2>2 DEF Undisturbed
<1>13. CASE ~(message + 1 < Count)
  <2>1. count = 0
    BY <1>1, <1>4, <1>13 DEF Answered, Rounds
  <2>2. pc["client"] = "done"
    BY <1>4, <2>1 DEF Answered, IInv, Ended
  <2>3. Over'
    BY <1>10, <1>11, <1>13, <2>2 DEF Over
  <2> QED
    BY <2>3 DEF Undisturbed
<1> QED
  BY <1>12, <1>13

\* Every step of a first run moves the round on to its next place.
LEMMA NextRInv == ASSUME RInv, [Next]_vars PROVE RInv'
<1>1. IInv /\ Tables /\ IInv' /\ Tables'
  BY NextIInv, NextTables DEF RInv
<1> SUFFICES ASSUME kills' = 0 PROVE Undisturbed'
  BY <1>1 DEF RInv
<1>2. CASE KillAndRestart
  BY <1>1, <1>2 DEF KillAndRestart, IInv
<1>3. CASE ~KillAndRestart
  <2>1. kills = 0
    BY <1>3 DEF Next, Server, Client, vars, run, mq, start_process, ServerGetQueue, ServerOnce,
                ServerSend, ServerReceive, ServerCleanup, ClientOnce, ClientGetQueue,
                ClientReceive, ClientSend, ClientThrows
  <2>2. Undisturbed
    BY <2>1 DEF RInv
  <2>3. CASE ServerCleanup
    <3>1. Over /\ DOMAIN pc = Processes
      BY <1>1, <2>2, <2>3, Undisturbances DEF ServerCleanup, IInv, Places
    <3>2. Over'
      BY <2>3, <3>1 DEF ServerCleanup, Over, Goto, run, Processes, Children
    <3> QED
      BY <3>2 DEF Undisturbed
  <2>4. CASE UNCHANGED vars
    BY <2>2, <2>4 DEF vars, mq, run, signals, Undisturbed, Starting, Sending, Asked, InClient,
                      Answered, Over, Message, Rounds
  <2> QED
    BY <1>1, <1>3, <2>2, <2>3, <2>4, StartKeepsRound, ServerSendKeepsRound,
       ServerReceiveKeepsRound, ClientReceiveKeepsRound, ClientSendKeepsRound
       DEF Next, Server, Client
<1> QED
  BY <1>2, <1>3

\* The first run starts with nothing sent.
LEMMA InitRInv == ASSUME Init PROVE RInv
<1>1. Tables
  BY DEF Init, SignalsInit, Tables
<1>2. Starting
  BY CountAssumption DEF Init, SignalsInit, NewRun, Starting, Early, Rounds, Processes, Children
<1> QED
  BY <1>1, <1>2, InitIInv DEF RInv, Undisturbed

\* On a new queue what a process of mq has received is the other one's message
\* of the same round, for any number of rounds and any message size: msgrcv by
\* type never gives a process its own message back.
THEOREM MessagesRoundTrip == Spec => []RoundTrip
<1>1. RInv => RoundTrip
  <2> SUFFICES ASSUME RInv, kills = 0
               PROVE  /\ pc["client"] = "send" => got["client"] = Count - count + 1
                      /\ pc["server"] \in {"send", "receive", "cleanup", "done"} =>
                            got["server"] = message
    BY DEF RoundTrip
  <2>1. Undisturbed /\ IInv
    BY DEF RInv
  <2>2. ASSUME pc["client"] = "send" PROVE got["client"] = Count - count + 1
    <3>1. got["client"] = message + 1 /\ count = Count - message
      BY <2>1, <2>2, Undisturbances DEF InClient, Rounds
    <3> QED
      BY <2>1, <3>1, Numbers
  <2>3. ASSUME pc["server"] \in {"send", "receive", "cleanup", "done"}
        PROVE  got["server"] = message
    BY <2>1, <2>3 DEF Undisturbed, Starting, Sending, Asked, InClient, Answered, Over, Rounds
  <2> QED
    BY <2>2, <2>3
<1> QED
  BY <1>1, InitRInv, NextRInv, PTL DEF Spec

\* On a new queue no call of mq fails: the client's msgget comes after the
\* server's, the server's msgsnd with IPC_NOWAIT finds room in any queue, every
\* message has the size its receiver asks for, and IPC_RMID waits for the client.
THEOREM FirstRunNeverFails == Spec => []NeverFails
<1>1. RInv => NeverFails
  BY DEF RInv, NeverFails, Undisturbed, Starting, Sending, Asked, InClient, Answered, Over,
         Early, Listening, Children
<1> QED
  BY <1>1, InitRInv, NextRInv, PTL DEF Spec
=============================================================================
