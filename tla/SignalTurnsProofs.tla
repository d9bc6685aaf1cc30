------------------------- MODULE SignalTurnsProofs -------------------------
(***************************************************************************)
(* No signal of pipe and of signal is lost once the server has received    *)
(* its first one, and both benchmarks take turns as PingPong says, for     *)
(* every Count, every message size and every capacity of the pipe.         *)
(***************************************************************************)
EXTENDS SignalTurns, TLAPS

\* What a process blocks and handles at each place.  SIGUSR1 reaches the server
\* only from setup_blocked_signals on.
Masks ==
    /\ DOMAIN pc = Processes /\ DOMAIN handled = Processes
    /\ DOMAIN blocked = Processes /\ DOMAIN pending = Processes
    /\ blocked["launcher"] = {}
    /\ \A p \in Children :
          /\ pc[p] \in {"unborn", "fork", "exec", "ignore", "block"} => blocked[p] = {}
          /\ pc[p] \in {"block", "first", "hello", "write", "read", "notify", "wait"} =>
                Sent(p) \in handled[p]
          /\ pc[p] \in {"first", "hello", "write", "read", "notify", "wait"} =>
                Own(p) \in blocked[p]
          /\ blocked[p] \subseteq {Own(p)}

\* Only a client that is not there yet is forked.
Unforked ==
    /\ pc["launcher"] \in {"setup", "fork server", "fork client"} =>
          pc["client"] = "unborn" /\ pc["server"] # "fork"
    /\ pc["server"] = "fork" => pc["client"] = "unborn"

Pending(ps, pcl) == pending["server"] = ps /\ pending["client"] = pcl

\* The rounds pipe's client has left after n
Left(n) == count = IF bench = "pipe" THEN Count - n ELSE Count

\* A run is in one of these phases.
Early ==
    /\ pc["server"] \in {"unborn", "fork", "exec", "ignore", "block", "first"}
    /\ pc["client"] \in {"unborn", "exec", "ignore", "block", "hello"}
    /\ Pending({}, {}) /\ message = 0 /\ Left(0)
\* The client's first signal came too early: it is gone, or the server is.
Missed ==
    /\ pc["server"] \in {"unborn", "exec", "ignore", "block", "first", "killed"}
    /\ pc["client"] = "wait" /\ Pending({}, {})
Greeted ==
    /\ pc["server"] = "first" /\ pc["client"] = "wait"
    /\ Pending({"SIGUSR1"}, {}) /\ message = 0 /\ Left(0)
ServerTurn ==
    /\ pc["server"] \in {"write", "notify"} /\ pc["client"] = "wait"
    /\ Pending({}, {}) /\ message < Count /\ Left(message)
Asked ==
    /\ pc["server"] = "wait" /\ pc["client"] = "wait"
    /\ Pending({}, {"SIGUSR2"}) /\ message < Count /\ Left(message)
ClientTurn ==
    /\ pc["server"] = "wait" /\ pc["client"] \in {"read", "notify"}
    /\ Pending({}, {}) /\ message < Count /\ Left(message)
Replied ==
    /\ pc["server"] = "wait"
    /\ pc["client"] = IF count > 0 THEN "wait" ELSE "done"
    /\ Pending({"SIGUSR1"}, {}) /\ message < Count /\ Left(message + 1)
Over ==
    /\ pc["server"] = "done" /\ pc["client"] \in {"wait", "done"}
    /\ Pending({}, {})

Phase ==
    Early \/ Missed \/ Greeted \/ ServerTurn \/ Asked \/ ClientTurn \/ Replied \/ Over

IInv == Masks /\ Unforked /\ message \in Nat /\ bench \in {"pipe", "signal"} /\ Phase

\* Which signal is whose
LEMMA Names ==
    /\ Own("server") = "SIGUSR1" /\ Own("client") = "SIGUSR2"
    /\ Sent("server") = "SIGUSR2" /\ Sent("client") = "SIGUSR1"
    /\ Peer("server") = "client" /\ Peer("client") = "server"
<1>1. Own("server") = "SIGUSR1" /\ Own("client") = "SIGUSR2"
  BY DEF Own
<1>2. ASSUME NEW p \in Children PROVE Sent(p) \in UserSignals /\ Sent(p) # Own(p)
  <2>1. \E sig \in UserSignals : sig # Own(p)
    BY DEF UserSignals
  <2> QED
    BY <2>1 DEF Sent
<1>3. ASSUME NEW p \in Children PROVE Peer(p) \in Children /\ Peer(p) # p
  <2>1. \E q \in Children : q # p
    BY DEF Children
  <2> QED
    BY <2>1 DEF Peer
<1> QED
  BY <1>1, <1>2, <1>3 DEF Children, UserSignals

\* notify_client in the server's loop: the signal reaches a client that blocks
\* it, and neither the server itself nor anyone else is hit.
LEMMA ServerNotifies ==
    ASSUME Masks, pc["server"] = "notify", pc["client"] = "wait",
           notify("server", "notify", "wait")
    PROVE  /\ pc'["server"] = "wait" /\ pc'["client"] = "wait"
           /\ pending'["server"] = pending["server"]
           /\ pending'["client"] = pending["client"] \cup {"SIGUSR2"}
           /\ pc'["launcher"] \in {pc["launcher"], "killed"}
           /\ DOMAIN pc' = Processes /\ DOMAIN pending' = Processes
<1> USE DEF Processes, Children
<1>1. /\ "SIGUSR2" \in handled["server"] /\ "SIGUSR2" \in blocked["client"]
      /\ "SIGUSR2" \notin blocked["server"]
  BY Names DEF Masks
<1> QED
  BY <1>1, Names DEF notify, Reached, DiesOf, Exists, Ended

\* notify_server: the client handles the signal itself; the server blocks it,
\* or handles it still, or dies.
LEMMA ClientNotifies ==
    ASSUME Masks, NEW from \in {"hello", "notify"}, NEW to \in {"wait", "done"},
           notify("client", from, to)
    PROVE  /\ pc["client"] = from /\ pc'["client"] = to
           /\ pending'["client"] = pending["client"]
           /\ \/ /\ pc'["server"] = pc["server"] /\ "SIGUSR1" \notin blocked["server"]
                 /\ pending'["server"] = pending["server"]
              \/ /\ pc'["server"] = pc["server"] /\ "SIGUSR1" \in blocked["server"]
                 /\ pc["server"] \notin Ended \cup {"unborn"}
                 /\ pending'["server"] = pending["server"] \cup {"SIGUSR1"}
              \/ /\ pc["server"] \in Ended \cup {"unborn"}
                 /\ pc'["server"] = pc["server"] /\ pending'["server"] = pending["server"]
              \/ /\ pc'["server"] = "killed" /\ "SIGUSR1" \notin blocked["server"]
                 /\ pending'["server"] = pending["server"]
           /\ pc'["launcher"] \in {pc["launcher"], "killed"}
           /\ DOMAIN pc' = Processes /\ DOMAIN pending' = Processes
<1> USE DEF Processes, Children
<1>1. "SIGUSR1" \in handled["client"] /\ "SIGUSR1" \notin blocked["client"]
  BY Names DEF Masks, notify
<1> QED
  BY <1>1, Names DEF notify, Reached, DiesOf, Exists

\* The start of the processes comes before any signal.
LEMMA StartKeeps ==
    ASSUME IInv, Start
    PROVE  IInv'
<1> USE DEF Processes, Children
<1>0. Masks /\ Unforked /\ UNCHANGED <<bench, count, message>>
  BY DEF IInv, Start, args
<1>1. CASE setup_parent \/ waitpid_server \/ waitpid_client
  <2>1. /\ \A p \in Children : /\ pc'[p] = pc[p] /\ blocked'[p] = blocked[p]
                               /\ handled'[p] = handled[p] /\ pending'[p] = pending[p]
        /\ DOMAIN pc' = Processes /\ DOMAIN handled' = Processes
        /\ UNCHANGED <<blocked, pending>>
        /\ pc'["launcher"] \in {"setup", "fork server", "fork client"} =>
              pc["launcher"] \in {"setup", "fork server", "fork client"}
    BY <1>0, <1>1 DEF setup_parent, waitpid_server, waitpid_client, Goto, signals, Masks
  <2>2. Masks' /\ Unforked'
    BY <1>0, <2>1 DEF Masks, Unforked
  <2>3. Phase'
    BY <1>0, <2>1 DEF IInv, Phase, Early, Missed, Greeted, ServerTurn, Asked, ClientTurn,
       Replied, Over, Pending, Left
  <2> QED
    BY <1>0, <2>2, <2>3 DEF IInv
<1>2. CASE start_server \/ start_client
  <2>1. pc["client"] = "unborn" /\ Early
    BY <1>0, <1>2 DEF start_server, start_client, Unforked, IInv, Phase, Missed, Greeted,
       ServerTurn, Asked, ClientTurn, Replied, Over
  <2>2. /\ DOMAIN pc' = Processes /\ DOMAIN handled' = Processes
        /\ DOMAIN blocked' = Processes /\ DOMAIN pending' = Processes
        /\ blocked'["launcher"] = {} /\ blocked["launcher"] = {}
    BY <1>0, <1>2 DEF start_server, start_client, Fork, Masks
  <2>3. \E p \in Children :
          /\ pc'[p] = "exec" /\ blocked'[p] = {} /\ pending'[p] = {}
          /\ \A q \in Children \ {p} : /\ pc'[q] = pc[q] /\ blocked'[q] = blocked[q]
                                       /\ handled'[q] = handled[q] /\ pending'[q] = pending[q]
          /\ p = "server" => pc'["launcher"] = "fork client"
          /\ p = "client" => pc'["launcher"] = "wait server"
    <3>1. CASE start_server
      BY <1>0, <2>2, <3>1 DEF start_server, Fork, Masks
    <3>2. CASE start_client
      BY <1>0, <2>2, <3>2 DEF start_client, Fork, Masks
    <3> QED
      BY <1>2, <3>1, <3>2
  <2>4. Masks'
    BY <1>0, <2>2, <2>3 DEF Masks
  <2>5. Early'
    BY <1>0, <2>1, <2>3 DEF Early, Pending, Left
  <2>6. Unforked'
    <3>1. pc["server"] # "fork"
      BY <1>0, <1>2 DEF start_server, start_client, Unforked
    <3>2. CASE start_server
      BY <1>0, <2>1, <2>2, <3>2 DEF start_server, Fork, Unforked, Masks
    <3>3. CASE start_client
      BY <1>0, <3>1, <3>3 DEF start_client, Fork, Unforked, Masks
    <3> QED
      BY <1>2, <3>2, <3>3
  <2> QED
    BY <1>0, <2>4, <2>5, <2>6 DEF IInv, Phase
<1> QED
  BY <1>1, <1>2 DEF Start, Launcher

\* So do fork() of pipe and the set-up of the masks; after a first signal that
\* came too early the server may still set up and then waits for good.
LEMMA SetupKeeps ==
    ASSUME IInv, communicate \/ Setup("server", "first") \/ Setup("client", "hello")
    PROVE  IInv'
<1> USE DEF Processes, Children
<1>0. /\ Masks /\ Unforked /\ UNCHANGED <<bench, count, message>>
  BY DEF IInv, communicate, Setup, args
<1>1. CASE communicate
  <2>1. pc["server"] = "fork" /\ pc["client"] = "unborn" /\ Early
    BY <1>0, <1>1 DEF communicate, Unforked, IInv, Phase, Missed, Greeted,
       ServerTurn, Asked, ClientTurn, Replied, Over
  <2>2. /\ pc'["server"] = "ignore" /\ pc'["client"] = "ignore"
        /\ pc'["launcher"] = pc["launcher"]
        /\ blocked'["server"] = {} /\ blocked'["client"] = {} /\ blocked'["launcher"] = {}
        /\ pending'["server"] = pending["server"] /\ pending'["client"] = {}
        /\ DOMAIN pc' = Processes /\ DOMAIN handled' = Processes
        /\ DOMAIN blocked' = Processes /\ DOMAIN pending' = Processes
    BY <1>0, <1>1, <2>1 DEF communicate, Fork, Masks
  <2>3. pc["launcher"] \notin {"setup", "fork server", "fork client"}
    BY <1>0, <2>1 DEF Unforked
  <2>4. Masks' /\ Unforked'
    BY <2>2, <2>3 DEF Masks, Unforked
  <2>5. Early'
    BY <1>0, <2>1, <2>2 DEF Early, Pending, Left
  <2> QED
    BY <1>0, <2>4, <2>5 DEF IInv, Phase
<1>2. ASSUME NEW p \in Children, NEW first,
             first = IF p = "server" THEN "first" ELSE "hello", Setup(p, first)
      PROVE  IInv'
  <2>1. /\ DOMAIN pc' = Processes /\ DOMAIN handled' = Processes
        /\ DOMAIN blocked' = Processes /\ UNCHANGED pending
        /\ pc'["launcher"] = pc["launcher"] /\ blocked'["launcher"] = {}
        /\ \A q \in Children \ {p} :
              pc'[q] = pc[q] /\ blocked'[q] = blocked[q] /\ handled'[q] = handled[q]
        /\ \/ pc[p] = "exec" /\ pc'[p] = "ignore" /\ blocked'[p] = {}
           \/ pc[p] = "ignore" /\ pc'[p] = "block" /\ blocked'[p] = {} /\ Sent(p) \in handled'[p]
           \/ /\ pc[p] = "block" /\ pc'[p] = first
              /\ blocked'[p] = {Own(p)} /\ Sent(p) \in handled'[p]
    <3>1. blocked[p] = {} \/ pc[p] \notin {"exec", "ignore", "block"}
      BY <1>0 DEF Masks
    <3>2. CASE start_process(p, "ignore")
      BY <1>0, <3>1, <3>2 DEF start_process, Goto, Masks
    <3>3. CASE setup_ignored_signals(p, "ignore", "block")
      <4>1. Sent(p) \in UserSignals \ {Own(p)}
        BY Names DEF UserSignals
      <4> QED
        BY <1>0, <3>1, <3>3, <4>1 DEF setup_ignored_signals, Goto, Masks
    <3>4. CASE setup_blocked_signals(p, "block", first)
      BY <1>0, <3>1, <3>4 DEF setup_blocked_signals, Goto, Masks
    <3> QED
      BY <1>2, <3>2, <3>3, <3>4 DEF Setup
  <2>2. pc[p] \in {"exec", "ignore", "block"} /\ (Early \/ (Missed /\ p = "server"))
    BY <2>1 DEF IInv, Phase, Early, Missed, Greeted, ServerTurn, Asked, ClientTurn, Replied, Over
  <2>3. Masks'
    BY <1>0, <1>2, <2>1 DEF Masks
  <2>4. Unforked'
    BY <1>0, <1>2, <2>1 DEF Unforked
  <2>5. Early' \/ Missed'
    BY <1>0, <1>2, <2>1, <2>2 DEF Early, Missed, Pending, Left
  <2> QED
    BY <1>0, <2>3, <2>4, <2>5 DEF IInv, Phase
<1> QED
  BY <1>1, <1>2

\* A step of a process in its turn touches its place and the pending signals.
Turning(p) ==
    /\ \A q \in Processes \ {p} : pc'[q] = pc[q]
    /\ DOMAIN pc' = Processes /\ DOMAIN pending' = Processes
    /\ UNCHANGED <<handled, blocked, bench>>

\* The masks of a process that goes on inside its loops stay right.
LEMMA TurningKeeps ==
    ASSUME Masks, Unforked, NEW p \in Children, Turning(p),
           pc[p] \in {"first", "hello", "write", "read", "notify", "wait"},
           pc'[p] \in {"write", "read", "notify", "wait", "done"}
    PROVE  Masks' /\ Unforked'
<1> USE DEF Processes, Children
<1>1. Masks'
  BY DEF Masks, Turning
<1>2. Unforked'
  BY DEF Unforked, Turning
<1> QED
  BY <1>1, <1>2

\* The server's waits take the signal that was meant for them.
LEMMA ServerWaitKeeps ==
    ASSUME IInv, ServerFirstWait \/ ServerWait
    PROVE  IInv'
<1> USE DEF Processes, Children
<1>0. Masks /\ Unforked /\ message \in Nat /\ bench \in {"pipe", "signal"} /\ UNCHANGED <<bench, count>>
  BY DEF IInv, ServerFirstWait, ServerWait, args
<1>1. CASE ServerFirstWait
  <2>1. /\ pc["server"] = "first" /\ "SIGUSR1" \in pending["server"]
        /\ pc'["server"] = Round /\ pc'["client"] = pc["client"]
        /\ pending'["server"] = pending["server"] \ {"SIGUSR1"}
        /\ pending'["client"] = pending["client"]
        /\ UNCHANGED message /\ Turning("server")
    BY <1>0, <1>1, Names DEF ServerFirstWait, wait_for_signal, Goto, Masks, Turning
  <2>2. Greeted
    BY <2>1 DEF IInv, Phase, Early, Missed, ServerTurn, Asked, ClientTurn, Replied, Over, Pending
  <2>3. Round \in {"write", "notify"}
    BY DEF Round
  <2>4. ServerTurn'
    BY <1>0, <2>1, <2>2, <2>3, CountAssumption DEF Greeted, ServerTurn, Pending, Left
  <2>5. Masks' /\ Unforked'
    BY <1>0, <2>1, <2>3, TurningKeeps
  <2> QED
    BY <1>0, <2>1, <2>4, <2>5 DEF IInv, Phase
<1>2. CASE ServerWait
  <2>1. /\ pc["server"] = "wait" /\ "SIGUSR1" \in pending["server"]
        /\ message' = message + 1
        /\ pc'["server"] = IF message + 1 < Count THEN Round ELSE "done"
        /\ pc'["client"] = pc["client"]
        /\ pending'["server"] = pending["server"] \ {"SIGUSR1"}
        /\ pending'["client"] = pending["client"]
        /\ Turning("server")
    BY <1>0, <1>2, Names DEF ServerWait, wait_for_signal, Goto, Masks, Turning
  <2>2. Replied
    BY <2>1 DEF IInv, Phase, Early, Missed, Greeted, ServerTurn, Asked, ClientTurn, Over, Pending
  <2>3. Round \in {"write", "notify"}
    BY DEF Round
  <2>4. CASE message + 1 < Count
    <3>1. count > 0
      BY <1>0, <2>2, <2>4, CountAssumption DEF Replied, Left
    <3>2. ServerTurn'
      BY <1>0, <2>1, <2>2, <2>3, <2>4, <3>1 DEF Replied, ServerTurn, Pending, Left
    <3> QED
      BY <1>0, <2>1, <2>3, <2>4, <3>2, TurningKeeps DEF IInv, Phase
  <2>5. CASE ~(message + 1 < Count)
    <3>1. Over'
      BY <2>1, <2>2, <2>5 DEF Replied, Over, Pending
    <3> QED
      BY <1>0, <2>1, <2>5, <3>1, TurningKeeps DEF IInv, Phase
  <2> QED
    BY <2>4, <2>5
<1> QED
  BY <1>1, <1>2

\* The server writes and signals in its turn.
LEMMA ServerTurnKeeps ==
    ASSUME IInv, ServerWrite \/ ServerNotify
    PROVE  IInv'
<1> USE DEF Processes, Children
<1>0. Masks /\ Unforked /\ UNCHANGED <<bench, count, message>>
  BY DEF IInv, ServerWrite, ServerNotify, args
<1>1. pc["server"] \in {"write", "notify"} /\ ServerTurn
  BY DEF ServerWrite, ServerNotify, notify, IInv, Phase, Early, Missed, Greeted, Asked,
     ClientTurn, Replied, Over
<1>2. CASE ServerWrite
  <2>1. /\ pc'["server"] \in {"write", "notify"} /\ UNCHANGED pending /\ Turning("server")
    BY <1>0, <1>1, <1>2 DEF ServerWrite, Goto, Masks, Turning, signals
  <2>2. ServerTurn'
    BY <1>0, <1>1, <2>1 DEF ServerTurn, Pending, Left, Turning
  <2> QED
    BY <1>0, <1>1, <2>1, <2>2, TurningKeeps DEF IInv, Phase
<1>3. CASE ServerNotify
  <2>1. /\ pc'["server"] = "wait" /\ pc'["client"] = "wait"
        /\ pending'["server"] = pending["server"]
        /\ pending'["client"] = pending["client"] \cup {"SIGUSR2"}
        /\ pc'["launcher"] \in {pc["launcher"], "killed"}
        /\ DOMAIN pc' = Processes /\ DOMAIN pending' = Processes
        /\ UNCHANGED <<handled, blocked>>
    BY <1>0, <1>1, <1>3, ServerNotifies DEF ServerNotify, notify, ServerTurn
  <2>2. Asked'
    BY <1>0, <1>1, <2>1 DEF ServerTurn, Asked, Pending, Left
  <2>3. Masks'
    BY <1>0, <1>1, <2>1 DEF Masks, ServerTurn
  <2>4. Unforked'
    BY <1>0, <1>1, <2>1 DEF Unforked, ServerTurn
  <2> QED
    BY <1>0, <2>2, <2>3, <2>4 DEF IInv, Phase
<1> QED
  BY <1>2, <1>3

\* The client waits and reads in its turn.
LEMMA ClientTurnKeeps ==
    ASSUME IInv, ClientWait \/ ClientRead
    PROVE  IInv'
<1> USE DEF Processes, Children
<1>0. Masks /\ Unforked /\ UNCHANGED <<bench, count, message>>
  BY DEF IInv, ClientWait, ClientRead, args
<1>1. CASE ClientWait
  <2>1. /\ pc["client"] = "wait" /\ "SIGUSR2" \in pending["client"]
        /\ pc'["client"] \in {"read", "notify"} /\ pc'["server"] = pc["server"]
        /\ pending'["client"] = pending["client"] \ {"SIGUSR2"}
        /\ pending'["server"] = pending["server"]
        /\ Turning("client")
    BY <1>0, <1>1, Names DEF ClientWait, wait_for_signal, Goto, Masks, Turning
  <2>2. Asked
    BY <2>1 DEF IInv, Phase, Early, Missed, Greeted, ServerTurn, ClientTurn, Replied, Over, Pending
  <2>3. ClientTurn'
    BY <1>0, <2>1, <2>2 DEF Asked, ClientTurn, Pending, Left
  <2> QED
    BY <1>0, <2>1, <2>3, TurningKeeps DEF IInv, Phase
<1>2. CASE ClientRead
  <2>1. /\ pc["client"] = "read" /\ pc'["client"] = "notify" /\ pc'["server"] = pc["server"]
        /\ UNCHANGED pending /\ Turning("client")
    BY <1>0, <1>2 DEF ClientRead, Goto, Masks, Turning, signals
  <2>2. ClientTurn
    BY <2>1 DEF IInv, Phase, Early, Missed, Greeted, ServerTurn, Asked, Replied, Over
  <2>3. ClientTurn'
    BY <1>0, <2>1, <2>2 DEF ClientTurn, Pending, Left
  <2> QED
    BY <1>0, <2>1, <2>3, TurningKeeps DEF IInv, Phase
<1> QED
  BY <1>1, <1>2

\* The client's first signal meets a server that waits for it, or is missed.
LEMMA ClientHelloKeeps ==
    ASSUME IInv, ClientHello
    PROVE  IInv'
<1> USE DEF Processes, Children
<1>0. Masks /\ Unforked /\ UNCHANGED <<bench, count, message, handled, blocked>>
  BY DEF IInv, ClientHello, notify, args
<1>1. pc["client"] = "hello" /\ Early
  BY DEF ClientHello, notify, IInv, Phase, Missed, Greeted, ServerTurn, Asked, ClientTurn,
     Replied, Over
<1>2. /\ pc'["client"] = "wait" /\ pending'["client"] = pending["client"]
      /\ pc'["launcher"] \in {pc["launcher"], "killed"}
      /\ DOMAIN pc' = Processes /\ DOMAIN pending' = Processes
      /\ \/ /\ pc'["server"] = pc["server"] /\ "SIGUSR1" \in blocked["server"]
            /\ pending'["server"] = pending["server"] \cup {"SIGUSR1"}
         \/ /\ pc'["server"] \in {pc["server"], "killed"}
            /\ pending'["server"] = pending["server"]
  BY <1>0, ClientNotifies DEF ClientHello
<1>3. pc["server"] # "fork"
  BY <1>0, <1>1 DEF Unforked
<1>4. "SIGUSR1" \in blocked["server"] => pc["server"] = "first"
  BY <1>0, <1>1 DEF Masks, Early
<1>5. Masks'
  BY <1>0, <1>1, <1>2 DEF Masks
<1>6. Unforked'
  BY <1>0, <1>1, <1>2, <1>3 DEF Unforked
<1>7. Greeted' \/ Missed'
  BY <1>0, <1>1, <1>2, <1>3, <1>4 DEF Early, Greeted, Missed, Pending, Left
<1> QED
  BY <1>0, <1>5, <1>6, <1>7 DEF IInv, Phase

\* Its later ones meet a server that waits.
LEMMA ClientNotifyKeeps ==
    ASSUME IInv, ClientNotify
    PROVE  IInv'
<1> USE DEF Processes, Children
<1>0. /\ Masks /\ Unforked /\ UNCHANGED <<bench, message, handled, blocked>>
      /\ message \in Nat /\ bench \in {"pipe", "signal"}
  BY DEF IInv, ClientNotify, notify, args
<1>1. pc["client"] = "notify" /\ ClientTurn
  BY DEF ClientNotify, notify, IInv, Phase, Early, Missed, Greeted, ServerTurn, Asked, Replied, Over
<1>2. "SIGUSR1" \in blocked["server"] /\ pc["server"] = "wait"
  BY <1>0, <1>1, Names DEF Masks, ClientTurn
<1>3. /\ count' = IF bench = "pipe" THEN count - 1 ELSE count
      /\ notify("client", "notify", IF count' > 0 THEN "wait" ELSE "done")
  BY DEF ClientNotify
<1>4. /\ pc'["client"] = IF count' > 0 THEN "wait" ELSE "done"
      /\ pending'["client"] = pending["client"]
      /\ pc'["launcher"] \in {pc["launcher"], "killed"}
      /\ DOMAIN pc' = Processes /\ DOMAIN pending' = Processes
      /\ pc'["server"] = pc["server"]
      /\ pending'["server"] = pending["server"] \cup {"SIGUSR1"}
  BY <1>0, <1>2, <1>3, ClientNotifies DEF Ended
<1>5. Left(message + 1)'
  BY <1>0, <1>1, <1>3, CountAssumption DEF ClientTurn, Left
<1>6. Masks'
  BY <1>0, <1>1, <1>4 DEF Masks
<1>7. Unforked'
  BY <1>0, <1>1, <1>2, <1>4 DEF Unforked
<1>8. Replied'
  BY <1>0, <1>1, <1>2, <1>4, <1>5 DEF ClientTurn, Replied, Pending, Left
<1> QED
  BY <1>0, <1>6, <1>7, <1>8 DEF IInv, Phase

\* Every step keeps the phases.
LEMMA NextIInv == IInv /\ [Next]_vars => IInv'
<1> SUFFICES ASSUME IInv, [Next]_vars PROVE IInv'
  OBVIOUS
<1>1. CASE UNCHANGED vars
  BY <1>1 DEF vars, signals, args, IInv, Masks, Unforked, Phase, Early, Missed, Greeted,
     ServerTurn, Asked, ClientTurn, Replied, Over, Pending, Left
<1> QED
  BY <1>1, StartKeeps, SetupKeeps, ServerWaitKeeps, ServerTurnKeeps, ClientTurnKeeps,
     ClientHelloKeeps, ClientNotifyKeeps DEF Next, Server, Client

\* A run begins before any signal.
LEMMA InitIInv == Init => IInv
<1> SUFFICES ASSUME Init PROVE IInv
  OBVIOUS
<1>1. /\ bench \in {"pipe", "signal"} /\ message = 0 /\ count = Count
      /\ handled = [p \in Processes |-> {}] /\ blocked = [p \in Processes |-> {}]
      /\ pending = [p \in Processes |-> {}]
  BY DEF Init, SignalsInit
<1>2. /\ DOMAIN pc = Processes /\ pc["client"] = "unborn"
      /\ \/ pc["server"] = "fork" /\ pc["launcher"] = "unborn"
         \/ pc["server"] = "unborn" /\ pc["launcher"] = "setup"
  BY DEF Init, Processes, Children
<1>3. Masks
  BY <1>1, <1>2 DEF Masks, Processes, Children
<1>4. Unforked
  BY <1>2 DEF Unforked
<1>5. Early
  BY <1>1, <1>2, CountAssumption DEF Early, Pending, Left, Processes, Children
<1> QED
  BY <1>1, <1>3, <1>4, <1>5 DEF IInv, Phase

\* From the server's first signal on, every signal of pipe and of signal finds
\* its receiver with the signal blocked and none pending: it neither kills nor
\* merges with another, for any number of rounds, message size and pipe.
THEOREM SignalsAlwaysCount == Spec => EverySignalCounts
<1>1. ASSUME IInv, NEW p \in Children, pc[p] = "notify"
      PROVE  Exists(Peer(p)) /\ Sent(p) \in blocked[Peer(p)] \ pending[Peer(p)]
  <2>1. CASE p = "server"
    <3>1. ServerTurn
      BY <1>1, <2>1 DEF IInv, Phase, Early, Missed, Greeted, Asked, ClientTurn, Replied, Over
    <3> QED
      BY <1>1, <2>1, <3>1, Names DEF ServerTurn, Pending, IInv, Masks, Children, Exists, Ended
  <2>2. CASE p = "client"
    <3>1. ClientTurn
      BY <1>1, <2>2 DEF IInv, Phase, Early, Missed, Greeted, ServerTurn, Asked, Replied, Over
    <3> QED
      BY <1>1, <2>2, <3>1, Names DEF ClientTurn, Pending, IInv, Masks, Children, Exists, Ended
  <2> QED
    BY <2>1, <2>2 DEF Children
<1>2. IInv /\ [Next]_vars =>
        [\A p \in Children :
           pc[p] = "notify" /\ pc'[p] # "notify" =>
               /\ Exists(Peer(p))
               /\ Sent(p) \in blocked[Peer(p)] \ pending[Peer(p)]]_vars
  BY <1>1
<1> QED
  BY <1>2, InitIInv, NextIInv, PTL DEF Spec, EverySignalCounts

\* A step that counts no round, and changes neither whether the server waits for
\* an answer nor the answer it waits for, is none of PingPong.
LEMMA NoTurn ==
    ASSUME UNCHANGED <<bench, count, message>>,
           \/ pc["server"] # "wait" /\ pc'["server"] # "wait"
           \/ pc'["server"] = pc["server"] /\ pending'["server"] = pending["server"]
    PROVE  UNCHANGED Turns!vars
<1>1. pings' = pings
  BY DEF pings
<1>2. pongs' = pongs
  BY DEF pongs
<1> QED
  BY <1>1, <1>2 DEF Turns!vars

\* Every step is a signal of the server, the client's answer to it, or counts no
\* round.
LEMMA TurnStep ==
    ASSUME IInv, [Next]_vars
    PROVE  [Turns!Next]_(Turns!vars)
<1> USE DEF Processes, Children
<1>0. /\ Masks /\ Unforked /\ message \in Nat /\ bench \in {"pipe", "signal"} /\ Phase
      /\ Count \in Nat \ {0}
  BY CountAssumption DEF IInv
<1>1. CASE UNCHANGED vars
  BY <1>1, NoTurn DEF vars, signals, args
<1>2. CASE Start
  <2>1. UNCHANGED <<bench, count, message>>
    BY <1>2 DEF Start, args
  <2>2. CASE setup_parent \/ waitpid_server \/ waitpid_client
    <3>1. pc'["server"] = pc["server"] /\ UNCHANGED pending
      BY <1>0, <2>2 DEF setup_parent, waitpid_server, waitpid_client, Goto, signals, Masks
    <3> QED
      BY <2>1, <3>1, NoTurn
  <2>3. CASE start_server \/ start_client
    <3>1. pc["client"] = "unborn"
      BY <1>0, <2>3 DEF start_server, start_client, Unforked
    <3>2. pc["server"] # "wait"
      BY <1>0, <3>1 DEF Phase, Early, Missed, Greeted, ServerTurn, Asked, ClientTurn, Replied, Over
    <3>3. pc'["server"] # "wait"
      BY <1>0, <2>3, <3>2 DEF start_server, start_client, Fork, Masks
    <3> QED
      BY <2>1, <3>2, <3>3, NoTurn
  <2> QED
    BY <1>2, <2>2, <2>3 DEF Start, Launcher
<1>3. CASE communicate \/ Setup("server", "first")
  <2>1. UNCHANGED <<bench, count, message>>
    BY <1>3 DEF communicate, Setup, args
  <2>2. pc["server"] # "wait" /\ pc'["server"] # "wait"
    BY <1>0, <1>3 DEF communicate, Setup, Fork, start_process, setup_ignored_signals,
       setup_blocked_signals, Goto, Masks
  <2> QED
    BY <2>1, <2>2, NoTurn
<1>4. CASE Setup("client", "hello") \/ ClientWait \/ ClientRead
  <2>1. UNCHANGED <<bench, count, message>>
    BY <1>4 DEF Setup, ClientWait, ClientRead, args
  <2>2. pc'["server"] = pc["server"] /\ pending'["server"] = pending["server"]
    BY <1>0, <1>4 DEF Setup, start_process, setup_ignored_signals, setup_blocked_signals,
       ClientWait, ClientRead, wait_for_signal, Goto, Masks, signals
  <2> QED
    BY <2>1, <2>2, NoTurn
<1>5. CASE ServerFirstWait \/ ServerWrite
  <2>1. UNCHANGED <<bench, count, message>>
    BY <1>5 DEF ServerFirstWait, ServerWrite, args
  <2>2. pc["server"] # "wait" /\ pc'["server"] # "wait"
    BY <1>0, <1>5 DEF ServerFirstWait, ServerWrite, wait_for_signal, Goto, Masks, Round
  <2> QED
    BY <2>1, <2>2, NoTurn
<1>6. CASE ServerNotify
  <2>1. ServerTurn /\ pc["server"] = "notify" /\ UNCHANGED <<bench, count, message>>
    BY <1>0, <1>6 DEF ServerNotify, notify, args, Phase, Early, Missed, Greeted, Asked,
       ClientTurn, Replied, Over
  <2>2. pc'["server"] = "wait" /\ pending'["server"] = {}
    BY <1>0, <1>6, <2>1, ServerNotifies DEF ServerNotify, ServerTurn, Pending
  <2>3. pings = message /\ pings' = message + 1
    BY <1>0, <2>1, <2>2 DEF pings
  <2>4. pongs = message /\ pongs' = message
    BY <1>0, <2>1, <2>2 DEF pongs, ServerTurn, Left
  <2>5. message < Count
    BY <2>1 DEF ServerTurn
  <2> QED
    BY <1>0, <2>3, <2>4, <2>5 DEF Turns!Next, Turns!Ping
<1>7. CASE ServerWait
  <2>1. /\ pc["server"] = "wait" /\ "SIGUSR1" \in pending["server"]
        /\ message' = message + 1 /\ pc'["server"] # "wait"
        /\ UNCHANGED <<bench, count>>
    BY <1>0, <1>7, Names DEF ServerWait, wait_for_signal, Goto, Masks, Round, args
  <2>2. pings' = pings
    BY <1>0, <2>1 DEF pings
  <2>3. pongs' = pongs
    BY <1>0, <2>1, Names DEF pongs
  <2> QED
    BY <2>2, <2>3 DEF Turns!vars
<1>8. CASE ClientHello
  <2>1. pc["client"] = "hello" /\ UNCHANGED <<bench, count, message>>
    BY <1>8 DEF ClientHello, notify, args
  <2>2. pc["server"] # "wait"
    BY <1>0, <2>1 DEF Phase, Early, Missed, Greeted, ServerTurn, Asked, ClientTurn, Replied, Over
  <2>3. pc'["server"] \in {pc["server"], "killed"}
    BY <1>0, <1>8, ClientNotifies DEF ClientHello
  <2> QED
    BY <2>1, <2>2, <2>3, NoTurn
<1>9. CASE ClientNotify
  <2>1. /\ ClientTurn /\ UNCHANGED <<bench, message>>
        /\ count' = IF bench = "pipe" THEN count - 1 ELSE count
        /\ notify("client", "notify", IF count' > 0 THEN "wait" ELSE "done")
    BY <1>0, <1>9 DEF ClientNotify, notify, args, Phase, Early, Missed, Greeted, ServerTurn,
       Asked, Replied, Over
  <2>2. "SIGUSR1" \in blocked["server"] /\ pc["server"] = "wait" /\ pending["server"] = {}
    BY <1>0, <2>1, Names DEF Masks, ClientTurn, Pending
  <2>3. pc'["server"] = "wait" /\ "SIGUSR1" \in pending'["server"]
    BY <1>0, <2>1, <2>2, ClientNotifies DEF Ended
  <2>4. pings = message + 1 /\ pings' = message + 1
    BY <1>0, <2>1, <2>2, <2>3 DEF pings
  <2>5. pongs = message /\ pongs' = message + 1
    BY <1>0, <2>1, <2>2, <2>3, Names DEF pongs, ClientTurn, Left
  <2> QED
    BY <1>0, <2>4, <2>5 DEF Turns!Next, Turns!Pong
<1> QED
  BY <1>1, <1>2, <1>3, <1>4, <1>5, <1>6, <1>7, <1>8, <1>9 DEF Next, Server, Client

\* pipe and signal implement PingPong: server and client signal each other in
\* turn, at most Count times, and pipe's two counters of rounds never drift
\* apart.
THEOREM SignalsTakeTurns == Spec => TakeTurns
<1>1. Init => Turns!Init
  <2> SUFFICES ASSUME Init PROVE Turns!Init
    OBVIOUS
  <2>1. message = 0 /\ count = Count /\ pc["server"] # "wait"
    BY DEF Init
  <2>2. pings = 0 /\ pongs = 0
    BY <2>1, CountAssumption DEF pings, pongs
  <2> QED
    BY <2>2 DEF Turns!Init
<1> QED
  BY <1>1, InitIInv, NextIInv, TurnStep, PTL DEF Spec, TakeTurns, Turns!Spec
=============================================================================
