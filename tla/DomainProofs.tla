---------------------------- MODULE DomainProofs ----------------------------
(***************************************************************************)
(* Theorems about Domain, for every request size, rate and count, every    *)
(* capacity of the socket and every set of interrupted processes.          *)
(***************************************************************************)
EXTENDS MCDomain, TLAPS

\* The counters of FlowControl.
Sent == total["client"] + outstandingBytes["client"] + InWrite("client")
Accepted == total["server"] + outstandingBytes["server"] + InRead("server")
Echoed == total["server"] + InWrite("server")
Received == total["client"] + InRead("client")

Labels == Starting \cup Running \cup Ended

\* The counters are natural numbers: no subtraction of communicate wraps.
Numbers ==
    /\ pc \in [Procs -> Labels]
    /\ queue \in [Procs -> Nat]
    /\ moved \in [Procs -> Nat]
    /\ outstandingBytes \in [Procs -> Nat]
    /\ total \in [Procs -> Nat]

\* A call in progress has not moved more than it was asked to move, and
\* nothing counts as moved outside the calls.
CallsBounded ==
    /\ \A p \in Procs :
          pc[p] \notin {"reading", "account", "writing", "wrote"} => moved[p] = 0
    /\ pc["client"] = "reading" => moved["client"] < outstandingBytes["client"]
    /\ pc["client"] = "account" => moved["client"] <= outstandingBytes["client"]
    /\ pc["client"] = "writing" => moved["client"] < ClientFill
    /\ pc["client"] = "wrote" => moved["client"] <= ClientFill
    /\ pc["server"] = "reading" => moved["server"] < toRead
    /\ pc["server"] = "writing" => moved["server"] < outstandingBytes["server"]
    /\ pc["server"] = "wrote" => moved["server"] <= outstandingBytes["server"]
    /\ outstandingBytes["client"] <= Window

\* What was sent and not taken is in a receive queue.  WindowConserved adds
\* the two equations up, which hides which queue a byte is in.
QueuesAgree ==
    /\ queue["server"] = Sent - Accepted
    /\ queue["client"] = Echoed - Received

IInv == Numbers /\ CallsBounded /\ QueuesAgree

\* malloc(bufferSize) asks for a positive number of bytes.
LEMMA WindowType == Window \in Nat \ {0}
BY ArgumentsAssumption DEF Window

\* The counters of FlowControl are numbers too.
LEMMA CountersType ==
    ASSUME Numbers
    PROVE  Sent \in Nat /\ Accepted \in Nat /\ Echoed \in Nat /\ Received \in Nat
BY DEF Numbers, Sent, Accepted, Echoed, Received, InRead, InWrite, Procs

\* A step that moves s, a, e or r bytes from one counter of FlowControl to the
\* next, and no other byte, implements FlowControl.
LEMMA FlowStep ==
    ASSUME IInv, Numbers', CallsBounded',
           NEW s \in Nat, NEW a \in Nat, NEW e \in Nat, NEW r \in Nat,
           \/ a = 0 /\ e = 0 /\ r = 0
           \/ s = 0 /\ e = 0 /\ r = 0
           \/ s = 0 /\ a = 0 /\ r = 0
           \/ s = 0 /\ a = 0 /\ e = 0,
           e <= Accepted - Echoed,
           Sent' = Sent + s, Accepted' = Accepted + a,
           Echoed' = Echoed + e, Received' = Received + r,
           queue'["server"] = queue["server"] + s - a,
           queue'["client"] = queue["client"] + e - r
    PROVE  IInv' /\ [Flow!Next]_(Flow!vars)
<1>1. /\ Sent \in Nat /\ Accepted \in Nat /\ Echoed \in Nat /\ Received \in Nat
      /\ Sent' <= Received' + Window
      /\ queue["server"] \in Nat /\ queue["client"] \in Nat
      /\ queue'["server"] \in Nat /\ queue'["client"] \in Nat
  <2>1. Sent' <= Received' + Window
    BY WindowType DEF Numbers, CallsBounded, Sent, Received, InRead, InWrite,
                      ClientFill, Procs
  <2> QED
    BY <2>1, CountersType DEF IInv, Numbers, Procs
<1>2. QueuesAgree'
  BY <1>1 DEF IInv, QueuesAgree
<1>3. /\ Flow!Send <=> /\ Sent' \in (Sent + 1)..(Received + Window)
                       /\ UNCHANGED <<Accepted, Echoed, Received>>
      /\ Flow!Accept <=> /\ Accepted' \in (Accepted + 1)..Sent
                         /\ UNCHANGED <<Sent, Echoed, Received>>
      /\ Flow!Echo <=> /\ Echoed' \in (Echoed + 1)..Accepted
                       /\ UNCHANGED <<Sent, Accepted, Received>>
      /\ Flow!Receive <=> /\ Received' \in (Received + 1)..Echoed
                          /\ UNCHANGED <<Sent, Accepted, Echoed>>
      /\ UNCHANGED Flow!vars <=> UNCHANGED <<Sent, Accepted, Echoed, Received>>
  BY DEF Flow!Send, Flow!Accept, Flow!Echo, Flow!Receive, Flow!vars,
         Sent, Accepted, Echoed, Received
<1>4. [Flow!Next]_(Flow!vars)
  <2> USE WindowType, <1>1, <1>3
  <2>1. CASE s = 0 /\ a = 0 /\ e = 0 /\ r = 0
    BY <2>1
  <2>2. CASE s > 0
    BY <2>2 DEF Flow!Next
  <2>3. CASE a > 0
    BY <2>3 DEF Flow!Next, IInv, QueuesAgree
  <2>4. CASE e > 0
    BY <2>4 DEF Flow!Next
  <2>5. CASE r > 0
    BY <2>5 DEF Flow!Next, IInv, QueuesAgree
  <2> QED
    BY <2>1, <2>2, <2>3, <2>4, <2>5
<1> QED
  BY <1>2, <1>4 DEF IInv

\* A step that moves no byte and ends no call.
Quiet ==
    /\ UNCHANGED <<queue, moved, outstandingBytes, total>>
    /\ \A p \in Procs : InRead(p)' = InRead(p) /\ InWrite(p)' = InWrite(p)

\* Such a step keeps the invariant.
LEMMA QuietStep ==
    ASSUME IInv, Numbers', CallsBounded', Quiet
    PROVE  IInv' /\ [Flow!Next]_(Flow!vars)
<1>1. /\ Sent' = Sent + 0 /\ Accepted' = Accepted + 0
      /\ Echoed' = Echoed + 0 /\ Received' = Received + 0
  BY CountersType DEF Quiet, Sent, Accepted, Echoed, Received, Procs, IInv, Numbers,
     InRead, InWrite
<1>2. /\ queue'["server"] = queue["server"] + 0 - 0
      /\ queue'["client"] = queue["client"] + 0 - 0
  BY DEF Quiet, IInv, Numbers, Procs
<1>3. 0 <= Accepted - Echoed
  BY DEF IInv, Numbers, CallsBounded, Accepted, Echoed, InRead, InWrite, Procs
<1> QED
  BY <1>1, <1>2, <1>3, FlowStep

\* Start-up, polling, the decision to read, closing and signals move no byte.
LEMMA QuietSteps ==
    ASSUME IInv,
           \/ ServerListen \/ ServerAnnounce \/ ServerAccept
           \/ ClientOpen \/ ClientHello \/ ClientConnect
           \/ ClientTryRead \/ ServerTryRead
           \/ ClientEvaluate \/ ServerEvaluate
           \/ \E p \in Procs : \/ Poll(p) \/ Killed(p) \/ quit_signal_handler(p)
                              \/ SleepInterrupted(p)
    PROVE  Numbers' /\ CallsBounded' /\ Quiet
<1>1. UNCHANGED <<queue, moved, outstandingBytes, total>>
  BY DEF ServerListen, ServerAnnounce, ServerAccept, ClientOpen, ClientHello,
         ClientConnect, ClientTryRead, ServerTryRead, TryRead, ClientEvaluate,
         ServerEvaluate, Poll, Killed, quit_signal_handler, SleepInterrupted,
         window, kernel
<1>2. \/ \E p \in Procs, l \in Labels \ {"reading", "account", "writing", "wrote"} :
           /\ pc[p] \notin {"reading", "account", "writing", "wrote"}
           /\ pc' = [pc EXCEPT ![p] = l]
      \/ \E p \in Procs : pc[p] = "reading" /\ pc' = [pc EXCEPT ![p] = "account"]
      \/ \E p \in Procs : pc[p] = "writing" /\ pc' = [pc EXCEPT ![p] = "wrote"]
      \/ \E p \in Procs : pc[p] = "read" /\ pc' = [pc EXCEPT ![p] = "account"]
      \/ /\ pc["client"] = "read" /\ pc' = [pc EXCEPT !["client"] = "reading"]
         /\ outstandingBytes["client"] > 0
      \/ /\ pc["server"] = "read" /\ pc' = [pc EXCEPT !["server"] = "reading"]
         /\ toRead > 0
      \/ UNCHANGED pc
  <2> USE DEF Goto, Procs, Labels, Starting, Running, Ended
  <2>1. CASE \/ ServerListen \/ ServerAnnounce \/ ServerAccept
             \/ ClientOpen \/ ClientHello
    BY <2>1 DEF ServerListen, ServerAnnounce, ServerAccept, ClientOpen, ClientHello
  <2>2. CASE ClientConnect
    BY <2>2 DEF ClientConnect
  <2>3. CASE ClientTryRead \/ ServerTryRead
    BY <2>3 DEF ClientTryRead, ServerTryRead, TryRead
  <2>4. CASE ClientEvaluate \/ ServerEvaluate
    BY <2>4 DEF ClientEvaluate, ServerEvaluate
  <2>5. CASE \E p \in Procs : Poll(p)
    BY <2>5 DEF Poll
  <2>6. CASE \E p \in Procs : Killed(p) \/ quit_signal_handler(p)
    BY <2>6 DEF Killed, quit_signal_handler
  <2>7. CASE \E p \in Procs : SleepInterrupted(p)
    BY <2>7 DEF SleepInterrupted
  <2> QED
    BY <2>1, <2>2, <2>3, <2>4, <2>5, <2>6, <2>7
<1>3. Numbers'
  BY <1>1, <1>2 DEF IInv, Numbers, Labels, Starting, Running, Ended, Procs
<1>4. CallsBounded'
  BY <1>1, <1>2, WindowType DEF IInv, Numbers, CallsBounded, ClientFill, toRead, Procs
<1>5. Quiet
  BY <1>1, <1>2 DEF IInv, Numbers, CallsBounded, Quiet, InRead, InWrite, Procs
<1> QED
  BY <1>3, <1>4, <1>5

\* What one recv() of read_from_socket does.
LEMMA ReadEffect ==
    ASSUME Numbers, NEW p \in Procs, NEW n \in Nat, read_from_socket(p, n),
           pc[p] = "reading" => moved[p] < n
    PROVE  \E k \in 0..queue[p] :
             /\ moved[p] + k <= n
             /\ queue' = [queue EXCEPT ![p] = queue[p] - k]
             /\ moved' = [moved EXCEPT ![p] = moved[p] + k]
             /\ pc[p] = "reading"
             /\ \/ pc' = pc /\ moved[p] + k < n
                \/ pc' = [pc EXCEPT ![p] = "account"]
             /\ UNCHANGED <<outstandingBytes, total>>
<1> DEFINE k == Least(queue[p], Least(Size, n - moved[p]))
<1>1. /\ queue' = [queue EXCEPT ![p] = queue[p] - k]
      /\ moved' = [moved EXCEPT ![p] = moved[p] + k]
      /\ pc[p] = "reading"
      /\ \/ pc' = pc /\ moved[p] + k < n
         \/ pc' = [pc EXCEPT ![p] = "account"]
      /\ UNCHANGED <<outstandingBytes, total>>
  BY DEF read_from_socket, Goto
<1>2. k \in 0..queue[p] /\ moved[p] + k <= n
  BY <1>1, ArgumentsAssumption DEF Numbers, Least
<1> QED
  BY <1>1, <1>2

\* What one piece of a send() of write_to_socket does.
LEMMA WriteEffect ==
    ASSUME Numbers, NEW p \in Procs, NEW n \in Nat, write_to_socket(p, n),
           pc[p] = "writing" => moved[p] < n
    PROVE  \E k \in Nat :
             /\ moved[p] + k <= n
             /\ queue' = [queue EXCEPT ![Other(p)] = queue[Other(p)] + k]
             /\ moved' = [moved EXCEPT ![p] = moved[p] + k]
             /\ pc[p] = "writing"
             /\ \/ pc' = pc /\ moved[p] + k < n
                \/ pc' = [pc EXCEPT ![p] = "wrote"]
             /\ UNCHANGED <<outstandingBytes, total>>
<1>1. CASE Other(p) \notin closed
  <2>1. PICK k \in 1..Least(Capacity - queue[Other(p)], Least(Size, n - moved[p])) :
          /\ queue' = [queue EXCEPT ![Other(p)] = queue[Other(p)] + k]
          /\ moved' = [moved EXCEPT ![p] = moved[p] + k]
          /\ IF moved[p] + k < n THEN UNCHANGED pc ELSE Goto(p, "wrote")
    BY <1>1 DEF write_to_socket
  <2>2. Other(p) \in Procs
    BY DEF Other, Procs
  <2>3. k \in Nat /\ moved[p] + k <= n
    BY <2>1, <2>2, ArgumentsAssumption, KernelAssumption DEF Numbers, Least
  <2> QED
    BY <2>1, <2>3 DEF write_to_socket, Goto
<1>2. CASE Other(p) \in closed
  <2>1. UNCHANGED <<queue, moved, outstandingBytes, total>> /\ pc[p] = "writing"
        /\ pc' = [pc EXCEPT ![p] = "wrote"]
    BY <1>2 DEF write_to_socket, Goto
  <2>2. /\ queue' = [queue EXCEPT ![Other(p)] = queue[Other(p)] + 0]
        /\ moved' = [moved EXCEPT ![p] = moved[p] + 0]
    BY <2>1 DEF Numbers, Other, Procs
  <2>3. moved[p] + 0 <= n
    BY <2>1 DEF Numbers
  <2> QED
    BY <2>1, <2>2, <2>3
<1> QED
  BY <1>1, <1>2

\* recv() of the client is Receive.
LEMMA ClientReadStep ==
    ASSUME IInv, ClientRead
    PROVE  IInv' /\ [Flow!Next]_(Flow!vars)
<1>1. PICK k \in 0..queue["client"] :
         /\ moved["client"] + k <= outstandingBytes["client"]
         /\ queue' = [queue EXCEPT !["client"] = queue["client"] - k]
         /\ moved' = [moved EXCEPT !["client"] = moved["client"] + k]
         /\ pc["client"] = "reading"
         /\ \/ pc' = pc /\ moved["client"] + k < outstandingBytes["client"]
            \/ pc' = [pc EXCEPT !["client"] = "account"]
         /\ UNCHANGED <<outstandingBytes, total>>
  <2>1. outstandingBytes["client"] \in Nat
    BY DEF IInv, Numbers, Procs
  <2> QED
    BY <2>1, ReadEffect DEF ClientRead, IInv, CallsBounded, Procs
<1>2. Numbers'
  BY <1>1 DEF IInv, Numbers, Procs, Labels, Running
<1>3. CallsBounded'
  BY <1>1 DEF IInv, Numbers, CallsBounded, ClientFill, toRead, Procs
<1>4. /\ Sent' = Sent + 0 /\ Accepted' = Accepted + 0
      /\ Echoed' = Echoed + 0 /\ Received' = Received + k
  BY <1>1 DEF IInv, Numbers, Sent, Accepted, Echoed, Received, InRead, InWrite, Procs
<1>5. /\ queue'["server"] = queue["server"] + 0 - 0
      /\ queue'["client"] = queue["client"] + 0 - k
      /\ k \in Nat
  BY <1>1 DEF IInv, Numbers, Procs
<1>6. 0 <= Accepted - Echoed
  BY DEF IInv, Numbers, CallsBounded, Accepted, Echoed, InRead, InWrite, Procs
<1> QED
  BY <1>2, <1>3, <1>4, <1>5, <1>6, FlowStep

\* recv() of the server is Accept.
LEMMA ServerReadStep ==
    ASSUME IInv, ServerRead
    PROVE  IInv' /\ [Flow!Next]_(Flow!vars)
<1>1. PICK k \in 0..queue["server"] :
         /\ moved["server"] + k <= toRead
         /\ queue' = [queue EXCEPT !["server"] = queue["server"] - k]
         /\ moved' = [moved EXCEPT !["server"] = moved["server"] + k]
         /\ pc["server"] = "reading"
         /\ \/ pc' = pc /\ moved["server"] + k < toRead
            \/ pc' = [pc EXCEPT !["server"] = "account"]
         /\ UNCHANGED <<outstandingBytes, total>>
  <2>1. toRead \in Nat
    BY WindowType DEF IInv, Numbers, CallsBounded, Procs, toRead, ClientFill
  <2> QED
    BY <2>1, ReadEffect DEF ServerRead, IInv, CallsBounded, Procs, Other
<1>2. Numbers'
  BY <1>1 DEF IInv, Numbers, Procs, Labels, Running
<1>3. CallsBounded'
  BY <1>1, WindowType DEF IInv, Numbers, CallsBounded, ClientFill, toRead, Procs
<1>4. /\ Sent' = Sent + 0 /\ Accepted' = Accepted + k
      /\ Echoed' = Echoed + 0 /\ Received' = Received + 0
  BY <1>1 DEF IInv, Numbers, Sent, Accepted, Echoed, Received, InRead, InWrite, Procs
<1>5. /\ queue'["server"] = queue["server"] + 0 - k
      /\ queue'["client"] = queue["client"] + 0 - 0
      /\ k \in Nat
  BY <1>1 DEF IInv, Numbers, Procs
<1>6. 0 <= Accepted - Echoed
  BY <1>1 DEF IInv, Numbers, CallsBounded, Accepted, Echoed, InRead, InWrite, Procs
<1> QED
  BY <1>2, <1>3, <1>4, <1>5, <1>6, FlowStep

\* send() of the client is Send.
LEMMA ClientWriteStep ==
    ASSUME IInv, ClientWrite
    PROVE  IInv' /\ [Flow!Next]_(Flow!vars)
<1>1. PICK k \in Nat :
         /\ moved["client"] + k <= ClientFill
         /\ queue' = [queue EXCEPT !["server"] = queue["server"] + k]
         /\ moved' = [moved EXCEPT !["client"] = moved["client"] + k]
         /\ pc["client"] = "writing"
         /\ \/ pc' = pc /\ moved["client"] + k < ClientFill
            \/ pc' = [pc EXCEPT !["client"] = "wrote"]
         /\ UNCHANGED <<outstandingBytes, total>>
  <2>1. ClientFill \in Nat
    BY WindowType DEF IInv, Numbers, CallsBounded, Procs, toRead, ClientFill
  <2> QED
    BY <2>1, WriteEffect DEF ClientWrite, IInv, CallsBounded, Procs, Other
<1>2. Numbers'
  BY <1>1 DEF IInv, Numbers, Procs, Labels, Running
<1>3. CallsBounded'
  BY <1>1, WindowType DEF IInv, Numbers, CallsBounded, ClientFill, toRead, Procs
<1>4. /\ Sent' = Sent + k /\ Accepted' = Accepted + 0
      /\ Echoed' = Echoed + 0 /\ Received' = Received + 0
  BY <1>1 DEF IInv, Numbers, Sent, Accepted, Echoed, Received, InRead, InWrite, Procs
<1>5. /\ queue'["server"] = queue["server"] + k - 0
      /\ queue'["client"] = queue["client"] + 0 - 0
      /\ k \in Nat
  BY <1>1 DEF IInv, Numbers, Procs
<1>6. 0 <= Accepted - Echoed
  BY <1>1 DEF IInv, Numbers, CallsBounded, Accepted, Echoed, InRead, InWrite, Procs
<1> QED
  BY <1>2, <1>3, <1>4, <1>5, <1>6, FlowStep

\* send() of the server is Echo.
LEMMA ServerWriteStep ==
    ASSUME IInv, ServerWrite
    PROVE  IInv' /\ [Flow!Next]_(Flow!vars)
<1>1. PICK k \in Nat :
         /\ moved["server"] + k <= outstandingBytes["server"]
         /\ queue' = [queue EXCEPT !["client"] = queue["client"] + k]
         /\ moved' = [moved EXCEPT !["server"] = moved["server"] + k]
         /\ pc["server"] = "writing"
         /\ \/ pc' = pc /\ moved["server"] + k < outstandingBytes["server"]
            \/ pc' = [pc EXCEPT !["server"] = "wrote"]
         /\ UNCHANGED <<outstandingBytes, total>>
  <2>1. outstandingBytes["server"] \in Nat
    BY WindowType DEF IInv, Numbers, CallsBounded, Procs, toRead, ClientFill
  <2> QED
    BY <2>1, WriteEffect DEF ServerWrite, IInv, CallsBounded, Procs, Other
<1>2. Numbers'
  BY <1>1 DEF IInv, Numbers, Procs, Labels, Running
<1>3. CallsBounded'
  BY <1>1, WindowType DEF IInv, Numbers, CallsBounded, ClientFill, toRead, Procs
<1>4. /\ Sent' = Sent + 0 /\ Accepted' = Accepted + 0
      /\ Echoed' = Echoed + k /\ Received' = Received + 0
  BY <1>1 DEF IInv, Numbers, Sent, Accepted, Echoed, Received, InRead, InWrite, Procs
<1>5. /\ queue'["server"] = queue["server"] + 0 - 0
      /\ queue'["client"] = queue["client"] + k - 0
      /\ k \in Nat
  BY <1>1 DEF IInv, Numbers, Procs
<1>6. k <= Accepted - Echoed
  BY <1>1 DEF IInv, Numbers, CallsBounded, Accepted, Echoed, InRead, InWrite, Procs
<1> QED
  BY <1>2, <1>3, <1>4, <1>5, <1>6, FlowStep

\* Counting what a call has moved changes no counter of FlowControl.
LEMMA CountStep ==
    ASSUME IInv, Numbers', CallsBounded', UNCHANGED queue,
           UNCHANGED <<Sent, Accepted, Echoed, Received>>
    PROVE  IInv' /\ [Flow!Next]_(Flow!vars)
<1>1. /\ Sent' = Sent + 0 /\ Accepted' = Accepted + 0
      /\ Echoed' = Echoed + 0 /\ Received' = Received + 0
  BY CountersType DEF IInv
<1>2. /\ queue'["server"] = queue["server"] + 0 - 0
      /\ queue'["client"] = queue["client"] + 0 - 0
  BY DEF IInv, Numbers, Procs
<1>3. 0 <= Accepted - Echoed
  BY DEF IInv, Numbers, CallsBounded, Accepted, Echoed, InRead, InWrite, Procs
<1> QED
  BY <1>1, <1>2, <1>3, FlowStep

\* The bytes read are no longer outstanding.
LEMMA ClientAccountStep ==
    ASSUME IInv, ClientAccount
    PROVE  IInv' /\ [Flow!Next]_(Flow!vars)
<1>1. /\ pc["client"] = "account"
      /\ outstandingBytes' = [outstandingBytes EXCEPT !["client"] = @ - moved["client"]]
      /\ total' = [total EXCEPT !["client"] = @ + moved["client"]]
      /\ moved' = [moved EXCEPT !["client"] = 0]
      /\ UNCHANGED queue
      /\ \/ pc' = [pc EXCEPT !["client"] = "loop"]
         \/ /\ pc' = [pc EXCEPT !["client"] = "writing"]
            /\ outstandingBytes["client"] - moved["client"] < Window
  BY DEF ClientAccount, Goto, kernel, IInv, Numbers
<1>2. Numbers'
  BY <1>1 DEF IInv, Numbers, CallsBounded, Procs, Labels, Running
<1>3. CallsBounded'
  BY <1>1, WindowType DEF IInv, Numbers, CallsBounded, ClientFill, toRead, Procs
<1>4. UNCHANGED <<Sent, Accepted, Echoed, Received>>
  BY <1>1 DEF IInv, Numbers, Sent, Accepted, Echoed, Received, InRead, InWrite, Procs
<1> QED
  BY <1>1, <1>2, <1>3, <1>4, CountStep

\* The bytes written are outstanding.
LEMMA ClientWroteStep ==
    ASSUME IInv, ClientWrote
    PROVE  IInv' /\ [Flow!Next]_(Flow!vars)
<1>1. /\ pc["client"] = "wrote"
      /\ outstandingBytes' = [outstandingBytes EXCEPT !["client"] = @ + moved["client"]]
      /\ UNCHANGED total
      /\ moved' = [moved EXCEPT !["client"] = 0]
      /\ UNCHANGED queue
      /\ pc' = [pc EXCEPT !["client"] = "loop"]
  BY DEF ClientWrote, Goto, kernel, IInv, Numbers
<1>2. Numbers'
  BY <1>1 DEF IInv, Numbers, CallsBounded, Procs, Labels, Running
<1>3. CallsBounded'
  BY <1>1, WindowType DEF IInv, Numbers, CallsBounded, ClientFill, toRead, Procs
<1>4. UNCHANGED <<Sent, Accepted, Echoed, Received>>
  BY <1>1 DEF IInv, Numbers, Sent, Accepted, Echoed, Received, InRead, InWrite, Procs
<1> QED
  BY <1>1, <1>2, <1>3, <1>4, CountStep

\* The bytes read are to be echoed.
LEMMA ServerAccountStep ==
    ASSUME IInv, ServerAccount
    PROVE  IInv' /\ [Flow!Next]_(Flow!vars)
<1>1. /\ pc["server"] = "account"
      /\ outstandingBytes' = [outstandingBytes EXCEPT !["server"] = @ + moved["server"]]
      /\ UNCHANGED total
      /\ moved' = [moved EXCEPT !["server"] = 0]
      /\ UNCHANGED queue
      /\ \/ pc' = [pc EXCEPT !["server"] = "loop"]
         \/ /\ pc' = [pc EXCEPT !["server"] = "writing"]
            /\ outstandingBytes["server"] + moved["server"] > 0
  BY DEF ServerAccount, Goto, kernel, IInv, Numbers
<1>2. Numbers'
  BY <1>1 DEF IInv, Numbers, CallsBounded, Procs, Labels, Running
<1>3. CallsBounded'
  BY <1>1, WindowType DEF IInv, Numbers, CallsBounded, ClientFill, toRead, Procs
<1>4. UNCHANGED <<Sent, Accepted, Echoed, Received>>
  BY <1>1 DEF IInv, Numbers, Sent, Accepted, Echoed, Received, InRead, InWrite, Procs
<1> QED
  BY <1>1, <1>2, <1>3, <1>4, CountStep

\* The bytes echoed are no longer outstanding.
LEMMA ServerWroteStep ==
    ASSUME IInv, ServerWrote
    PROVE  IInv' /\ [Flow!Next]_(Flow!vars)
<1>1. /\ pc["server"] = "wrote"
      /\ outstandingBytes' = [outstandingBytes EXCEPT !["server"] = @ - moved["server"]]
      /\ total' = [total EXCEPT !["server"] = @ + moved["server"]]
      /\ moved' = [moved EXCEPT !["server"] = 0]
      /\ UNCHANGED queue
      /\ pc' = [pc EXCEPT !["server"] = "loop"]
  BY DEF ServerWrote, Goto, kernel, IInv, Numbers
<1>2. Numbers'
  BY <1>1 DEF IInv, Numbers, CallsBounded, Procs, Labels, Running
<1>3. CallsBounded'
  BY <1>1, WindowType DEF IInv, Numbers, CallsBounded, ClientFill, toRead, Procs
<1>4. UNCHANGED <<Sent, Accepted, Echoed, Received>>
  BY <1>1 DEF IInv, Numbers, Sent, Accepted, Echoed, Received, InRead, InWrite, Procs
<1> QED
  BY <1>1, <1>2, <1>3, <1>4, CountStep

\* Every step of the programs, and every signal, keeps the invariant and is a
\* step of FlowControl or a stutter.
LEMMA NextStep ==
    ASSUME IInv, [Next]_vars
    PROVE  IInv' /\ [Flow!Next]_(Flow!vars)
<1>1. CASE \/ ServerListen \/ ServerAnnounce \/ ServerAccept
           \/ ClientOpen \/ ClientHello \/ ClientConnect
           \/ ClientTryRead \/ ServerTryRead \/ ClientEvaluate \/ ServerEvaluate
           \/ \E p \in Procs : \/ Poll(p) \/ Killed(p) \/ quit_signal_handler(p)
                              \/ SleepInterrupted(p)
  BY <1>1, QuietSteps, QuietStep
<1>2. CASE ClientRead \/ ServerRead \/ ClientWrite \/ ServerWrite
  BY <1>2, ClientReadStep, ServerReadStep, ClientWriteStep, ServerWriteStep
<1>3. CASE ClientAccount \/ ClientWrote \/ ServerAccount \/ ServerWrote
  BY <1>3, ClientAccountStep, ClientWroteStep, ServerAccountStep, ServerWroteStep
<1>4. CASE UNCHANGED vars
  <2>1. Numbers' /\ CallsBounded' /\ Quiet
    BY <1>4 DEF vars, IInv, Numbers, CallsBounded, Quiet, InRead, InWrite, ClientFill, toRead
  <2> QED
    BY <2>1, QuietStep
<1> QED
  BY <1>1, <1>2, <1>3, <1>4 DEF Next, Client, Server, Signal, Procs

\* Nothing is sent or counted at first.
LEMMA InitIInv == Init => IInv /\ Flow!Init
<1> SUFFICES ASSUME Init PROVE IInv /\ Flow!Init
  OBVIOUS
<1>1. Numbers
  BY DEF Init, Numbers, Labels, Starting, Procs
<1>2. CallsBounded
  BY WindowType DEF Init, CallsBounded, Procs
<1>3. QueuesAgree
  BY DEF Init, QueuesAgree, Sent, Accepted, Echoed, Received, InRead, InWrite, Procs
<1>4. Flow!Init
  BY DEF Init, Flow!Init, InRead, InWrite, Procs
<1> QED
  BY <1>1, <1>2, <1>3, <1>4 DEF IInv

\* IInv is an inductive invariant of domain.
LEMMA Invariance == Spec => []IInv
<1>1. Init => IInv
  BY InitIInv
<1>2. IInv /\ [Next]_vars => IInv'
  BY NextStep
<1> QED
  BY <1>1, <1>2, PTL DEF Spec

\* Client and server agree on the bytes outstanding, and the window is never
\* exceeded, for every request size, rate, socket capacity and signal.
THEOREM WindowIsConserved == Spec => []WindowConserved
<1>1. ASSUME IInv PROVE WindowConserved
  BY <1>1, WindowType DEF IInv, Numbers, CallsBounded, QueuesAgree, WindowConserved,
     Sent, Accepted, Echoed, Received, InRead, InWrite, ClientFill, Procs
<1> QED
  BY Invariance, <1>1, PTL

\* The domain programs implement the flow-control specification.
THEOREM DomainImplementsFlowControl == Spec => FlowSpec
<1>1. Init => Flow!Init
  BY InitIInv
<1>2. IInv /\ [Next]_vars => [Flow!Next]_(Flow!vars)
  BY NextStep
<1> QED
  BY <1>1, <1>2, Invariance, PTL DEF Spec, FlowSpec, Flow!Spec
-----------------------------------------------------------------------------
(***************************************************************************)
(* How calls end, and what the client's statistics hold after whole and    *)
(* after broken calls.                                                     *)
(***************************************************************************)

\* Who has closed its end makes no further step.
ClosedEnds ==
    /\ closed \subseteq Procs
    /\ \A p \in closed : pc[p] \in Ended
    /\ quit \in [Procs -> BOOLEAN] /\ DOMAIN canRead = Procs

\* A helper call of the client moves all it was asked to move, or nothing,
\* unless quit is set or the server has left.
CallEnds ==
    /\ pc["client"] = "account" =>
          \/ moved["client"] \in {0, outstandingBytes["client"]}
          \/ quit["client"]
          \/ "server" \in closed
    /\ pc["client"] = "wrote" =>
          moved["client"] = ClientFill \/ quit["client"] \/ "server" \in closed

\* Bytes and requests outstanding agree, until a broken call; after it the
\* client only leaves, or the server has left: then no call sends any more, and
\* what there is to read is less than a request more than what was counted.
Regime ==
    \/ outstandingBytes["client"] = Size * outstandingReqs
    \/ quit["client"] /\ pc["client"] \in {"loop", "evaluate"} \cup Ended
    \/ /\ "server" \in closed
       /\ outstandingBytes["client"] < Size * outstandingReqs + Size
       /\ pc["client"] \in {"writing", "wrote"} => moved["client"] = 0

\* What times[i] holds: stamped as sent up to numReqsSent, as answered up to
\* numReqsRead.
Stamp(i) ==
    IF i < numReqsRead THEN "rtt" ELSE IF i < numReqsSent THEN "sent" ELSE "unset"

\* What is outstanding has been stamped: numReqsSent is a window ahead of
\* numReqsRead whenever the client writes.
Stamping ==
    /\ outstandingReqs \in 0..Rate /\ numReqsRead \in Nat /\ numReqsSent \in Nat
    /\ numReqsRead + outstandingReqs <= numReqsSent
    /\ pc["client"] \in {"writing", "wrote"} => numReqsRead + Rate <= numReqsSent
    /\ times = [i \in 0..(Count - 1) |-> Stamp(i)]
    /\ Size * numReqsRead <= total["client"]

StampingInv == ClosedEnds /\ CallEnds /\ Regime /\ Stamping

\* Division by the size of a request.
LEMMA DivBounds ==
    ASSUME NEW n \in Nat
    PROVE  /\ wholeReqs(n) \in Nat /\ Size * wholeReqs(n) <= n
           /\ n < Size * wholeReqs(n) + Size
BY ArgumentsAssumption DEF wholeReqs

\* Whole requests are counted exactly.
LEMMA DivExact ==
    ASSUME NEW a \in Nat
    PROVE  wholeReqs(Size * a) = a
<1> DEFINE q == wholeReqs(Size * a)
<1>1. Size * a \in Nat
  BY ArgumentsAssumption
<1>2. q \in Nat /\ Size * q <= Size * a /\ Size * a < Size * q + Size
  BY <1>1, ArgumentsAssumption DEF wholeReqs
<1> HIDE DEF q
<1>3. Size * (q + 1) = Size * q + Size
  BY <1>2, ArgumentsAssumption
<1>4. Size * a < Size * (q + 1)
  BY <1>2, <1>3
<1>5. q <= a /\ a < q + 1
  BY <1>2, <1>4, ArgumentsAssumption
<1> QED
  BY <1>2, <1>5 DEF q

\* Request sizes cancel.
LEMMA Cancel ==
    ASSUME NEW a \in Nat, NEW b \in Nat, Size * a <= Size * b
    PROVE  a <= b
BY ArgumentsAssumption

\* The client's view of the steps that are no part of its calls and accounts:
\* they leave its counters alone, quit is never cleared, a call ends early only
\* with quit set, and a client told to quit leaves.
Aside ==
    /\ UNCHANGED stats
    /\ total'["client"] = total["client"]
    /\ outstandingBytes'["client"] = outstandingBytes["client"]
    /\ moved'["client"] = moved["client"]
    /\ quit["client"] => quit'["client"]
    /\ "server" \in closed => "server" \in closed'
    /\ pc'["client"] = "account" =>
          pc["client"] \in {"account", "read"} \/ quit'["client"]
    /\ pc'["client"] = "wrote" => pc["client"] = "wrote" \/ quit'["client"]
    /\ pc'["client"] \in {"writing", "wrote"} => pc["client"] \in {"writing", "wrote"}
    /\ quit["client"] /\ pc["client"] \in {"loop", "evaluate"} \cup Ended
         => pc'["client"] \in {"loop", "evaluate"} \cup Ended

\* Every step but those of the client's calls and accounts is one.
LEMMA AsideSteps ==
    ASSUME IInv, ClosedEnds, [Next]_vars
    PROVE  ClientAccount \/ ClientWrote \/ ClientRead \/ ClientWrite \/ Aside
<1>a. /\ pc \in [Procs -> Labels] /\ quit \in [Procs -> BOOLEAN]
      /\ total \in [Procs -> Nat] /\ outstandingBytes \in [Procs -> Nat]
      /\ moved \in [Procs -> Nat] /\ queue \in [Procs -> Nat]
  BY DEF IInv, Numbers, ClosedEnds
<1>1. CASE \/ ServerListen \/ ServerAnnounce \/ ServerAccept
           \/ ClientOpen \/ ClientHello \/ ClientConnect
  BY <1>1, <1>a DEF ServerListen, ServerAnnounce, ServerAccept, ClientOpen, ClientHello,
     ClientConnect, Goto, Aside, stats, window, kernel, Procs, Ended
<1>2. CASE \E p \in Procs : Poll(p) \/ quit_signal_handler(p)
  BY <1>2, <1>a DEF Poll, LoopOver, quit_signal_handler, Goto, Aside, stats,
     window, kernel, Procs, Ended
<1>3. CASE \E p \in Procs : SleepInterrupted(p)
  BY <1>3, <1>a DEF SleepInterrupted, Goto, Aside, stats, window, kernel, Procs, Ended
<1>4. CASE ClientTryRead \/ ServerTryRead
  BY <1>4, <1>a DEF ClientTryRead, ServerTryRead, TryRead, Goto, Aside, stats,
     window, kernel, Procs, Ended
<1>5. CASE ClientEvaluate \/ ServerEvaluate \/ \E p \in Procs : Killed(p)
  BY <1>5, <1>a DEF ClientEvaluate, ServerEvaluate, Killed, Goto, Aside, stats,
     window, Procs, Starting, Ended
<1>6. CASE ServerRead
  BY <1>6, <1>a DEF ServerRead, read_from_socket, Goto, Aside, stats, Procs, Ended
<1>7. CASE ServerWrite
  <2>1. "server" \notin closed
    BY <1>7 DEF ServerWrite, write_to_socket, ClosedEnds, Ended
  <2> QED
    BY <1>7, <1>a, <2>1 DEF ServerWrite, write_to_socket, Other, Goto, Aside,
       stats, Procs, Ended
<1>8. CASE ServerAccount \/ ServerWrote
  BY <1>8, <1>a DEF ServerAccount, ServerWrote, Goto, Aside, stats, kernel, Procs, Ended
<1>9. CASE UNCHANGED vars
  BY <1>9 DEF vars, Aside, stats
<1> QED
  BY <1>1, <1>2, <1>3, <1>4, <1>5, <1>6, <1>7, <1>8, <1>9
     DEF Next, Client, Server, Signal, Procs

\* Every step leaves the ended alone.
LEMMA ClosedStep ==
    ASSUME IInv, ClosedEnds, [Next]_vars
    PROVE  ClosedEnds'
<1>a. pc \in [Procs -> Labels]
  BY DEF IInv, Numbers
<1> USE DEF Goto, Procs, Ended, ClosedEnds, polled
<1>1. CASE \/ ServerListen \/ ServerAnnounce \/ ServerAccept
           \/ ClientOpen \/ ClientHello \/ ClientConnect
  BY <1>1, <1>a DEF ServerListen, ServerAnnounce, ServerAccept, ClientOpen, ClientHello,
     ClientConnect, kernel
<1>2. CASE \E p \in Procs : Poll(p) \/ quit_signal_handler(p)
  BY <1>2, <1>a DEF Poll, quit_signal_handler, kernel
<1>3. CASE \E p \in Procs : SleepInterrupted(p)
  BY <1>3, <1>a DEF SleepInterrupted, kernel
<1>4. CASE ClientTryRead \/ ServerTryRead
  BY <1>4, <1>a DEF ClientTryRead, ServerTryRead, TryRead, kernel
<1>5. CASE ClientEvaluate \/ ServerEvaluate \/ \E p \in Procs : Killed(p)
  BY <1>5, <1>a DEF ClientEvaluate, ServerEvaluate, Killed
<1>6. CASE ClientRead \/ ServerRead
  BY <1>6, <1>a DEF ClientRead, ServerRead, read_from_socket
<1>7. CASE ClientWrite \/ ServerWrite
  <2>1. PICK p \in Procs :
          /\ pc[p] = "writing" /\ UNCHANGED <<closed, canRead>>
          /\ pc' = pc \/ pc' = [pc EXCEPT ![p] = "wrote"]
          /\ quit' = quit \/ quit' = [quit EXCEPT ![p] = TRUE]
    BY <1>7 DEF ClientWrite, ServerWrite, write_to_socket
  <2>2. quit' \in [Procs -> BOOLEAN]
    BY <2>1
  <2>3. p \notin closed
    BY <2>1
  <2>4. \A x \in closed : pc'[x] = pc[x]
    BY <1>a, <2>1, <2>3
  <2> QED
    BY <2>1, <2>2, <2>4
<1>8. CASE ClientAccount \/ ClientWrote \/ ServerAccount \/ ServerWrote
  BY <1>8, <1>a DEF ClientAccount, ClientWrote, ServerAccount, ServerWrote, kernel
<1>9. CASE UNCHANGED vars
  BY <1>9 DEF vars
<1> QED
  BY <1>1, <1>2, <1>3, <1>4, <1>5, <1>6, <1>7, <1>8, <1>9
     DEF Next, Client, Server, Signal

\* A recv() of the client.
LEMMA ReadStamps ==
    ASSUME IInv, StampingInv, ClientRead
    PROVE  CallEnds' /\ Regime' /\ Stamping'
<1> DEFINE k == Least(queue["client"],
                      Least(Size, outstandingBytes["client"] - moved["client"]))
<1>a. /\ pc \in [Procs -> Labels] /\ queue \in [Procs -> Nat] /\ moved \in [Procs -> Nat]
      /\ pc["client"] = "reading"
      /\ moved["client"] < outstandingBytes["client"]
      /\ outstandingBytes["client"] \in Nat
      /\ UNCHANGED <<closed, quit, outstandingBytes, total, stats>>
  BY DEF IInv, Numbers, CallsBounded, ClientRead, read_from_socket, Procs
<1>1. /\ queue'["client"] = queue["client"] - k
      /\ moved'["client"] = moved["client"] + k
      /\ pc'["client"] \in {"reading", "account"}
      /\ pc'["client"] = "account" =>
            queue["client"] = 0 \/ moved["client"] + k >= outstandingBytes["client"]
  <2>1. /\ queue' = [queue EXCEPT !["client"] = @ - k]
        /\ moved' = [moved EXCEPT !["client"] = @ + k]
        /\ IF queue["client"] > 0 /\ moved["client"] + k < outstandingBytes["client"]
           THEN pc' = pc ELSE pc' = [pc EXCEPT !["client"] = "account"]
    BY DEF ClientRead, read_from_socket, Goto
  <2>2. k \in Int
    BY <1>a, ArgumentsAssumption DEF Least, Procs
  <2> HIDE DEF k
  <2> QED
    BY <1>a, <2>1, <2>2 DEF Procs
<1>2. /\ k \in Nat /\ moved["client"] + k <= outstandingBytes["client"]
      /\ queue["client"] = 0 => k = 0
  BY <1>a, ArgumentsAssumption DEF Least, Procs
<1>3. queue["client"] = 0 => "server" \in closed
  BY <1>a DEF ClientRead, read_from_socket, Readable, Other, Procs
<1> HIDE DEF k
<1>4. CallEnds'
  BY <1>a, <1>1, <1>2, <1>3 DEF CallEnds, Procs
<1>5. Regime'
  BY <1>a, <1>1, <1>2, <1>3 DEF StampingInv, Regime, Ended, stats, Procs
<1>6. Stamping'
  BY <1>a, <1>1 DEF StampingInv, Stamping, Stamp, stats
<1> QED
  BY <1>4, <1>5, <1>6

\* A piece of a send() of the client.
LEMMA WriteStamps ==
    ASSUME IInv, StampingInv, ClientWrite
    PROVE  CallEnds' /\ Regime' /\ Stamping'
<1>a. /\ pc \in [Procs -> Labels] /\ queue \in [Procs -> Nat] /\ moved \in [Procs -> Nat]
      /\ quit \in [Procs -> BOOLEAN]
      /\ pc["client"] = "writing"
      /\ moved["client"] < ClientFill
      /\ ClientFill \in Nat /\ UNCHANGED ClientFill
      /\ UNCHANGED <<closed, outstandingBytes, total, stats>>
  BY WindowType DEF IInv, Numbers, CallsBounded, ClientFill, ClientWrite, write_to_socket,
     Procs, StampingInv, ClosedEnds
<1>1. pc'["client"] \in {"writing", "wrote"} /\ queue'["client"] = queue["client"]
  BY <1>a DEF ClientWrite, write_to_socket, Goto, Other, Procs
<1>2. CASE "server" \notin closed
  <2>1. PICK k \in 1..Least(Capacity - queue["server"],
                            Least(Size, ClientFill - moved["client"])) :
          /\ moved' = [moved EXCEPT !["client"] = @ + k]
          /\ IF moved["client"] + k < ClientFill THEN UNCHANGED pc ELSE Goto("client", "wrote")
    BY <1>2 DEF ClientWrite, write_to_socket, Other
  <2>2. k \in Nat /\ moved["client"] + k <= ClientFill
    BY <1>a, <2>1, ArgumentsAssumption, KernelAssumption DEF Least, Procs
  <2>3. pc'["client"] = "wrote" => moved'["client"] = ClientFill
    BY <1>a, <2>1, <2>2 DEF Procs
  <2>4. CallEnds'
    BY <1>a, <1>1, <2>3 DEF CallEnds
  <2>5. Regime'
    BY <1>a, <1>2 DEF StampingInv, Regime, Ended, stats
  <2> QED
    BY <1>a, <1>1, <2>4, <2>5 DEF StampingInv, Stamping, Stamp, stats
<1>3. CASE "server" \in closed
  <2>1. UNCHANGED moved
    BY <1>3 DEF ClientWrite, write_to_socket, Other
  <2>2. CallEnds'
    BY <1>a, <1>1, <1>3 DEF CallEnds
  <2>3. Regime'
    BY <1>a, <1>1, <2>1 DEF StampingInv, Regime, Ended, stats
  <2> QED
    BY <1>a, <1>1, <2>2, <2>3 DEF StampingInv, Stamping, Stamp, stats
<1> QED
  BY <1>2, <1>3

\* The pass that takes q whole answers out of o outstanding requests and
\* stamps the requests that fill the window.
LEMMA StampStep ==
    ASSUME NEW r \in Nat, NEW s \in Nat, NEW o \in 0..Rate, NEW q \in 0..o, r + o <= s,
           times = [i \in 0..(Count - 1) |->
                      IF i < r THEN "rtt" ELSE IF i < s THEN "sent" ELSE "unset"]
    PROVE  updateWriteTimes(updateReadWriteTimes(times, r, q), s, Rate - (o - q))
             = [i \in 0..(Count - 1) |->
                  IF i < r + q THEN "rtt"
                  ELSE IF i < s + (Rate - (o - q)) THEN "sent" ELSE "unset"]
<1> DEFINE f == Rate - (o - q)
           m == updateReadWriteTimes(times, r, q)
           w == updateWriteTimes(m, s, f)
<1>1. f \in Nat
  BY ArgumentsAssumption
<1>3. m = [i \in 0..(Count - 1) |->
             IF i < r + q THEN "rtt" ELSE IF i < s THEN "sent" ELSE "unset"]
  <2>1. DOMAIN times = 0..(Count - 1)
    OBVIOUS
  <2>2. m = [i \in 0..(Count - 1) |->
               IF r <= i /\ i < r + q THEN IF times[i] = "sent" THEN "rtt" ELSE "bad"
                                      ELSE times[i]]
    BY <2>1 DEF updateReadWriteTimes
  <2>3. ASSUME NEW i \in 0..(Count - 1)
        PROVE  (IF r <= i /\ i < r + q THEN IF times[i] = "sent" THEN "rtt" ELSE "bad"
                                      ELSE times[i])
                 = (IF i < r + q THEN "rtt" ELSE IF i < s THEN "sent" ELSE "unset")
    <3>1. times[i] = IF i < r THEN "rtt" ELSE IF i < s THEN "sent" ELSE "unset"
      OBVIOUS
    <3> QED
      BY <3>1, ArgumentsAssumption
  <2> QED
    BY <2>2, <2>3
<1>4. w = [i \in 0..(Count - 1) |->
             IF i < r + q THEN "rtt" ELSE IF i < s + f THEN "sent" ELSE "unset"]
  <2> HIDE DEF m, f
  <2>1. DOMAIN m = 0..(Count - 1)
    BY <1>3
  <2>2. w = [i \in 0..(Count - 1) |-> IF s <= i /\ i < s + f THEN "sent" ELSE m[i]]
    BY <2>1 DEF updateWriteTimes
  <2>3. ASSUME NEW i \in 0..(Count - 1)
        PROVE  (IF s <= i /\ i < s + f THEN "sent" ELSE m[i])
                 = (IF i < r + q THEN "rtt" ELSE IF i < s + f THEN "sent" ELSE "unset")
    <3>1. m[i] = IF i < r + q THEN "rtt" ELSE IF i < s THEN "sent" ELSE "unset"
      BY <1>3
    <3> QED
      BY <3>1, <1>1, ArgumentsAssumption
  <2> QED
    BY <2>2, <2>3
<1> QED
  BY <1>4

\* The account of a read.
LEMMA AccountStamps ==
    ASSUME IInv, StampingInv, ClientAccount
    PROVE  CallEnds' /\ Regime' /\ Stamping'
<1> DEFINE n == moved["client"]   q == wholeReqs(n)   b == outstandingBytes["client"]
           o == outstandingReqs   r == numReqsRead   s == numReqsSent
           f == Rate - (o - q)
<1>1. /\ pc["client"] = "account"
      /\ n \in Nat /\ n <= b /\ b \in Nat
      /\ o \in 0..Rate /\ r \in Nat /\ s \in Nat /\ r + o <= s
      /\ total["client"] \in Nat /\ Size * r <= total["client"]
      /\ b = Size * o \/ ("server" \in closed /\ b < Size * o + Size)
  <2>1. pc["client"] = "account"
    BY DEF ClientAccount
  <2>a. pc["client"] \notin {"loop", "evaluate"} \cup Ended
    BY <2>1 DEF Ended
  <2>2. b = Size * o \/ ("server" \in closed /\ b < Size * o + Size)
    BY <2>a, Zenon DEF StampingInv, Regime
  <2> QED
    BY <2>1, <2>2 DEF IInv, Numbers, CallsBounded, StampingInv, Stamping, Procs
<1>2. q \in Nat /\ Size * q <= n /\ n < Size * q + Size
  BY <1>1, DivBounds
<1>3. q <= o
  <2>1. Size * q < Size * (o + 1)
    <3> HIDE DEF n, q, b
    <3>1. Size * (o + 1) = Size * o + Size /\ Size * o \in Nat /\ Size * q \in Nat
      BY <1>1, <1>2, ArgumentsAssumption
    <3> QED
      BY <1>1, <1>2, <3>1, ArgumentsAssumption
  <2>2. ~(Size * (o + 1) <= Size * q)
    <3> HIDE DEF q
    <3> QED
      BY <1>1, <1>2, <2>1, ArgumentsAssumption
  <2> HIDE DEF q
  <2> QED
    BY <1>1, <1>2, <2>2, ArgumentsAssumption
<1>4. (IF o - q < Rate THEN Rate - (o - q) ELSE 0) = f
  <2> HIDE DEF q
  <2> QED
    BY <1>1, <1>2, <1>3, ArgumentsAssumption
<1>5. /\ outstandingReqs' = o - q
      /\ outstandingBytes'["client"] = b - n
      /\ total'["client"] = total["client"] + n
      /\ moved'["client"] = 0
      /\ numReqsRead' = r + q
      /\ numReqsSent' = s + f
      /\ times' = updateWriteTimes(updateReadWriteTimes(times, r, q), s, f)
      /\ pc'["client"] \in {"loop", "writing"}
      /\ quit["client"] => pc'["client"] = "loop"
      /\ UNCHANGED <<queue, closed, quit>>
  BY <1>4 DEF ClientAccount, Goto, kernel, IInv, Numbers, Procs
<1>6. CallEnds'
  BY <1>5 DEF CallEnds
<1>7. Regime'
  <2>1. CASE "server" \in closed
    <3> HIDE DEF n, q, b
    <3>1. Size * (o - q) = Size * o - Size * q /\ Size * o \in Nat /\ Size * q \in Nat
      BY <1>1, <1>2, <1>3, ArgumentsAssumption
    <3>2. b - n < Size * (o - q) + Size
      BY <1>1, <1>2, <3>1, ArgumentsAssumption
    <3> QED
      BY <1>5, <2>1, <3>2 DEF Regime
  <2>2. CASE quit["client"]
    BY <1>5, <2>2 DEF Regime
  <2>3. CASE n \in {0, b} /\ b = Size * o
    <3>1. q = 0 \/ (n = b /\ q = o)
      <4>1. n = 0 => Size * q <= Size * 0
        BY <1>2, ArgumentsAssumption
      <4>2. n = 0 => q <= 0
        BY <1>2, <4>1, Cancel
      <4>3. o \in Nat /\ n = b => q = o
        BY <2>3, DivExact
      <4>4. o \in Nat
        BY <1>1, ArgumentsAssumption
      <4>5. CASE n = 0
        BY <1>2, <4>2, <4>5
      <4>6. CASE n = b
        BY <4>3, <4>4, <4>6
      <4> QED
        BY <2>3, <4>5, <4>6
    <3>2. q = 0 => n = 0 \/ b = 0
      <4>1. o \in Nat /\ n = b => q = o
        BY <2>3, DivExact
      <4> QED
        BY <1>1, <2>3, <4>1, ArgumentsAssumption
    <3> HIDE DEF n, q, b
    <3>3. b - n = Size * (o - q)
      BY <1>1, <1>2, <2>3, <3>1, <3>2, ArgumentsAssumption
    <3> QED
      BY <1>5, <3>3 DEF Regime
  <2> QED
    BY <1>1, <2>1, <2>2, <2>3 DEF StampingInv, CallEnds
<1>8. Stamping'
  <2>1. times' = [i \in 0..(Count - 1) |->
                    IF i < r + q THEN "rtt" ELSE IF i < s + f THEN "sent" ELSE "unset"]
    <3>1. times = [i \in 0..(Count - 1) |->
                     IF i < r THEN "rtt" ELSE IF i < s THEN "sent" ELSE "unset"]
      BY DEF StampingInv, Stamping, Stamp
    <3>2. q \in 0..o
      BY <1>1, <1>2, <1>3, ArgumentsAssumption
    <3> HIDE DEF q
    <3> QED
      BY <1>1, <1>5, <3>1, <3>2, StampStep
  <2>2. times' = [i \in 0..(Count - 1) |-> Stamp(i)']
    BY <1>5, <2>1 DEF Stamp
  <2> HIDE DEF n, q, b
  <2>3. Size * (r + q) <= total["client"] + n
    <3>1. /\ Size * (r + q) = Size * r + Size * q
          /\ Size * r \in Nat /\ Size * q \in Nat
      BY <1>1, <1>2, ArgumentsAssumption
    <3> QED
      BY <1>1, <1>2, <3>1
  <2>4. /\ o - q \in 0..Rate /\ r + q \in Nat /\ s + f \in Nat
        /\ (r + q) + (o - q) <= s + f
        /\ (r + q) + Rate <= s + f
    BY <1>1, <1>2, <1>3, ArgumentsAssumption
  <2> QED
    BY <1>5, <2>2, <2>3, <2>4 DEF Stamping
<1> QED
  BY <1>6, <1>7, <1>8

\* The account of a write.
LEMMA WroteStamps ==
    ASSUME IInv, StampingInv, ClientWrote
    PROVE  CallEnds' /\ Regime' /\ Stamping'
<1> DEFINE n == moved["client"]   q == wholeReqs(n)   b == outstandingBytes["client"]
           o == outstandingReqs   r == numReqsRead   s == numReqsSent
<1>1. /\ pc["client"] = "wrote"
      /\ n \in Nat /\ b \in Nat /\ n <= Window - b
      /\ o \in 0..Rate /\ r \in Nat /\ s \in Nat /\ r + Rate <= s
      /\ b = Size * o \/ ("server" \in closed /\ b < Size * o + Size /\ n = 0)
      /\ n = Window - b \/ quit["client"] \/ "server" \in closed
  <2>1. pc["client"] = "wrote"
    BY DEF ClientWrote
  <2>a. pc["client"] \notin {"loop", "evaluate"} \cup Ended
    BY <2>1 DEF Ended
  <2>2. b = Size * o \/ ("server" \in closed /\ b < Size * o + Size /\ n = 0)
    BY <2>1, <2>a, Zenon DEF StampingInv, Regime
  <2>3. n = Window - b \/ quit["client"] \/ "server" \in closed
    BY <2>1 DEF StampingInv, CallEnds, ClientFill
  <2> QED
    BY <2>1, <2>2, <2>3 DEF IInv, Numbers, CallsBounded, ClientFill, StampingInv, Stamping, Procs
<1>2. q \in Nat /\ Size * q <= n /\ n < Size * q + Size
  BY <1>1, DivBounds
<1>3. o + q <= Rate
  <2>1. CASE b = Size * o
    <3>1. Size * (o + q) <= Size * Rate
      <4> HIDE DEF n, q, b
      <4>1. Size * (o + q) = Size * o + Size * q /\ Size * o \in Nat /\ Size * q \in Nat
        BY <1>1, <1>2, ArgumentsAssumption
      <4> QED
        BY <1>1, <1>2, <2>1, <4>1, WindowType DEF Window
    <3> QED
      BY <1>1, <1>2, <3>1, Cancel, ArgumentsAssumption
  <2>2. CASE n = 0
    <3>1. Size * q <= Size * 0
      BY <1>2, <2>2, ArgumentsAssumption
    <3>2. q <= 0
      BY <1>2, <3>1, Cancel
    <3> HIDE DEF q
    <3> QED
      BY <1>1, <1>2, <3>2, ArgumentsAssumption
  <2> QED
    BY <1>1, <2>1, <2>2
<1>4. /\ outstandingReqs' = o + q
      /\ outstandingBytes'["client"] = b + n
      /\ moved'["client"] = 0
      /\ pc'["client"] = "loop"
      /\ UNCHANGED <<queue, closed, quit, total, numReqsRead, numReqsSent, times>>
  BY DEF ClientWrote, Goto, kernel, IInv, Numbers, Procs
<1>5. CallEnds'
  BY <1>4 DEF CallEnds
<1>6. Regime'
  <2>1. CASE quit["client"]
    BY <1>4, <2>1 DEF Regime
  <2>2. CASE "server" \in closed
    <3> HIDE DEF n, q, b
    <3>1. Size * (o + q) = Size * o + Size * q /\ Size * o \in Nat /\ Size * q \in Nat
      BY <1>1, <1>2, ArgumentsAssumption
    <3>2. b + n < Size * (o + q) + Size
      BY <1>1, <1>2, <3>1, ArgumentsAssumption
    <3> QED
      BY <1>4, <2>2, <3>2 DEF Regime
  <2>3. CASE n = Window - b /\ b = Size * o
    <3>1. n = Size * (Rate - o) /\ Rate - o \in Nat
      BY <1>1, <2>3, ArgumentsAssumption DEF Window
    <3>2. q = Rate - o
      BY <3>1, DivExact
    <3> HIDE DEF n, q, b
    <3>3. b + n = Size * (o + q)
      BY <1>1, <2>3, <3>1, <3>2, ArgumentsAssumption
    <3> QED
      BY <1>4, <3>3 DEF Regime
  <2> QED
    BY <1>1, <2>1, <2>2, <2>3
<1>7. Stamping'
  <2>1. \A i \in 0..(Count - 1) : Stamp(i)' = Stamp(i)
    BY <1>4 DEF Stamp
  <2> HIDE DEF n, q, b
  <2>2. o + q \in 0..Rate /\ r + (o + q) <= s
    BY <1>1, <1>2, <1>3, ArgumentsAssumption
  <2> QED
    BY <1>4, <2>1, <2>2 DEF StampingInv, Stamping
<1> QED
  BY <1>5, <1>6, <1>7

\* Every other step.
LEMMA AsideStamps ==
    ASSUME IInv, StampingInv, Aside
    PROVE  CallEnds' /\ Regime' /\ Stamping'
<1>1. CallEnds'
  <2>1. pc["client"] = "read" => moved["client"] = 0
    BY DEF IInv, CallsBounded, Procs
  <2> QED
    BY <2>1 DEF StampingInv, CallEnds, Aside, ClientFill
<1>2. Regime'
  BY DEF StampingInv, Regime, Aside, stats
<1>3. Stamping'
  <2>1. \A i \in 0..(Count - 1) : Stamp(i)' = Stamp(i)
    BY DEF Stamp, Aside, stats
  <2> QED
    BY <2>1 DEF StampingInv, Stamping, Aside, stats
<1> QED
  BY <1>1, <1>2, <1>3

\* Every time the client reports is the time from the write of a request to
\* the arrival of its whole answer, also when signals or a peer that leaves
\* break its calls inside a request.
THEOREM StampsAreExact == Spec => []StampsExact
<1>1. Init => StampingInv
  <2> SUFFICES ASSUME Init PROVE StampingInv
    OBVIOUS
  <2>1. /\ outstandingReqs = 0 /\ numReqsRead = 0 /\ numReqsSent = 0
        /\ outstandingBytes["client"] = 0 /\ pc["client"] = "open" /\ total["client"] = 0
        /\ times = [i \in 0..(Count - 1) |-> "unset"]
        /\ closed = {} /\ quit = [p \in Procs |-> FALSE] /\ DOMAIN canRead = Procs
    BY DEF Init, Procs
  <2>2. \A i \in 0..(Count - 1) : Stamp(i) = "unset"
    BY <2>1, ArgumentsAssumption DEF Stamp
  <2> QED
    BY <2>1, <2>2, ArgumentsAssumption DEF StampingInv, ClosedEnds, CallEnds, Regime, Stamping
<1>2. IInv /\ StampingInv /\ [Next]_vars => StampingInv'
  <2> SUFFICES ASSUME IInv, StampingInv, [Next]_vars PROVE StampingInv'
    OBVIOUS
  <2>1. ClosedEnds'
    BY ClosedStep DEF StampingInv
  <2>2. CallEnds' /\ Regime' /\ Stamping'
    BY AsideSteps, ReadStamps, WriteStamps, AccountStamps, WroteStamps, AsideStamps
       DEF StampingInv
  <2> QED
    BY <2>1, <2>2 DEF StampingInv
<1>3. IInv /\ StampingInv => StampsExact
  <2> SUFFICES ASSUME Numbers, Stamping PROVE StampsExact
    BY DEF IInv, StampingInv
  <2>1. ASSUME NEW i \in 0..(ReportedCount - 1) PROVE times[i] = "rtt"
    <3>1. i \in 0..(Count - 1) /\ i < numReqsRead
      BY ArgumentsAssumption DEF Stamping, ReportedCount, Least
    <3> QED
      BY <3>1 DEF Stamping, Stamp
  <2>2. Size * ReportedCount <= total["client"]
    <3>1. /\ ReportedCount \in Nat /\ numReqsRead \in Nat /\ ReportedCount <= numReqsRead
          /\ Size * numReqsRead <= total["client"] /\ total["client"] \in Nat
      BY ArgumentsAssumption DEF Stamping, ReportedCount, Least, Numbers, Procs
    <3> HIDE DEF ReportedCount
    <3>2. Size * ReportedCount <= Size * numReqsRead
      BY <3>1, ArgumentsAssumption
    <3> QED
      BY <3>1, <3>2, ArgumentsAssumption
  <2> QED
    BY <2>1, <2>2 DEF StampsExact
<1> QED
  BY <1>1, <1>2, <1>3, Invariance, PTL DEF Spec
-----------------------------------------------------------------------------
(***************************************************************************)
(* Runs that nobody interrupts: client and server exchange whole windows   *)
(* until both have counted count requests.                                 *)
(***************************************************************************)

mcvars == <<vars, signalled>>

Closing == {"evaluate", "done", "aborted"}

\* Counted, or in a call that has moved all it was asked to move.
ReadByClient == total["client"] + (IF pc["client"] = "account" THEN moved["client"] ELSE 0)
SentByServer == total["server"] + (IF pc["server"] = "wrote" THEN moved["server"] ELSE 0)

\* The byte in SOCKET_FIFO means that the server listens and that the client
\* has not connected, and the client connects only after it took the byte.
Handshake ==
    /\ \A p \in Procs : pc[p] # "dead"
    /\ pc["client"] \in {"open", "hello", "connect"} => ~connected
    /\ ~connected => pc["server"] \in {"listen", "announce", "accept"}
    /\ hello => pc["server"] = "accept" /\ pc["client"] \in {"open", "hello"}
    /\ pc["client"] = "connect" => pc["server"] = "accept"
    /\ pc["server"] \in {"listen", "announce"} => ~hello /\ pc["client"] \in {"open", "hello"}

\* Only the client is ever told to quit, by the SIGPIPE of a write to the
\* server that has left, and then it has all its answers.
Ending ==
    /\ \A p \in closed : pc[p] \in {"done", "aborted"}
    /\ ~quit["server"]
    /\ quit["client"] =>
          /\ "server" \in closed
          /\ pc["client"] \in {"wrote", "loop"} \cup Closing
          /\ total["client"] >= MaxBytes

\* A pass of a loop begins before maxBytes are counted, and the loop ends after.
Passes ==
    /\ pc["client"] \in {"read", "reading", "account"} => total["client"] < MaxBytes
    /\ pc["server"] \in {"read", "reading", "account", "writing", "wrote"} =>
          total["server"] < MaxBytes
    /\ \A p \in Procs : pc[p] \in Closing => total[p] >= MaxBytes
    /\ total["server"] < MaxBytes + Window

\* The server has left, and the client will: it has all its answers.
Leaving == "server" \in closed /\ total["client"] >= MaxBytes

\* Until then the client's calls move a whole window or nothing.
ClientWindows ==
    /\ Leaving \/ outstandingBytes["client"] \in {0, Window}
    /\ pc["client"] = "account" => moved["client"] \in {0, outstandingBytes["client"]}
    /\ pc["client"] \in {"writing", "wrote"} => outstandingBytes["client"] = 0
    /\ pc["client"] = "wrote" => Leaving \/ moved["client"] = Window

\* So do the server's, which reads only what it has room for.
ServerWindows ==
    /\ outstandingBytes["server"] \in {0, Window}
    /\ pc["server"] = "read" /\ canRead["server"] => queue["server"] > 0
    /\ pc["server"] = "reading" => outstandingBytes["server"] = 0
    /\ pc["server"] = "account" =>
          moved["server"] = 0 \/ (moved["server"] = Window /\ outstandingBytes["server"] = 0)
    /\ pc["server"] \in {"writing", "wrote"} => outstandingBytes["server"] = Window
    /\ pc["server"] = "wrote" => moved["server"] = Window

\* The server is at most one window of answers ahead of the client.
Exchange == SentByServer - ReadByClient \in {0, Window}

\* All the client has read is whole answers, and counted.
Answered == numReqsRead \in Nat /\ total["client"] = Size * numReqsRead

Undisturbed ==
    Ending /\ Passes /\ ClientWindows /\ ServerWindows /\ Exchange /\ Answered

\* The state the arguments below speak about: numbers, what is sent and not
\* yet accepted, echoed or received.
LEMMA Books ==
    ASSUME IInv
    PROVE  /\ Received <= Echoed /\ Echoed <= Accepted /\ Accepted <= Sent
           /\ queue["client"] = Echoed - Received /\ queue["server"] = Sent - Accepted
           /\ Sent \in Nat /\ Accepted \in Nat /\ Echoed \in Nat /\ Received \in Nat
<1>1. Echoed <= Accepted
  BY DEF IInv, Numbers, CallsBounded, Accepted, Echoed, InRead, InWrite, Procs
<1>2. queue["client"] \in Nat /\ queue["server"] \in Nat
  BY DEF IInv, Numbers, Procs
<1> QED
  BY <1>1, <1>2, CountersType DEF IInv, QueuesAgree

\* maxBytes is a number of bytes.
LEMMA MaxBytesType == MaxBytes \in Nat
BY ArgumentsAssumption DEF MaxBytes

\* The server in a pass has a client to talk to.
LEMMA ClientStays ==
    ASSUME IInv, Undisturbed,
           pc["server"] \in {"loop", "read", "reading", "account", "writing"},
           total["server"] < MaxBytes
    PROVE  "client" \notin closed
<1> SUFFICES ASSUME "client" \in closed PROVE FALSE
  OBVIOUS
<1>1. pc["client"] \in {"done", "aborted"} /\ total["client"] >= MaxBytes
  BY DEF Undisturbed, Ending, Passes, Closing, Procs
<1>2. ReadByClient = total["client"] /\ SentByServer = total["server"]
  BY <1>1 DEF ReadByClient, SentByServer, IInv, Numbers, Procs
<1>3. total["client"] \in Nat /\ total["server"] \in Nat
  BY DEF IInv, Numbers, Procs
<1> QED
  BY <1>1, <1>2, <1>3, MaxBytesType, WindowType DEF Undisturbed, Exchange

\* A window in the server's hands leaves none in its queue.
LEMMA OneWindow ==
    ASSUME IInv, Undisturbed, pc["server"] = "read", queue["server"] > 0
    PROVE  outstandingBytes["server"] = 0
<1>1. /\ Sent <= Received + Window
  BY WindowType DEF IInv, Numbers, CallsBounded, Sent, Received, InRead, InWrite,
     ClientFill, Procs
<1>2. Accepted = Echoed + outstandingBytes["server"]
  BY DEF Accepted, Echoed, InRead, InWrite, IInv, Numbers, Procs
<1> QED
  BY <1>1, <1>2, Books, WindowType DEF Undisturbed, ServerWindows

\* The server echoes a window only after the client has counted the last one.
LEMMA EchoInTurn ==
    ASSUME IInv, Undisturbed, pc["server"] = "writing"
    PROVE  SentByServer = ReadByClient
<1>1. /\ Accepted = total["server"] + Window /\ SentByServer = total["server"]
      /\ total["server"] \in Nat
  BY DEF Accepted, SentByServer, InRead, IInv, Numbers, Procs, Undisturbed, ServerWindows
<1>2. Sent <= ReadByClient + Window /\ ReadByClient \in Nat
  BY WindowType DEF IInv, Numbers, CallsBounded, Sent, ReadByClient, InWrite, ClientFill, Procs
<1> QED
  BY <1>1, <1>2, Books, WindowType DEF Undisturbed, Exchange

\* A client that reads has an answer to wait for, even if the server has left.
LEMMA AnswersLeft ==
    ASSUME IInv, Undisturbed, pc["client"] = "reading", "server" \in closed
    PROVE  queue["client"] > 0
<1>1. /\ pc["server"] \in {"done", "aborted"} /\ total["server"] >= MaxBytes
      /\ total["client"] < MaxBytes
  BY DEF Undisturbed, Ending, Passes, Closing, Procs
<1>2. /\ ReadByClient = total["client"] /\ SentByServer = total["server"]
      /\ Echoed = total["server"] /\ Received = total["client"] + moved["client"]
      /\ total["client"] \in Nat /\ total["server"] \in Nat /\ moved["client"] \in Nat
  BY <1>1 DEF ReadByClient, SentByServer, Echoed, Received, InRead, InWrite, IInv, Numbers, Procs
<1>3. moved["client"] < Window
  BY WindowType DEF IInv, Numbers, CallsBounded, Procs
<1>4. total["server"] - total["client"] = Window
  BY <1>1, <1>2, MaxBytesType, WindowType DEF Undisturbed, Exchange
<1>5. queue["client"] = total["server"] - (total["client"] + moved["client"])
  BY <1>2, Books
<1> QED
  BY <1>2, <1>3, <1>4, <1>5, WindowType

\* A client that writes to a server that has left has all its answers.
LEMMA AllAnswered ==
    ASSUME IInv, Undisturbed, pc["client"] = "writing", "server" \in closed
    PROVE  total["client"] >= MaxBytes
<1>1. /\ pc["server"] \in {"done", "aborted"} /\ total["server"] >= MaxBytes
  BY DEF Undisturbed, Ending, Passes, Closing, Procs
<1>2. /\ ReadByClient = total["client"] /\ SentByServer = total["server"]
      /\ Echoed = total["server"] /\ Sent = total["client"] + moved["client"]
      /\ total["client"] \in Nat /\ total["server"] \in Nat /\ moved["client"] \in Nat
      /\ moved["client"] < Window
  BY <1>1, WindowType DEF ReadByClient, SentByServer, Echoed, Sent, InRead, InWrite, IInv,
     Numbers, CallsBounded, ClientFill, Procs, Undisturbed, ClientWindows
<1> QED
  BY <1>1, <1>2, Books, MaxBytesType, WindowType DEF Undisturbed, Exchange

\* A client that has read a whole window was one window behind.
LEMMA AnswersInTurn ==
    ASSUME IInv, Undisturbed, pc["client"] = "reading", NEW k \in 0..queue["client"],
           moved["client"] + k = Window
    PROVE  SentByServer = ReadByClient + Window
<1>1. /\ ReadByClient = total["client"] /\ Received = total["client"] + moved["client"]
      /\ total["client"] \in Nat /\ moved["client"] \in Nat /\ k \in Nat
      /\ queue["client"] \in Nat
  BY DEF ReadByClient, Received, InRead, IInv, Numbers, Procs
<1>2. Echoed >= total["client"] + Window
  BY <1>1, Books, WindowType
<1>3. Echoed = SentByServer \/ Echoed < SentByServer + Window
  BY WindowType DEF Echoed, SentByServer, InWrite, IInv, Numbers, CallsBounded, Procs,
     Undisturbed, ServerWindows
<1>4. SentByServer \in Nat
  BY DEF SentByServer, IInv, Numbers, Procs
<1> QED
  BY <1>1, <1>2, <1>3, <1>4, Books, WindowType DEF Undisturbed, Exchange

\* The steps that leave the counters and the queues alone.
UndisturbedLabels ==
    /\ UNCHANGED <<queue, moved, outstandingBytes, total, stats, quit>>
    /\ \/ /\ \E p \in Procs, l \in Starting \cup {"loop"} :
               pc[p] \in Starting /\ pc' = [pc EXCEPT ![p] = l]
          /\ UNCHANGED <<closed, canRead>>
       \/ /\ \E p \in Procs :
               /\ pc[p] = "loop" /\ pc' = [pc EXCEPT ![p] = "evaluate"]
               /\ total[p] >= MaxBytes \/ quit[p]
          /\ UNCHANGED <<closed, canRead>>
       \/ /\ pc["client"] = "loop" /\ pc' = [pc EXCEPT !["client"] = "read"]
          /\ total["client"] < MaxBytes /\ ~quit["client"]
          /\ canRead'["server"] = canRead["server"]
          /\ UNCHANGED closed
       \/ /\ pc["server"] = "loop" /\ pc' = [pc EXCEPT !["server"] = "read"]
          /\ total["server"] < MaxBytes
          /\ canRead'["server"] => queue["server"] > 0
          /\ UNCHANGED closed
       \/ /\ \E l \in {"reading", "account"} :
               pc["client"] = "read" /\ pc' = [pc EXCEPT !["client"] = l]
          /\ UNCHANGED <<closed, canRead>>
       \/ /\ pc["server"] = "read" /\ pc' = [pc EXCEPT !["server"] = "reading"]
          /\ outstandingBytes["server"] = 0
          /\ UNCHANGED <<closed, canRead>>
       \/ /\ pc["server"] = "read" /\ pc' = [pc EXCEPT !["server"] = "account"]
          /\ UNCHANGED <<closed, canRead>>
       \/ /\ \E p \in Procs, l \in {"done", "aborted"} :
               /\ pc[p] = "evaluate" /\ pc' = [pc EXCEPT ![p] = l]
               /\ closed' = closed \cup {p}
          /\ UNCHANGED canRead
       \/ UNCHANGED <<pc, closed, canRead>>

\* They change nothing of the argument.
LEMMA UndisturbedQuiet ==
    ASSUME IInv, ClosedEnds, Undisturbed, UndisturbedLabels
    PROVE  Undisturbed'
<1>a. /\ pc \in [Procs -> Labels] /\ moved \in [Procs -> Nat] /\ total \in [Procs -> Nat]
      /\ outstandingBytes \in [Procs -> Nat] /\ queue \in [Procs -> Nat]
      /\ closed \subseteq Procs
      /\ \A p \in Procs :
            pc[p] \notin {"reading", "account", "writing", "wrote"} => moved[p] = 0
  BY DEF IInv, Numbers, CallsBounded, ClosedEnds
<1> USE DEF UndisturbedLabels, Procs
<1>1. Ending'
  BY <1>a, WindowType DEF Undisturbed, Ending, Closing, Starting
<1>2. Passes'
  BY <1>a DEF Undisturbed, Ending, Passes, Closing, Starting
<1>3. ClientWindows'
  BY <1>a DEF Undisturbed, ClientWindows, Leaving, Starting
<1>4. ServerWindows'
  BY <1>a DEF Undisturbed, ServerWindows, Starting
<1>5. Exchange'
  <2>1. ReadByClient' = ReadByClient /\ SentByServer' = SentByServer
    BY <1>a DEF ReadByClient, SentByServer, Starting
  <2> QED
    BY <2>1 DEF Undisturbed, Exchange
<1>6. Answered'
  BY DEF Undisturbed, Answered, stats
<1> QED
  BY <1>1, <1>2, <1>3, <1>4, <1>5, <1>6 DEF Undisturbed

\* Start-up, polling, the decision to read and closing.
LEMMA UndisturbedQuietSteps ==
    ASSUME IInv, ClosedEnds, Handshake, Undisturbed,
           \/ ServerListen \/ ServerAnnounce \/ ServerAccept
           \/ ClientOpen \/ ClientHello \/ ClientConnect
           \/ Poll("client") \/ Poll("server") \/ ClientTryRead \/ ServerTryRead
           \/ ClientEvaluate \/ ServerEvaluate \/ UNCHANGED vars
    PROVE  Undisturbed'
<1> SUFFICES UndisturbedLabels
  BY UndisturbedQuiet
<1> USE DEF UndisturbedLabels, Goto, Procs, Starting, kernel, polled, window
<1>1. CASE \/ ServerListen \/ ServerAnnounce \/ ServerAccept \/ ClientOpen \/ ClientHello
  BY <1>1 DEF ServerListen, ServerAnnounce, ServerAccept, ClientOpen, ClientHello
<1>2. CASE ClientConnect
  <2>1. pc["client"] = "connect" /\ pc["server"] = "accept"
    BY <1>2 DEF ClientConnect, Handshake
  <2>2. connected'
    BY <1>2, <2>1, Zenon DEF ClientConnect
  <2>3. pc' = [pc EXCEPT !["client"] = "loop"]
    BY <1>2, <2>2, Zenon DEF ClientConnect
  <2> QED
    BY <1>2, <2>1, <2>3 DEF ClientConnect
<1>3. CASE Poll("client")
  <2>1. CASE LoopOver("client")
    BY <1>3, <2>1 DEF Poll, LoopOver
  <2>2. CASE ~LoopOver("client")
    <3>1. total["client"] < MaxBytes /\ ~quit["client"]
      BY <2>2, MaxBytesType DEF LoopOver, IInv, Numbers
    <3>2. canRead'["server"] = canRead["server"]
      BY <1>3, <2>2 DEF Poll, ClosedEnds
    <3> QED
      BY <1>3, <2>2, <3>1, <3>2 DEF Poll
  <2> QED
    BY <2>1, <2>2
<1>4. CASE Poll("server")
  <2>1. CASE LoopOver("server")
    BY <1>4, <2>1 DEF Poll, LoopOver
  <2>2. CASE ~LoopOver("server")
    <3>1. total["server"] < MaxBytes
      BY <2>2, MaxBytesType DEF LoopOver, IInv, Numbers
    <3>2. pc["server"] = "loop" /\ pc' = [pc EXCEPT !["server"] = "read"]
      BY <1>4, <2>2 DEF Poll
    <3>3. "client" \notin closed
      BY <3>1, <3>2, ClientStays
    <3>4. canRead'["server"] => queue["server"] > 0
      BY <1>4, <2>2, <3>3 DEF Poll, Readable, Other, ClosedEnds
    <3> QED
      BY <1>4, <2>2, <3>1, <3>2, <3>4 DEF Poll
  <2> QED
    BY <2>1, <2>2
<1>5. CASE ClientTryRead
  BY <1>5 DEF ClientTryRead, TryRead
<1>6. CASE ServerTryRead
  <2>1. pc["server"] = "read" /\ canRead["server"] => outstandingBytes["server"] = 0
    BY OneWindow DEF Undisturbed, ServerWindows
  <2> QED
    BY <1>6, <2>1 DEF ServerTryRead, TryRead
<1>7. CASE ClientEvaluate \/ ServerEvaluate
  BY <1>7 DEF ClientEvaluate, ServerEvaluate
<1>8. CASE UNCHANGED vars
  BY <1>8 DEF vars, stats
<1> QED
  BY <1>1, <1>2, <1>3, <1>4, <1>5, <1>6, <1>7, <1>8

\* The client's recv() takes a byte, and the last of a window ends the call.
LEMMA UndisturbedClientRead ==
    ASSUME IInv, ClosedEnds, Undisturbed, ClientRead
    PROVE  Undisturbed'
<1> DEFINE k == Least(queue["client"],
                      Least(Size, outstandingBytes["client"] - moved["client"]))
<1>a. /\ pc \in [Procs -> Labels] /\ queue \in [Procs -> Nat] /\ moved \in [Procs -> Nat]
      /\ pc["client"] = "reading"
      /\ moved["client"] < outstandingBytes["client"]
      /\ outstandingBytes["client"] \in Nat /\ moved["client"] \in Nat
      /\ UNCHANGED <<closed, quit, outstandingBytes, total, stats, canRead>>
  BY DEF IInv, Numbers, CallsBounded, ClientRead, read_from_socket, Procs, polled
<1>b. outstandingBytes["client"] = Window /\ ~quit["client"]
  BY <1>a, MaxBytesType DEF Undisturbed, Ending, Passes, ClientWindows, Leaving, Closing,
     IInv, Numbers, Procs
<1>c. queue["client"] > 0
  BY <1>a, AnswersLeft DEF ClientRead, read_from_socket, Readable, Other
<1>d. k \in Nat /\ k <= queue["client"] /\ moved["client"] + k <= Window
  BY <1>a, <1>b, ArgumentsAssumption, WindowType DEF Least, Procs
<1>e. /\ queue' = [queue EXCEPT !["client"] = queue["client"] - k]
      /\ moved' = [moved EXCEPT !["client"] = moved["client"] + k]
      /\ \/ pc' = pc /\ moved["client"] + k < Window
         \/ pc' = [pc EXCEPT !["client"] = "account"] /\ moved["client"] + k = Window
  <2>1. IF queue["client"] > 0 /\ moved["client"] + k < outstandingBytes["client"]
        THEN pc' = pc ELSE pc' = [pc EXCEPT !["client"] = "account"]
    BY DEF ClientRead, read_from_socket, Goto
  <2>2. /\ queue' = [queue EXCEPT !["client"] = queue["client"] - k]
        /\ moved' = [moved EXCEPT !["client"] = moved["client"] + k]
    BY DEF ClientRead, read_from_socket
  <2> HIDE DEF k
  <2> QED
    BY <1>a, <1>b, <1>c, <1>d, <2>1, <2>2, WindowType
<1> HIDE DEF k
<1>1. Ending'
  <2>1. \A p \in closed : p \in Procs /\ p # "client"
    BY <1>a DEF Undisturbed, Ending, ClosedEnds
  <2>2. \A p \in closed : pc'[p] = pc[p]
    BY <1>a, <1>e, <2>1
  <2> QED
    BY <1>a, <1>b, <2>2 DEF Undisturbed, Ending
<1>2. Passes'
  BY <1>a, <1>e DEF Undisturbed, Passes, Closing, Procs
<1>3. ClientWindows'
  BY <1>a, <1>b, <1>e DEF Undisturbed, ClientWindows, Procs
<1>4. ServerWindows'
  BY <1>a, <1>e DEF Undisturbed, ServerWindows, Procs
<1>5. Exchange'
  <2>1. SentByServer' = SentByServer /\ total["client"] \in Nat /\ SentByServer \in Nat
    BY <1>a, <1>e DEF SentByServer, IInv, Numbers, Procs
  <2>2. ReadByClient = total["client"]
    BY <1>a, <2>1 DEF ReadByClient
  <2>3. CASE pc' = pc
    BY <1>a, <2>1, <2>2, <2>3 DEF ReadByClient, Undisturbed, Exchange
  <2>4. CASE pc' = [pc EXCEPT !["client"] = "account"] /\ moved["client"] + k = Window
    <3>1. ReadByClient' = total["client"] + Window
      BY <1>a, <1>e, <2>4 DEF ReadByClient, Procs
    <3>2. SentByServer = ReadByClient + Window
      BY <1>a, <1>d, <2>4, AnswersInTurn DEF Procs
    <3> QED
      BY <2>1, <2>2, <3>1, <3>2, WindowType DEF Exchange
  <2> QED
    BY <1>e, <2>3, <2>4
<1>6. Answered'
  BY <1>a DEF Undisturbed, Answered, stats
<1> QED
  BY <1>1, <1>2, <1>3, <1>4, <1>5, <1>6 DEF Undisturbed

\* So does the server's.
LEMMA UndisturbedServerRead ==
    ASSUME IInv, ClosedEnds, Undisturbed, ServerRead
    PROVE  Undisturbed'
<1> DEFINE k == Least(queue["server"], Least(Size, toRead - moved["server"]))
<1>a. /\ pc \in [Procs -> Labels] /\ queue \in [Procs -> Nat] /\ moved \in [Procs -> Nat]
      /\ pc["server"] = "reading"
      /\ moved["server"] < toRead /\ moved["server"] \in Nat
      /\ UNCHANGED <<closed, quit, outstandingBytes, total, stats, canRead>>
  BY DEF IInv, Numbers, CallsBounded, ServerRead, read_from_socket, Procs, polled
<1>b. toRead = Window /\ outstandingBytes["server"] = 0 /\ total["server"] < MaxBytes
  BY <1>a, WindowType DEF Undisturbed, ServerWindows, Passes, toRead
<1>c. queue["server"] > 0
  BY <1>a, <1>b, ClientStays DEF ServerRead, read_from_socket, Readable, Other
<1>d. k \in Nat /\ k <= queue["server"] /\ moved["server"] + k <= Window
  BY <1>a, <1>b, ArgumentsAssumption, WindowType DEF Least, Procs
<1>e. /\ queue' = [queue EXCEPT !["server"] = queue["server"] - k]
      /\ moved' = [moved EXCEPT !["server"] = moved["server"] + k]
      /\ \/ pc' = pc /\ moved["server"] + k < Window
         \/ pc' = [pc EXCEPT !["server"] = "account"] /\ moved["server"] + k = Window
  <2>1. IF queue["server"] > 0 /\ moved["server"] + k < toRead
        THEN pc' = pc ELSE pc' = [pc EXCEPT !["server"] = "account"]
    BY DEF ServerRead, read_from_socket, Goto
  <2>2. /\ queue' = [queue EXCEPT !["server"] = queue["server"] - k]
        /\ moved' = [moved EXCEPT !["server"] = moved["server"] + k]
    BY DEF ServerRead, read_from_socket
  <2> HIDE DEF k
  <2> QED
    BY <1>a, <1>b, <1>c, <1>d, <2>1, <2>2, WindowType
<1> HIDE DEF k
<1>1. Ending'
  <2>1. \A p \in closed : p \in Procs /\ p # "server"
    BY <1>a DEF Undisturbed, Ending, ClosedEnds
  <2>2. /\ \A p \in closed : pc'[p] = pc[p]
        /\ pc'["client"] = pc["client"]
    BY <1>a, <1>e, <2>1 DEF Procs
  <2> QED
    BY <1>a, <2>2 DEF Undisturbed, Ending
<1>2. Passes'
  BY <1>a, <1>e DEF Undisturbed, Passes, Closing, Procs
<1>3. ClientWindows'
  BY <1>a, <1>e DEF Undisturbed, ClientWindows, Leaving, Procs
<1>4. ServerWindows'
  BY <1>a, <1>b, <1>e DEF Undisturbed, ServerWindows, Procs
<1>5. Exchange'
  <2>1. ReadByClient' = ReadByClient /\ SentByServer' = SentByServer
    BY <1>a, <1>e DEF SentByServer, ReadByClient, Procs
  <2> QED
    BY <2>1 DEF Undisturbed, Exchange
<1>6. Answered'
  BY <1>a DEF Undisturbed, Answered, stats
<1> QED
  BY <1>1, <1>2, <1>3, <1>4, <1>5, <1>6 DEF Undisturbed

\* A piece of the client's send(): the last of a window ends the call, and so
\* does a server that has left.
LEMMA UndisturbedClientWrite ==
    ASSUME IInv, ClosedEnds, Undisturbed, ClientWrite
    PROVE  Undisturbed'
<1>a. /\ pc \in [Procs -> Labels] /\ queue \in [Procs -> Nat] /\ moved \in [Procs -> Nat]
      /\ quit \in [Procs -> BOOLEAN]
      /\ pc["client"] = "writing" /\ outstandingBytes["client"] = 0
      /\ ClientFill = Window /\ moved["client"] < Window /\ moved["client"] \in Nat
      /\ UNCHANGED <<closed, outstandingBytes, total, stats, canRead>>
      /\ ~quit["client"]
  BY WindowType DEF IInv, Numbers, CallsBounded, ClientFill, ClientWrite, write_to_socket,
     Procs, Undisturbed, Ending, Closing, ClientWindows, ClosedEnds, polled
<1>b. /\ pc' = pc \/ pc' = [pc EXCEPT !["client"] = "wrote"]
      /\ moved'["server"] = moved["server"] /\ quit'["server"] = quit["server"]
      /\ queue'["server"] >= queue["server"]
  <2>1. CASE "server" \notin closed
    <3>1. PICK k \in 1..Least(Capacity - queue["server"],
                              Least(Size, ClientFill - moved["client"])) :
            /\ queue' = [queue EXCEPT !["server"] = @ + k]
            /\ moved' = [moved EXCEPT !["client"] = @ + k]
            /\ IF moved["client"] + k < ClientFill THEN UNCHANGED pc ELSE Goto("client", "wrote")
            /\ UNCHANGED quit
      BY <2>1 DEF ClientWrite, write_to_socket, Other
    <3> QED
      BY <1>a, <3>1 DEF Goto, Procs
  <2>2. CASE "server" \in closed
    BY <1>a, <2>2 DEF ClientWrite, write_to_socket, Other, Goto, Procs
  <2> QED
    BY <2>1, <2>2
<1>c. \/ /\ UNCHANGED quit
         /\ pc'["client"] = "wrote" => moved'["client"] = Window
      \/ "server" \in closed /\ pc'["client"] = "wrote"
  <2>1. CASE "server" \notin closed
    <3>1. PICK k \in 1..Least(Capacity - queue["server"],
                              Least(Size, ClientFill - moved["client"])) :
            /\ moved' = [moved EXCEPT !["client"] = @ + k]
            /\ IF moved["client"] + k < ClientFill THEN UNCHANGED pc ELSE Goto("client", "wrote")
            /\ UNCHANGED quit
      BY <2>1 DEF ClientWrite, write_to_socket, Other
    <3>2. k \in Nat /\ moved["client"] + k <= Window
      BY <1>a, <3>1, ArgumentsAssumption, KernelAssumption, WindowType DEF Least, Procs
    <3> QED
      BY <1>a, <3>1, <3>2, WindowType DEF Procs
  <2>2. CASE "server" \in closed
    BY <1>a, <2>2 DEF ClientWrite, write_to_socket, Other, Goto, Procs
  <2> QED
    BY <2>1, <2>2
<1>d. "server" \in closed => total["client"] >= MaxBytes
  BY <1>a, AllAnswered
<1>1. Ending'
  <2>1. \A p \in closed : p \in Procs /\ p # "client"
    BY <1>a DEF Undisturbed, Ending, ClosedEnds
  <2>2. \A p \in closed : pc'[p] = pc[p]
    BY <1>a, <1>b, <2>1
  <2> QED
    BY <1>a, <1>b, <1>c, <1>d, <2>2 DEF Undisturbed, Ending
<1>2. Passes'
  BY <1>a, <1>b DEF Undisturbed, Passes, Closing, Procs
<1>3. ClientWindows'
  <2>1. pc'["client"] = "wrote" => Leaving' \/ moved'["client"] = Window
    BY <1>a, <1>c, <1>d DEF Leaving
  <2> QED
    BY <1>a, <1>b, <2>1 DEF ClientWindows, Procs
<1>4. ServerWindows'
  <2>1. queue["server"] \in Nat /\ pc'["server"] = pc["server"]
    BY <1>a, <1>b DEF Procs
  <2>2. queue["server"] > 0 => queue'["server"] > 0
    BY <1>a, <1>b, <2>1 DEF ClientWrite, write_to_socket, Other, Procs
  <2> QED
    BY <1>a, <1>b, <2>1, <2>2 DEF Undisturbed, ServerWindows
<1>5. Exchange'
  <2>1. ReadByClient' = ReadByClient /\ SentByServer' = SentByServer
    BY <1>a, <1>b DEF SentByServer, ReadByClient, Procs
  <2> QED
    BY <2>1 DEF Undisturbed, Exchange
<1>6. Answered'
  BY <1>a DEF Undisturbed, Answered, stats
<1> QED
  BY <1>1, <1>2, <1>3, <1>4, <1>5, <1>6 DEF Undisturbed

\* A piece of the server's send().
LEMMA UndisturbedServerWrite ==
    ASSUME IInv, ClosedEnds, Undisturbed, ServerWrite
    PROVE  Undisturbed'
<1>a. /\ pc \in [Procs -> Labels] /\ queue \in [Procs -> Nat] /\ moved \in [Procs -> Nat]
      /\ pc["server"] = "writing" /\ outstandingBytes["server"] = Window
      /\ moved["server"] < Window /\ moved["server"] \in Nat
      /\ total["server"] < MaxBytes
      /\ UNCHANGED <<closed, outstandingBytes, total, stats, canRead>>
  BY DEF IInv, Numbers, CallsBounded, ServerWrite, write_to_socket, Procs, Undisturbed,
     ServerWindows, Passes, polled
<1>b. "client" \notin closed
  BY <1>a, ClientStays
<1>c. PICK k \in 1..Least(Capacity - queue["client"], Least(Size, Window - moved["server"])) :
        /\ queue' = [queue EXCEPT !["client"] = @ + k]
        /\ moved' = [moved EXCEPT !["server"] = @ + k]
        /\ IF moved["server"] + k < Window THEN pc' = pc
           ELSE pc' = [pc EXCEPT !["server"] = "wrote"]
        /\ UNCHANGED quit
  BY <1>a, <1>b DEF ServerWrite, write_to_socket, Other, Goto
<1>d. k \in Nat /\ moved["server"] + k <= Window
  BY <1>a, <1>c, ArgumentsAssumption, KernelAssumption, WindowType DEF Least, Procs
<1>e. /\ \/ pc' = pc
         \/ pc' = [pc EXCEPT !["server"] = "wrote"] /\ moved'["server"] = Window
      /\ moved'["client"] = moved["client"] /\ queue'["server"] = queue["server"]
  BY <1>a, <1>c, <1>d, WindowType DEF Procs
<1>1. Ending'
  <2>1. \A p \in closed : p \in Procs /\ p # "server"
    BY <1>a DEF Undisturbed, Ending, ClosedEnds
  <2>2. /\ \A p \in closed : pc'[p] = pc[p]
        /\ pc'["client"] = pc["client"]
    BY <1>a, <1>e, <2>1 DEF Procs
  <2> QED
    BY <1>a, <1>c, <2>2 DEF Undisturbed, Ending
<1>2. Passes'
  BY <1>a, <1>e DEF Undisturbed, Passes, Closing, Procs
<1>3. ClientWindows'
  BY <1>a, <1>c, <1>e DEF Undisturbed, ClientWindows, Leaving, Procs
<1>4. ServerWindows'
  BY <1>a, <1>e DEF Undisturbed, ServerWindows, Procs
<1>5. Exchange'
  <2>1. /\ ReadByClient' = ReadByClient /\ ReadByClient \in Nat
        /\ SentByServer = total["server"] /\ total["server"] \in Nat
    BY <1>a, <1>e DEF ReadByClient, SentByServer, IInv, Numbers, Procs
  <2>2. SentByServer = ReadByClient
    BY <1>a, EchoInTurn
  <2>3. SentByServer' \in {total["server"], total["server"] + Window}
    BY <1>a, <1>e, <2>1 DEF SentByServer, Procs
  <2> QED
    BY <2>1, <2>2, <2>3, WindowType DEF Exchange
<1>6. Answered'
  BY <1>a DEF Undisturbed, Answered, stats
<1> QED
  BY <1>1, <1>2, <1>3, <1>4, <1>5, <1>6 DEF Undisturbed

\* The client counts a whole window of answers, or nothing.
LEMMA UndisturbedClientAccount ==
    ASSUME IInv, ClosedEnds, Undisturbed, ClientAccount
    PROVE  Undisturbed'
<1> DEFINE n == moved["client"]
<1>a. /\ pc \in [Procs -> Labels] /\ moved \in [Procs -> Nat] /\ total \in [Procs -> Nat]
      /\ outstandingBytes \in [Procs -> Nat]
      /\ pc["client"] = "account" /\ ~quit["client"]
      /\ n \in {0, Window} /\ n \in {0, outstandingBytes["client"]}
      /\ outstandingBytes["client"] \in {0, Window}
  BY MaxBytesType DEF IInv, Numbers, ClientAccount, Procs, Undisturbed, Ending, Passes,
     Closing, ClientWindows, Leaving
<1>b. /\ outstandingBytes' = [outstandingBytes EXCEPT !["client"] = @ - n]
      /\ total' = [total EXCEPT !["client"] = @ + n]
      /\ moved' = [moved EXCEPT !["client"] = 0]
      /\ numReqsRead' = numReqsRead + wholeReqs(n)
      /\ \/ pc' = [pc EXCEPT !["client"] = "loop"]
         \/ /\ pc' = [pc EXCEPT !["client"] = "writing"]
            /\ outstandingBytes["client"] - n < Window
      /\ UNCHANGED <<queue, closed, quit, canRead>>
  BY DEF ClientAccount, Goto, kernel, polled
<1>1. Ending'
  <2>1. \A p \in closed : p \in Procs /\ p # "client"
    BY <1>a DEF Undisturbed, Ending, ClosedEnds
  <2>2. \A p \in closed : pc'[p] = pc[p]
    BY <1>a, <1>b, <2>1
  <2> QED
    BY <1>a, <1>b, <2>2 DEF Undisturbed, Ending
<1>2. Passes'
  BY <1>a, <1>b DEF Undisturbed, Passes, Closing, Procs
<1>3. ClientWindows'
  BY <1>a, <1>b, WindowType DEF Undisturbed, ClientWindows, Procs
<1>4. ServerWindows'
  BY <1>a, <1>b DEF Undisturbed, ServerWindows, Procs
<1>5. Exchange'
  <2>1. ReadByClient' = ReadByClient /\ SentByServer' = SentByServer
    BY <1>a, <1>b DEF SentByServer, ReadByClient, Procs
  <2> QED
    BY <2>1 DEF Undisturbed, Exchange
<1>6. Answered'
  <2>1. \/ n = 0 /\ wholeReqs(n) = 0
        \/ n = Size * Rate /\ wholeReqs(n) = Rate
    <3>1. Size * 0 = 0 /\ Window = Size * Rate
      BY ArgumentsAssumption DEF Window
    <3>2. wholeReqs(Size * 0) = 0 /\ wholeReqs(Size * Rate) = Rate
      BY DivExact, ArgumentsAssumption
    <3> QED
      BY <1>a, <3>1, <3>2
  <2>2. numReqsRead \in Nat /\ total["client"] = Size * numReqsRead
    BY DEF Undisturbed, Answered
  <2>3. total'["client"] = total["client"] + n
    BY <1>a, <1>b DEF Procs
  <2> HIDE DEF n
  <2>4. Size * (numReqsRead + wholeReqs(n)) = Size * numReqsRead + n
    BY <2>1, <2>2, ArgumentsAssumption
  <2> QED
    BY <1>b, <2>1, <2>2, <2>3, <2>4, ArgumentsAssumption DEF Answered
<1> QED
  BY <1>1, <1>2, <1>3, <1>4, <1>5, <1>6 DEF Undisturbed

\* The other accounts.
LEMMA UndisturbedAccounts ==
    ASSUME IInv, ClosedEnds, Undisturbed, ClientWrote \/ ServerAccount \/ ServerWrote
    PROVE  Undisturbed'
<1>a. /\ pc \in [Procs -> Labels] /\ moved \in [Procs -> Nat] /\ total \in [Procs -> Nat]
      /\ outstandingBytes \in [Procs -> Nat]
  BY DEF IInv, Numbers
<1>b. \/ /\ pc["client"] = "wrote" /\ pc' = [pc EXCEPT !["client"] = "loop"]
         /\ outstandingBytes' = [outstandingBytes EXCEPT !["client"] = @ + moved["client"]]
         /\ moved' = [moved EXCEPT !["client"] = 0]
         /\ UNCHANGED total
      \/ /\ pc["server"] = "account"
         /\ \/ pc' = [pc EXCEPT !["server"] = "loop"]
            \/ /\ pc' = [pc EXCEPT !["server"] = "writing"]
               /\ outstandingBytes["server"] + moved["server"] > 0
         /\ outstandingBytes' = [outstandingBytes EXCEPT !["server"] = @ + moved["server"]]
         /\ moved' = [moved EXCEPT !["server"] = 0]
         /\ UNCHANGED total
      \/ /\ pc["server"] = "wrote" /\ pc' = [pc EXCEPT !["server"] = "loop"]
         /\ outstandingBytes' = [outstandingBytes EXCEPT !["server"] = @ - moved["server"]]
         /\ moved' = [moved EXCEPT !["server"] = 0]
         /\ total' = [total EXCEPT !["server"] = @ + moved["server"]]
  BY DEF ClientWrote, ServerAccount, ServerWrote, Goto
<1>c. UNCHANGED <<queue, closed, quit, canRead, numReqsRead>>
  BY DEF ClientWrote, ServerAccount, ServerWrote, kernel, polled, stats
<1>1. Ending'
  <2>1. \A p \in closed : p \in Procs /\ pc[p] \in {"done", "aborted"}
    BY DEF Undisturbed, Ending, ClosedEnds
  <2>2. /\ \A p \in closed : pc'[p] = pc[p]
        /\ pc'["client"] \in {pc["client"], "loop"}
        /\ total'["client"] = total["client"]
    BY <1>a, <1>b, <2>1 DEF Procs
  <2> QED
    BY <1>c, <2>2 DEF Undisturbed, Ending, Closing
<1>2. Passes'
  BY <1>a, <1>b, WindowType, MaxBytesType
     DEF Undisturbed, Passes, ServerWindows, Closing, Procs
<1>3. ClientWindows'
  BY <1>a, <1>b, <1>c, WindowType DEF Undisturbed, ClientWindows, Leaving, Procs
<1>4. ServerWindows'
  BY <1>a, <1>b, <1>c, WindowType DEF Undisturbed, ServerWindows, Procs
<1>5. Exchange'
  <2>1. ReadByClient' = ReadByClient /\ SentByServer' = SentByServer
    BY <1>a, <1>b DEF SentByServer, ReadByClient, Procs
  <2> QED
    BY <2>1 DEF Undisturbed, Exchange
<1>6. Answered'
  BY <1>a, <1>b, <1>c DEF Undisturbed, Answered, Procs
<1> QED
  BY <1>1, <1>2, <1>3, <1>4, <1>5, <1>6 DEF Undisturbed

\* Start-up takes its steps in order, and nothing later touches it.
LEMMA HandshakeStep ==
    ASSUME IInv, Handshake, [Client \/ Server]_vars
    PROVE  Handshake'
<1>a. pc \in [Procs -> Labels]
  BY DEF IInv, Numbers
<1>1. CASE ServerListen \/ ServerAnnounce \/ ServerAccept
  BY <1>1, <1>a DEF ServerListen, ServerAnnounce, ServerAccept, Goto, Handshake, startup, Procs
<1>2. CASE ClientOpen \/ ClientHello \/ ClientConnect
  <2>1. CASE ClientOpen \/ ClientHello
    BY <2>1, <1>a DEF ClientOpen, ClientHello, Goto, Handshake, startup, Procs
  <2>2. CASE ClientConnect
    <3>1. /\ pc["client"] = "connect" /\ pc["server"] = "accept" /\ ~hello
      BY <2>2 DEF ClientConnect, Handshake
    <3>2. connected' /\ UNCHANGED hello
      BY <2>2, <3>1, Zenon DEF ClientConnect
    <3>3. pc' = [pc EXCEPT !["client"] = "loop"]
      BY <2>2, <3>2, Zenon DEF ClientConnect, Goto
    <3> QED
      BY <1>a, <3>1, <3>2, <3>3 DEF Handshake, Procs
  <2> QED
    BY <1>2, <2>1, <2>2
<1>3. CASE \/ /\ UNCHANGED startup
              /\ \E p \in Procs, l \in Running \cup {"done", "aborted"} :
                    pc[p] \in Running /\ pc' = [pc EXCEPT ![p] = l]
           \/ UNCHANGED <<startup, pc>>
  BY <1>3, <1>a DEF Handshake, startup, Running, Procs
<1> HIDE DEF Handshake
<1>4. CASE Poll("client") \/ Poll("server") \/ ClientTryRead \/ ServerTryRead
  BY <1>3, <1>4 DEF Poll, ClientTryRead, ServerTryRead, TryRead, Goto, Running, Procs
<1>5. CASE ClientRead \/ ServerRead
  BY <1>3, <1>5 DEF ClientRead, ServerRead, read_from_socket, Goto, Running, Procs
<1>6. CASE ClientWrite \/ ServerWrite
  BY <1>3, <1>6 DEF ClientWrite, ServerWrite, write_to_socket, Goto, Running, Procs
<1>7. CASE ClientAccount \/ ServerAccount \/ ClientWrote \/ ServerWrote
  BY <1>3, <1>7 DEF ClientAccount, ServerAccount, ClientWrote, ServerWrote, Goto,
     Running, Procs
<1>8. CASE ClientEvaluate \/ ServerEvaluate
  BY <1>3, <1>8 DEF ClientEvaluate, ServerEvaluate, Goto, Running, Procs
<1>9. CASE UNCHANGED vars
  BY <1>3, <1>9 DEF vars, startup
<1> QED
  BY <1>1, <1>2, <1>4, <1>5, <1>6, <1>7, <1>8, <1>9 DEF Client, Server

\* A step of the programs without a signal.
LEMMA UndisturbedStep ==
    ASSUME IInv, ClosedEnds, Handshake, Undisturbed, [Client \/ Server]_vars
    PROVE  Undisturbed'
<1>1. CASE \/ ServerListen \/ ServerAnnounce \/ ServerAccept
           \/ ClientOpen \/ ClientHello \/ ClientConnect
           \/ Poll("client") \/ Poll("server") \/ ClientTryRead \/ ServerTryRead
           \/ ClientEvaluate \/ ServerEvaluate \/ UNCHANGED vars
  BY <1>1, UndisturbedQuietSteps
<1>2. CASE ClientRead \/ ServerRead \/ ClientWrite \/ ServerWrite
  BY <1>2, UndisturbedClientRead, UndisturbedServerRead, UndisturbedClientWrite,
     UndisturbedServerWrite
<1>3. CASE ClientAccount \/ ClientWrote \/ ServerAccount \/ ServerWrote
  BY <1>3, UndisturbedClientAccount, UndisturbedAccounts
<1> QED
  BY <1>1, <1>2, <1>3 DEF Client, Server

\* Who was told to quit stays so, and who closed stays closed.
LEMMA Forever ==
    ASSUME IInv, ClosedEnds, [Next]_vars
    PROVE  /\ closed \subseteq closed'
           /\ \A q \in Procs : quit[q] => quit'[q]
<1>a. quit \in [Procs -> BOOLEAN]
  BY DEF ClosedEnds
<1>1. \/ UNCHANGED <<closed, quit>>
      \/ \E p \in Procs : closed' = closed \cup {p} /\ UNCHANGED quit
      \/ \E p \in Procs : quit' = [quit EXCEPT ![p] = TRUE] /\ UNCHANGED closed
  <2>1. CASE \/ ServerListen \/ ServerAnnounce \/ ServerAccept
             \/ ClientOpen \/ ClientHello \/ ClientConnect
    BY <2>1 DEF ServerListen, ServerAnnounce, ServerAccept, ClientOpen, ClientHello,
       ClientConnect, kernel
  <2>2. CASE \E p \in Procs : Poll(p) \/ quit_signal_handler(p) \/ SleepInterrupted(p)
    BY <2>2 DEF Poll, quit_signal_handler, SleepInterrupted, kernel
  <2>3. CASE ClientTryRead \/ ServerTryRead \/ ClientRead \/ ServerRead
    BY <2>3 DEF ClientTryRead, ServerTryRead, TryRead, ClientRead, ServerRead,
       read_from_socket, kernel
  <2>4. CASE ClientWrite \/ ServerWrite
    BY <2>4 DEF ClientWrite, ServerWrite, write_to_socket, Procs
  <2>5. CASE ClientAccount \/ ClientWrote \/ ServerAccount \/ ServerWrote
    BY <2>5 DEF ClientAccount, ClientWrote, ServerAccount, ServerWrote, kernel
  <2>6. CASE ClientEvaluate \/ ServerEvaluate \/ \E p \in Procs : Killed(p)
    BY <2>6 DEF ClientEvaluate, ServerEvaluate, Killed, Procs
  <2>7. CASE UNCHANGED vars
    BY <2>7 DEF vars
  <2> QED
    BY <2>1, <2>2, <2>3, <2>4, <2>5, <2>6, <2>7 DEF Next, Client, Server, Signal, Procs
<1> QED
  BY <1>1, <1>a

\* An interrupted run shows it: someone has been told to quit or has closed.
SignalSeen == signalled => closed # {} \/ \E q \in Procs : quit[q]

\* evaluateClient's assertion holds: the client evaluates after MaxBytes, so it
\* has read Count requests and the count is positive.
NoAbort == \A p \in Procs : pc[p] # "aborted"

\* No step of either program breaks it.
LEMMA NoAbortStep ==
    ASSUME IInv, Undisturbed, NoAbort, [Client \/ Server]_vars
    PROVE  NoAbort'
<1> USE DEF NoAbort, Goto
<1>0. DOMAIN pc = Procs
  BY DEF IInv, Numbers
<1>1. CASE ClientEvaluate
  <2>1. /\ numReqsRead \in Nat /\ total["client"] >= MaxBytes
        /\ total["client"] = Size * numReqsRead
    BY <1>1 DEF ClientEvaluate, Undisturbed, Passes, Closing, Answered, Procs
  <2>2. Count <= numReqsRead
    BY <2>1, Cancel, ArgumentsAssumption DEF MaxBytes
  <2>3. ReportedCount > 0
    BY <2>1, <2>2, ArgumentsAssumption DEF ReportedCount, Least
  <2> QED
    BY <1>0, <1>1, <2>3 DEF ClientEvaluate
<1>2. CASE \/ ServerListen \/ ServerAnnounce \/ ServerAccept
           \/ ClientOpen \/ ClientHello \/ ClientConnect
  BY <1>0, <1>2 DEF ServerListen, ServerAnnounce, ServerAccept, ClientOpen, ClientHello,
     ClientConnect
<1>3. CASE \E p \in Procs : Poll(p)
  BY <1>0, <1>3 DEF Poll
<1>4. CASE ClientTryRead \/ ServerTryRead \/ ServerEvaluate
  BY <1>0, <1>4 DEF ClientTryRead, ServerTryRead, TryRead, ServerEvaluate
<1>5. CASE ClientRead \/ ServerRead
  BY <1>0, <1>5 DEF ClientRead, ServerRead, read_from_socket
<1>6. CASE ClientWrite \/ ServerWrite
  BY <1>0, <1>6 DEF ClientWrite, ServerWrite, write_to_socket
<1>7. CASE ClientAccount \/ ClientWrote \/ ServerAccount \/ ServerWrote
  BY <1>0, <1>7 DEF ClientAccount, ClientWrote, ServerAccount, ServerWrote
<1>8. CASE UNCHANGED vars
  BY <1>8 DEF vars
<1> QED
  BY <1>1, <1>2, <1>3, <1>4, <1>5, <1>6, <1>7, <1>8 DEF Client, Server, Procs

MCInv ==
    /\ IInv /\ ClosedEnds /\ SignalSeen
    /\ ~signalled => Handshake /\ Undisturbed /\ NoAbort

\* The run keeps it.
LEMMA MCInvariance == MCSpec => []MCInv
<1>1. MCInit => MCInv
  <2> SUFFICES ASSUME Init, signalled = FALSE PROVE MCInv
    BY DEF MCInit
  <2>1. /\ pc["client"] = "open" /\ pc["server"] = "listen" /\ ~hello /\ ~connected
        /\ closed = {} /\ quit = [p \in Procs |-> FALSE] /\ DOMAIN canRead = Procs
        /\ total["client"] = 0 /\ total["server"] = 0
        /\ outstandingBytes["client"] = 0 /\ outstandingBytes["server"] = 0
        /\ numReqsRead = 0
    BY DEF Init, Procs
  <2>2. ClosedEnds /\ Handshake /\ Ending
    BY <2>1 DEF ClosedEnds, Handshake, Ending, Procs
  <2>3. Passes
    BY <2>1, WindowType, MaxBytesType DEF Passes, Closing, Procs
  <2>4. ClientWindows /\ ServerWindows
    BY <2>1 DEF ClientWindows, ServerWindows
  <2>5. Exchange /\ Answered
    BY <2>1, ArgumentsAssumption DEF Exchange, Answered, ReadByClient, SentByServer
  <2>6. NoAbort
    BY <2>1 DEF NoAbort, Procs
  <2> QED
    BY <2>2, <2>3, <2>4, <2>5, <2>6, InitIInv DEF MCInv, Undisturbed, SignalSeen
<1>2. MCInv /\ [MCNext]_mcvars => MCInv'
  <2> SUFFICES ASSUME MCInv, [MCNext]_mcvars PROVE MCInv'
    OBVIOUS
  <2>1. [Next]_vars
    BY DEF MCNext, mcvars, Next
  <2>2. IInv' /\ ClosedEnds'
    BY <2>1, NextStep, ClosedStep DEF MCInv
  <2>3. SignalSeen'
    <3>1. CASE Signal
      <4>1. \E p \in Procs : p \in closed' \/ quit'[p]
        BY <3>1 DEF Signal, Killed, quit_signal_handler, SleepInterrupted, MCInv, ClosedEnds
      <4> QED
        BY <4>1 DEF SignalSeen
    <3>2. CASE UNCHANGED signalled
      BY <3>2, <2>1, Forever DEF SignalSeen, MCInv
    <3> QED
      BY <3>1, <3>2 DEF MCNext, mcvars
  <2>4. ASSUME ~signalled' PROVE Handshake' /\ Undisturbed' /\ NoAbort'
    <3>1. ~signalled /\ [Client \/ Server]_vars
      BY <2>4 DEF MCNext, mcvars
    <3> QED
      BY <3>1, HandshakeStep, UndisturbedStep, NoAbortStep DEF MCInv
  <2> QED
    BY <2>2, <2>3, <2>4 DEF MCInv
<1> QED
  BY <1>1, <1>2, PTL DEF MCSpec, mcvars

\* All or none of a window is outstanding at the top of a loop that was not
\* told to quit, for every capacity of the sockets.
THEOREM WindowsAreWhole == MCSpec => []WholeWindows
<1>1. MCInv => WholeWindows
  <2> SUFFICES ASSUME MCInv, NEW p \in Procs, closed = {}, \A q \in Procs : ~quit[q]
               PROVE  outstandingBytes[p] \in {0, Window}
    BY DEF WholeWindows
  <2>1. ~signalled
    BY DEF MCInv, SignalSeen
  <2>2. ClientWindows /\ ServerWindows
    BY <2>1 DEF MCInv, Undisturbed
  <2> QED
    BY <2>2 DEF ClientWindows, Leaving, ServerWindows, Procs
<1> QED
  BY <1>1, MCInvariance, PTL

\* A run that nobody interrupts connects, its client does not abort, and when it
\* is over every request has been answered, read and counted.
THEOREM RunIsComplete == MCSpec => []Complete
<1>1. MCInv => Complete
  <2> SUFFICES ASSUME MCInv, ~signalled PROVE Complete
    BY DEF Complete
  <2>1. IInv /\ Handshake /\ Undisturbed /\ NoAbort
    BY DEF MCInv
  <2>2. \A p \in Procs : pc[p] \notin {"dead", "aborted"}
    BY <2>1 DEF Handshake, NoAbort
  <2>3. ASSUME \A p \in Procs : pc[p] = "done"
        PROVE  /\ ReportedCount = Count
               /\ total["client"] = total["server"]
               /\ queue["client"] = 0
    <3>1. /\ pc["client"] = "done" /\ pc["server"] = "done"
          /\ total["client"] \in Nat /\ total["server"] \in Nat
          /\ total["client"] >= MaxBytes /\ total["server"] < MaxBytes + Window
      BY <2>1, <2>3 DEF IInv, Numbers, Undisturbed, Passes, Closing, Procs
    <3>2. /\ ReadByClient = total["client"] /\ SentByServer = total["server"]
          /\ Received = total["client"] /\ Echoed = total["server"]
      BY <3>1 DEF ReadByClient, SentByServer, Received, Echoed, InRead, InWrite
    <3>3. total["client"] = total["server"]
      BY <2>1, <3>1, <3>2, MaxBytesType, WindowType DEF Undisturbed, Exchange
    <3>4. queue["client"] = 0
      BY <2>1, <3>1, <3>2, <3>3, Books
    <3>5. numReqsRead \in Nat /\ Size * Count <= Size * numReqsRead
      BY <2>1, <3>1 DEF Undisturbed, Answered, MaxBytes
    <3>6. Count <= numReqsRead
      BY <3>5, Cancel, ArgumentsAssumption
    <3>7. ReportedCount = Count
      BY <3>5, <3>6, ArgumentsAssumption DEF ReportedCount, Least
    <3> QED
      BY <3>3, <3>4, <3>7
  <2> QED
    BY <2>2, <2>3 DEF Complete
<1> QED
  BY <1>1, MCInvariance, PTL
=============================================================================
