----------------------------- MODULE TcpProofs -----------------------------
(***************************************************************************)
(* Theorems about Tcp, for every request size, rate and count, every size  *)
(* of the socket buffers, every segmentation and every set of interrupted  *)
(* processes; and about Stats, the report evaluateClient makes of the      *)
(* times, for every number of times.                                       *)
(***************************************************************************)
EXTENDS MCTcp, Stats, FiniteSetTheorems, TLAPS

\* The counters of FlowControl.
Sent == total["client"] + outstandingBytes["client"] + InWrite("client")
Accepted == total["server"] + outstandingBytes["server"] + InRead("server")
Echoed == total["server"] + InWrite("server")
Received == total["client"] + InRead("client")

\* Requests and answers on their way.
Requests == snd["client"] + rcv["server"]
Answers == snd["server"] + rcv["client"]

Labels == Starting \cup Running \cup Ended

\* The counters are natural numbers: no subtraction of communicate wraps.
Numbers ==
    /\ pc \in [Procs -> Labels]
    /\ snd \in [Procs -> 0..SndCap]
    /\ rcv \in [Procs -> Nat]
    /\ lost \in Nat
    /\ moved \in [Procs -> Nat]
    /\ outstandingBytes \in [Procs -> Nat]
    /\ total \in [Procs -> Nat]

\* A call in progress has not moved more than it was asked to move, and
\* nothing counts as moved outside the calls.
CallsBounded ==
    /\ \A p \in Procs :
          pc[p] \notin {"reading", "account", "writing", "wrote"} => moved[p] = 0
    /\ pc["client"] = "reading" => moved["client"] < outstandingBytes["client"]
    /\ pc["client"] = "account" => moved["client"] <= outstandingBytes["client"]
    /\ pc["client"] = "writing" => moved["client"] < ClientFill
    /\ pc["client"] = "wrote" => moved["client"] <= ClientFill
    /\ pc["server"] = "reading" => moved["server"] < toRead
    /\ pc["server"] = "writing" => moved["server"] < outstandingBytes["server"]
    /\ pc["server"] = "wrote" => moved["server"] <= outstandingBytes["server"]
    /\ outstandingBytes["client"] <= Window

\* What was sent and not taken is on its way or was dropped.  A reset drops
\* requests and answers together, so each direction has a bound only.
BuffersAgree ==
    /\ Requests <= Sent - Accepted
    /\ Answers <= Echoed - Received
    /\ Requests + Answers + lost = (Sent - Accepted) + (Echoed - Received)

IInv == Numbers /\ CallsBounded /\ BuffersAgree

\* malloc(bufferSize) asks for a positive number of bytes.
LEMMA WindowType == Window \in Nat \ {0}
BY ArgumentsAssumption DEF Window

\* The counters of FlowControl are numbers too.
LEMMA CountersType ==
    ASSUME Numbers
    PROVE  /\ Sent \in Nat /\ Accepted \in Nat /\ Echoed \in Nat /\ Received \in Nat
           /\ Requests \in Nat /\ Answers \in Nat /\ lost \in Nat
BY KernelAssumption DEF Numbers, Sent, Accepted, Echoed, Received, Requests, Answers,
   InRead, InWrite, Procs

\* A step that moves s, a, e or r bytes from one counter of FlowControl to the
\* next, and may drop x and y bytes on their way, implements FlowControl.
LEMMA FlowStep ==
    ASSUME IInv, Numbers', CallsBounded',
           NEW s \in Nat, NEW a \in Nat, NEW e \in Nat, NEW r \in Nat,
           NEW x \in Nat, NEW y \in Nat,
           \/ a = 0 /\ e = 0 /\ r = 0
           \/ s = 0 /\ e = 0 /\ r = 0
           \/ s = 0 /\ a = 0 /\ r = 0
           \/ s = 0 /\ a = 0 /\ e = 0,
           e <= Accepted - Echoed,
           Sent' = Sent + s, Accepted' = Accepted + a,
           Echoed' = Echoed + e, Received' = Received + r,
           Requests' = Requests + s - a - x,
           Answers' = Answers + e - r - y,
           lost' = lost + x + y,
           Requests' \in Nat, Answers' \in Nat
    PROVE  IInv' /\ [Flow!Next]_(Flow!vars)
<1>1. /\ Sent \in Nat /\ Accepted \in Nat /\ Echoed \in Nat /\ Received \in Nat
      /\ Sent' <= Received' + Window
      /\ Requests \in Nat /\ Answers \in Nat /\ lost \in Nat
  <2>1. Sent' <= Received' + Window
    BY WindowType DEF Numbers, CallsBounded, Sent, Received, InRead, InWrite,
                      ClientFill, Procs
  <2> QED
    BY <2>1, CountersType DEF IInv
<1>2. BuffersAgree'
  BY <1>1 DEF IInv, BuffersAgree
<1>3. /\ Flow!Send <=> /\ Sent' \in (Sent + 1)..(Received + Window)
                       /\ UNCHANGED <<Accepted, Echoed, Received>>
      /\ Flow!Accept <=> /\ Accepted' \in (Accepted + 1)..Sent
                         /\ UNCHANGED <<Sent, Echoed, Received>>
      /\ Flow!Echo <=> /\ Echoed' \in (Echoed + 1)..Accepted
                       /\ UNCHANGED <<Sent, Accepted, Received>>
      /\ Flow!Receive <=> /\ Received' \in (Received + 1)..Echoed
                          /\ UNCHANGED <<Sent, Accepted, Echoed>>
      /\ UNCHANGED Flow!vars <=> UNCHANGED <<Sent, Accepted, Echoed, Received>>
  BY DEF Flow!Send, Flow!Accept, Flow!Echo, Flow!Receive, Flow!vars,
         Sent, Accepted, Echoed, Received
<1>4. [Flow!Next]_(Flow!vars)
  <2> USE WindowType, <1>1, <1>3
  <2>1. CASE s = 0 /\ a = 0 /\ e = 0 /\ r = 0
    BY <2>1
  <2>2. CASE s > 0
    BY <2>2 DEF Flow!Next
  <2>3. CASE a > 0
    BY <2>3 DEF Flow!Next, IInv, BuffersAgree
  <2>4. CASE e > 0
    BY <2>4 DEF Flow!Next
  <2>5. CASE r > 0
    BY <2>5 DEF Flow!Next, IInv, BuffersAgree
  <2> QED
    BY <2>1, <2>2, <2>3, <2>4, <2>5
<1> QED
  BY <1>2, <1>4 DEF IInv

\* A step that changes no counter of FlowControl: the bytes on their way stay
\* there, or x and y of them are dropped.
LEMMA CountStep ==
    ASSUME IInv, Numbers', CallsBounded',
           UNCHANGED <<Sent, Accepted, Echoed, Received>>,
           NEW x \in Nat, NEW y \in Nat,
           Requests' = Requests - x, Answers' = Answers - y, lost' = lost + x + y,
           Requests' \in Nat, Answers' \in Nat
    PROVE  IInv' /\ [Flow!Next]_(Flow!vars)
<1>1. /\ Sent' = Sent + 0 /\ Accepted' = Accepted + 0
      /\ Echoed' = Echoed + 0 /\ Received' = Received + 0
      /\ Requests' = Requests + 0 - 0 - x
      /\ Answers' = Answers + 0 - 0 - y
  BY CountersType DEF IInv
<1>2. 0 <= Accepted - Echoed
  BY DEF IInv, Numbers, CallsBounded, Accepted, Echoed, InRead, InWrite, Procs
<1> QED
  BY <1>1, <1>2, FlowStep
-----------------------------------------------------------------------------
\* A step that leaves the connection alone drops nothing.
LEMMA SameBuffers ==
    ASSUME IInv, UNCHANGED <<snd, rcv, lost>>
    PROVE  /\ Requests' = Requests - 0 /\ Answers' = Answers - 0
           /\ lost' = lost + 0 + 0
           /\ Requests' \in Nat /\ Answers' \in Nat
<1>1. Requests' = Requests /\ Answers' = Answers
  BY DEF Requests, Answers
<1> QED
  BY <1>1, CountersType DEF IInv

\* A reset drops what is in the send buffers.
LEMMA ResetBuffers ==
    ASSUME IInv, NEW q \in Procs, Reset(q), UNCHANGED rcv
    PROVE  /\ snd' \in [Procs -> 0..SndCap] /\ lost' \in Nat
           /\ snd["client"] \in Nat /\ snd["server"] \in Nat
           /\ Requests' = Requests - snd["client"]
           /\ Answers' = Answers - snd["server"]
           /\ lost' = lost + snd["client"] + snd["server"]
           /\ Requests' \in Nat /\ Answers' \in Nat
<1>1. /\ snd["client"] \in 0..SndCap /\ snd["server"] \in 0..SndCap
      /\ rcv["client"] \in Nat /\ rcv["server"] \in Nat /\ lost \in Nat
      /\ snd'["client"] = 0 /\ snd'["server"] = 0
      /\ lost' = lost + snd["client"] + snd["server"]
      /\ snd' = [p \in Procs |-> 0]
  BY DEF IInv, Numbers, Reset, Procs
<1>2. /\ Requests' = rcv["server"] /\ Answers' = rcv["client"]
  BY <1>1 DEF Requests, Answers
<1> QED
  BY <1>1, <1>2, KernelAssumption DEF Requests, Answers

\* Where the steps take a process that move no byte to or from the connection.
QuietLabels ==
    \/ \E p \in Procs, l \in Labels \ {"reading", "account", "writing", "wrote"} :
         /\ pc[p] \notin {"reading", "account", "writing", "wrote"}
         /\ pc' = [pc EXCEPT ![p] = l]
    \/ \E p \in Procs : pc[p] = "read" /\ pc' = [pc EXCEPT ![p] = "account"]
    \/ /\ pc["client"] = "read" /\ pc' = [pc EXCEPT !["client"] = "reading"]
       /\ outstandingBytes["client"] > 0
    \/ /\ pc["server"] = "read" /\ pc' = [pc EXCEPT !["server"] = "reading"]
       /\ toRead > 0
    \/ UNCHANGED pc

\* Such a step leaves the counters alone.
LEMMA QuietCounters ==
    ASSUME IInv, QuietLabels, UNCHANGED <<moved, outstandingBytes, total>>,
           snd' \in [Procs -> 0..SndCap], rcv' \in [Procs -> Nat], lost' \in Nat
    PROVE  Numbers' /\ CallsBounded' /\ UNCHANGED <<Sent, Accepted, Echoed, Received>>
<1> USE DEF QuietLabels
<1>1. Numbers'
  BY DEF IInv, Numbers, Labels, Starting, Running, Ended, Procs
<1>2. CallsBounded'
  BY WindowType DEF IInv, Numbers, CallsBounded, ClientFill, toRead, Procs
<1>3. \A p \in Procs : InRead(p)' = InRead(p) /\ InWrite(p)' = InWrite(p)
  BY DEF IInv, Numbers, CallsBounded, InRead, InWrite, Procs
<1>4. UNCHANGED <<Sent, Accepted, Echoed, Received>>
  BY <1>3 DEF Sent, Accepted, Echoed, Received, Procs
<1> QED
  BY <1>1, <1>2, <1>4

\* Start-up, polling, the decision to read and quit_signal_handler leave the
\* connection alone.
LEMMA QuietSteps ==
    ASSUME IInv,
           \/ ServerListen \/ ServerAnnounce \/ ServerAccept
           \/ ClientOpen \/ ClientHello \/ ClientConnect
           \/ ClientTryRead \/ ServerTryRead
           \/ \E p \in Procs : Poll(p) \/ quit_signal_handler(p)
    PROVE  IInv' /\ [Flow!Next]_(Flow!vars)
<1>1. UNCHANGED <<snd, rcv, lost, moved, outstandingBytes, total>>
  BY DEF ServerListen, ServerAnnounce, ServerAccept, ClientOpen, ClientHello,
         ClientConnect, ClientTryRead, ServerTryRead, TryRead, Poll,
         quit_signal_handler, window, kernel
<1>2. QuietLabels
  <2> USE DEF QuietLabels, Goto, Procs, Labels, Starting, Running, Ended
  <2>1. CASE \/ ServerListen \/ ServerAnnounce \/ ServerAccept
             \/ ClientOpen \/ ClientHello
    BY <2>1 DEF ServerListen, ServerAnnounce, ServerAccept, ClientOpen, ClientHello
  <2>2. CASE ClientConnect
    BY <2>2 DEF ClientConnect
  <2>3. CASE ClientTryRead \/ ServerTryRead
    BY <2>3 DEF ClientTryRead, ServerTryRead, TryRead
  <2>4. CASE \E p \in Procs : Poll(p) \/ quit_signal_handler(p)
    BY <2>4 DEF Poll, quit_signal_handler
  <2> QED
    BY <2>1, <2>2, <2>3, <2>4
<1>3. snd' \in [Procs -> 0..SndCap] /\ rcv' \in [Procs -> Nat] /\ lost' \in Nat
  BY <1>1 DEF IInv, Numbers
<1>4. Numbers' /\ CallsBounded' /\ UNCHANGED <<Sent, Accepted, Echoed, Received>>
  BY <1>1, <1>2, <1>3, QuietCounters
<1> QED
  BY <1>1, <1>4, SameBuffers, CountStep

\* close() may drop what is on its way.
LEMMA CloseSteps ==
    ASSUME IInv, ClientEvaluate \/ ServerEvaluate \/ \E p \in Procs : Killed(p)
    PROVE  IInv' /\ [Flow!Next]_(Flow!vars)
<1>1. UNCHANGED <<rcv, moved, outstandingBytes, total>>
  BY DEF ClientEvaluate, ServerEvaluate, Killed, Close, window
<1>2. QuietLabels
  BY DEF ClientEvaluate, ServerEvaluate, Killed, QuietLabels, Goto, Procs, Labels,
         Starting, Running, Ended
<1>3. PICK p \in Procs : Close(p)
  BY DEF ClientEvaluate, ServerEvaluate, Killed, Procs
<1>4. rcv' \in [Procs -> Nat]
  BY <1>1 DEF IInv, Numbers
<1>5. CASE Reset(Other(p))
  <2>1. Other(p) \in Procs
    BY DEF Other, Procs
  <2>2. /\ snd' \in [Procs -> 0..SndCap] /\ lost' \in Nat
        /\ snd["client"] \in Nat /\ snd["server"] \in Nat
        /\ Requests' = Requests - snd["client"]
        /\ Answers' = Answers - snd["server"]
        /\ lost' = lost + snd["client"] + snd["server"]
        /\ Requests' \in Nat /\ Answers' \in Nat
    BY <1>1, <1>5, <2>1, ResetBuffers
  <2>3. Numbers' /\ CallsBounded' /\ UNCHANGED <<Sent, Accepted, Echoed, Received>>
    BY <1>1, <1>2, <1>4, <2>2, QuietCounters
  <2> QED
    BY <2>2, <2>3, CountStep
<1>6. CASE ~Reset(Other(p))
  <2>1. UNCHANGED <<snd, lost>>
    BY <1>3, <1>6 DEF Close
  <2>2. snd' \in [Procs -> 0..SndCap] /\ lost' \in Nat
    BY <2>1 DEF IInv, Numbers
  <2>3. Numbers' /\ CallsBounded' /\ UNCHANGED <<Sent, Accepted, Echoed, Received>>
    BY <1>1, <1>2, <1>4, <2>2, QuietCounters
  <2> QED
    BY <1>1, <2>1, <2>3, SameBuffers, CountStep
<1> QED
  BY <1>5, <1>6

\* A segment carries bytes from a send buffer to a receive buffer, or meets a
\* closed socket.
LEMMA DeliverStep ==
    ASSUME IInv, NEW p \in Procs, Deliver(p)
    PROVE  IInv' /\ [Flow!Next]_(Flow!vars)
<1>1. UNCHANGED <<pc, moved, outstandingBytes, total>>
  BY DEF Deliver, window
<1>2. QuietLabels
  BY <1>1 DEF QuietLabels
<1>3. CASE Other(p) \in closed
  <2>1. Reset(p) /\ UNCHANGED rcv
    BY <1>3 DEF Deliver
  <2>2. /\ snd' \in [Procs -> 0..SndCap] /\ lost' \in Nat
        /\ snd["client"] \in Nat /\ snd["server"] \in Nat
        /\ Requests' = Requests - snd["client"]
        /\ Answers' = Answers - snd["server"]
        /\ lost' = lost + snd["client"] + snd["server"]
        /\ Requests' \in Nat /\ Answers' \in Nat
    BY <2>1, ResetBuffers
  <2>3. rcv' \in [Procs -> Nat]
    BY <2>1 DEF IInv, Numbers
  <2>4. Numbers' /\ CallsBounded' /\ UNCHANGED <<Sent, Accepted, Echoed, Received>>
    BY <1>1, <1>2, <2>2, <2>3, QuietCounters
  <2> QED
    BY <2>2, <2>4, CountStep
<1>4. CASE Other(p) \notin closed
  <2>1. PICK k \in 1..Least(snd[p], RcvCap - rcv[Other(p)]) :
          /\ snd' = [snd EXCEPT ![p] = snd[p] - k]
          /\ rcv' = [rcv EXCEPT ![Other(p)] = rcv[Other(p)] + k]
    BY <1>4 DEF Deliver
  <2>2. Other(p) \in Procs
    BY DEF Other, Procs
  <2>3. k \in Nat /\ k <= snd[p]
    BY <2>1, <2>2, KernelAssumption DEF IInv, Numbers, Least
  <2>4. /\ snd' \in [Procs -> 0..SndCap] /\ rcv' \in [Procs -> Nat] /\ lost' = lost
    BY <1>4, <2>1, <2>2, <2>3, KernelAssumption DEF Deliver, IInv, Numbers
  <2>5. Requests' = Requests /\ Answers' = Answers
    BY <2>1, <2>3, KernelAssumption DEF IInv, Numbers, Requests, Answers, Other, Procs
  <2>6. /\ Requests' = Requests - 0 /\ Answers' = Answers - 0
        /\ lost' = lost + 0 + 0 /\ Requests' \in Nat /\ Answers' \in Nat /\ lost' \in Nat
    BY <2>4, <2>5, CountersType DEF IInv
  <2>7. Numbers' /\ CallsBounded' /\ UNCHANGED <<Sent, Accepted, Echoed, Received>>
    BY <1>1, <1>2, <2>4, <2>6, QuietCounters
  <2> QED
    BY <2>6, <2>7, CountStep
<1> QED
  BY <1>3, <1>4
-----------------------------------------------------------------------------
\* What one recv() of read_from_socket does.
LEMMA ReadEffect ==
    ASSUME Numbers, NEW p \in Procs, NEW n \in Nat, read_from_socket(p, n),
           pc[p] = "reading" => moved[p] < n
    PROVE  \E k \in 0..rcv[p] :
             /\ moved[p] + k <= n
             /\ rcv' = [rcv EXCEPT ![p] = rcv[p] - k]
             /\ moved' = [moved EXCEPT ![p] = moved[p] + k]
             /\ pc[p] = "reading"
             /\ \/ pc' = pc /\ moved[p] + k < n
                \/ pc' = [pc EXCEPT ![p] = "account"]
             /\ UNCHANGED <<snd, lost, outstandingBytes, total>>
<1> DEFINE k == Least(rcv[p], Least(Size, n - moved[p]))
<1>1. /\ rcv' = [rcv EXCEPT ![p] = rcv[p] - k]
      /\ moved' = [moved EXCEPT ![p] = moved[p] + k]
      /\ pc[p] = "reading"
      /\ \/ pc' = pc /\ moved[p] + k < n
         \/ pc' = [pc EXCEPT ![p] = "account"]
      /\ UNCHANGED <<snd, lost, outstandingBytes, total>>
  BY DEF read_from_socket, Goto
<1>2. k \in 0..rcv[p] /\ moved[p] + k <= n
  BY <1>1, ArgumentsAssumption DEF Numbers, Least
<1> QED
  BY <1>1, <1>2

\* What one send() of write_to_socket does.
LEMMA WriteEffect ==
    ASSUME Numbers, NEW p \in Procs, NEW n \in Nat, write_to_socket(p, n),
           pc[p] = "writing" => moved[p] < n
    PROVE  \E k \in 0..(SndCap - snd[p]) :
             /\ moved[p] + k <= n
             /\ snd' = [snd EXCEPT ![p] = snd[p] + k]
             /\ moved' = [moved EXCEPT ![p] = moved[p] + k]
             /\ pc[p] = "writing"
             /\ \/ pc' = pc /\ moved[p] + k < n
                \/ pc' = [pc EXCEPT ![p] = "wrote"]
             /\ UNCHANGED <<rcv, lost, outstandingBytes, total>>
<1>1. CASE reset[p] = "no"
  <2> DEFINE k == Least(SndCap - snd[p], Least(Size, n - moved[p]))
  <2>1. /\ snd' = [snd EXCEPT ![p] = snd[p] + k]
        /\ moved' = [moved EXCEPT ![p] = moved[p] + k]
        /\ pc[p] = "writing"
        /\ \/ pc' = pc /\ moved[p] + k < n
           \/ pc' = [pc EXCEPT ![p] = "wrote"]
        /\ UNCHANGED <<rcv, lost, outstandingBytes, total>>
    BY <1>1 DEF write_to_socket, Goto
  <2>2. k \in 0..(SndCap - snd[p]) /\ moved[p] + k <= n
    BY <2>1, ArgumentsAssumption, KernelAssumption DEF Numbers, Least
  <2> QED
    BY <2>1, <2>2
<1>2. CASE reset[p] # "no"
  <2>1. /\ UNCHANGED <<snd, moved, rcv, lost, outstandingBytes, total>>
        /\ pc[p] = "writing" /\ pc' = [pc EXCEPT ![p] = "wrote"]
    BY <1>2 DEF write_to_socket, Goto
  <2>2. /\ snd' = [snd EXCEPT ![p] = snd[p] + 0]
        /\ moved' = [moved EXCEPT ![p] = moved[p] + 0]
        /\ 0 \in 0..(SndCap - snd[p]) /\ moved[p] + 0 <= n
    BY <2>1, KernelAssumption DEF Numbers
  <2> QED
    BY <2>1, <2>2
<1> QED
  BY <1>1, <1>2

\* recv() of the client is Receive.
LEMMA ClientReadStep ==
    ASSUME IInv, ClientRead
    PROVE  IInv' /\ [Flow!Next]_(Flow!vars)
<1>1. PICK k \in 0..rcv["client"] :
         /\ moved["client"] + k <= outstandingBytes["client"]
         /\ rcv' = [rcv EXCEPT !["client"] = rcv["client"] - k]
         /\ moved' = [moved EXCEPT !["client"] = moved["client"] + k]
         /\ pc["client"] = "reading"
         /\ \/ pc' = pc /\ moved["client"] + k < outstandingBytes["client"]
            \/ pc' = [pc EXCEPT !["client"] = "account"]
         /\ UNCHANGED <<snd, lost, outstandingBytes, total>>
  <2>1. outstandingBytes["client"] \in Nat
    BY WindowType DEF IInv, Numbers, CallsBounded, Procs, toRead, ClientFill
  <2> QED
    BY <2>1, ReadEffect DEF ClientRead, IInv, CallsBounded, Procs
<1>2. Numbers' /\ k \in Nat
  BY <1>1, KernelAssumption DEF IInv, Numbers, Procs, Labels, Running
<1>3. CallsBounded'
  BY <1>1, WindowType DEF IInv, Numbers, CallsBounded, ClientFill, toRead, Procs
<1>4. /\ Sent' = Sent + 0 /\ Accepted' = Accepted + 0
      /\ Echoed' = Echoed + 0 /\ Received' = Received + k
  BY <1>1 DEF IInv, Numbers, Sent, Accepted, Echoed, Received, InRead, InWrite, Procs
<1>5. /\ Requests' = Requests + 0 - 0 - 0
      /\ Answers' = Answers + 0 - k - 0
      /\ lost' = lost + 0 + 0
      /\ Requests' \in Nat /\ Answers' \in Nat
  BY <1>1, <1>2, KernelAssumption DEF IInv, Numbers, Requests, Answers, Procs
<1>6. 0 <= Accepted - Echoed
  BY <1>1 DEF IInv, Numbers, CallsBounded, Accepted, Echoed, InRead, InWrite, Procs
<1> QED
  BY <1>2, <1>3, <1>4, <1>5, <1>6, FlowStep

\* recv() of the server is Accept.
LEMMA ServerReadStep ==
    ASSUME IInv, ServerRead
    PROVE  IInv' /\ [Flow!Next]_(Flow!vars)
<1>1. PICK k \in 0..rcv["server"] :
         /\ moved["server"] + k <= toRead
         /\ rcv' = [rcv EXCEPT !["server"] = rcv["server"] - k]
         /\ moved' = [moved EXCEPT !["server"] = moved["server"] + k]
         /\ pc["server"] = "reading"
         /\ \/ pc' = pc /\ moved["server"] + k < toRead
            \/ pc' = [pc EXCEPT !["server"] = "account"]
         /\ UNCHANGED <<snd, lost, outstandingBytes, total>>
  <2>1. toRead \in Nat
    BY WindowType DEF IInv, Numbers, CallsBounded, Procs, toRead, ClientFill
  <2> QED
    BY <2>1, ReadEffect DEF ServerRead, IInv, CallsBounded, Procs
<1>2. Numbers' /\ k \in Nat
  BY <1>1, KernelAssumption DEF IInv, Numbers, Procs, Labels, Running
<1>3. CallsBounded'
  BY <1>1, WindowType DEF IInv, Numbers, CallsBounded, ClientFill, toRead, Procs
<1>4. /\ Sent' = Sent + 0 /\ Accepted' = Accepted + k
      /\ Echoed' = Echoed + 0 /\ Received' = Received + 0
  BY <1>1 DEF IInv, Numbers, Sent, Accepted, Echoed, Received, InRead, InWrite, Procs
<1>5. /\ Requests' = Requests + 0 - k - 0
      /\ Answers' = Answers + 0 - 0 - 0
      /\ lost' = lost + 0 + 0
      /\ Requests' \in Nat /\ Answers' \in Nat
  BY <1>1, <1>2, KernelAssumption DEF IInv, Numbers, Requests, Answers, Procs
<1>6. 0 <= Accepted - Echoed
  BY <1>1 DEF IInv, Numbers, CallsBounded, Accepted, Echoed, InRead, InWrite, Procs
<1> QED
  BY <1>2, <1>3, <1>4, <1>5, <1>6, FlowStep

\* send() of the client is Send.
LEMMA ClientWriteStep ==
    ASSUME IInv, ClientWrite
    PROVE  IInv' /\ [Flow!Next]_(Flow!vars)
<1>1. PICK k \in 0..(SndCap - snd["client"]) :
         /\ moved["client"] + k <= ClientFill
         /\ snd' = [snd EXCEPT !["client"] = snd["client"] + k]
         /\ moved' = [moved EXCEPT !["client"] = moved["client"] + k]
         /\ pc["client"] = "writing"
         /\ \/ pc' = pc /\ moved["client"] + k < ClientFill
            \/ pc' = [pc EXCEPT !["client"] = "wrote"]
         /\ UNCHANGED <<rcv, lost, outstandingBytes, total>>
  <2>1. ClientFill \in Nat
    BY WindowType DEF IInv, Numbers, CallsBounded, Procs, toRead, ClientFill
  <2> QED
    BY <2>1, WriteEffect DEF ClientWrite, IInv, CallsBounded, Procs
<1>2. Numbers' /\ k \in Nat
  BY <1>1, KernelAssumption DEF IInv, Numbers, Procs, Labels, Running
<1>3. CallsBounded'
  BY <1>1, WindowType DEF IInv, Numbers, CallsBounded, ClientFill, toRead, Procs
<1>4. /\ Sent' = Sent + k /\ Accepted' = Accepted + 0
      /\ Echoed' = Echoed + 0 /\ Received' = Received + 0
  BY <1>1 DEF IInv, Numbers, Sent, Accepted, Echoed, Received, InRead, InWrite, Procs
<1>5. /\ Requests' = Requests + k - 0 - 0
      /\ Answers' = Answers + 0 - 0 - 0
      /\ lost' = lost + 0 + 0
      /\ Requests' \in Nat /\ Answers' \in Nat
  BY <1>1, <1>2, KernelAssumption DEF IInv, Numbers, Requests, Answers, Procs
<1>6. 0 <= Accepted - Echoed
  BY <1>1 DEF IInv, Numbers, CallsBounded, Accepted, Echoed, InRead, InWrite, Procs
<1> QED
  BY <1>2, <1>3, <1>4, <1>5, <1>6, FlowStep

\* send() of the server is Echo.
LEMMA ServerWriteStep ==
    ASSUME IInv, ServerWrite
    PROVE  IInv' /\ [Flow!Next]_(Flow!vars)
<1>1. PICK k \in 0..(SndCap - snd["server"]) :
         /\ moved["server"] + k <= outstandingBytes["server"]
         /\ snd' = [snd EXCEPT !["server"] = snd["server"] + k]
         /\ moved' = [moved EXCEPT !["server"] = moved["server"] + k]
         /\ pc["server"] = "writing"
         /\ \/ pc' = pc /\ moved["server"] + k < outstandingBytes["server"]
            \/ pc' = [pc EXCEPT !["server"] = "wrote"]
         /\ UNCHANGED <<rcv, lost, outstandingBytes, total>>
  <2>1. outstandingBytes["server"] \in Nat
    BY WindowType DEF IInv, Numbers, CallsBounded, Procs, toRead, ClientFill
  <2> QED
    BY <2>1, WriteEffect DEF ServerWrite, IInv, CallsBounded, Procs
<1>2. Numbers' /\ k \in Nat
  BY <1>1, KernelAssumption DEF IInv, Numbers, Procs, Labels, Running
<1>3. CallsBounded'
  BY <1>1, WindowType DEF IInv, Numbers, CallsBounded, ClientFill, toRead, Procs
<1>4. /\ Sent' = Sent + 0 /\ Accepted' = Accepted + 0
      /\ Echoed' = Echoed + k /\ Received' = Received + 0
  BY <1>1 DEF IInv, Numbers, Sent, Accepted, Echoed, Received, InRead, InWrite, Procs
<1>5. /\ Requests' = Requests + 0 - 0 - 0
      /\ Answers' = Answers + k - 0 - 0
      /\ lost' = lost + 0 + 0
      /\ Requests' \in Nat /\ Answers' \in Nat
  BY <1>1, <1>2, KernelAssumption DEF IInv, Numbers, Requests, Answers, Procs
<1>6. k <= Accepted - Echoed
  BY <1>1 DEF IInv, Numbers, CallsBounded, Accepted, Echoed, InRead, InWrite, Procs
<1> QED
  BY <1>2, <1>3, <1>4, <1>5, <1>6, FlowStep

\* The bytes read are no longer outstanding.
LEMMA ClientAccountStep ==
    ASSUME IInv, ClientAccount
    PROVE  IInv' /\ [Flow!Next]_(Flow!vars)
<1>1. /\ pc["client"] = "account"
      /\ outstandingBytes' = [outstandingBytes EXCEPT !["client"] = @ - moved["client"]]
      /\ total' = [total EXCEPT !["client"] = @ + moved["client"]]
      /\ moved' = [moved EXCEPT !["client"] = 0]
      /\ UNCHANGED <<snd, rcv, lost>>
      /\ \/ pc' = [pc EXCEPT !["client"] = "loop"]
         \/ /\ pc' = [pc EXCEPT !["client"] = "writing"]
            /\ outstandingBytes["client"] - moved["client"] < Window
  BY DEF ClientAccount, Goto, kernel, IInv, Numbers
<1>2. Numbers'
  BY <1>1 DEF IInv, Numbers, CallsBounded, Procs, Labels, Running
<1>3. CallsBounded'
  BY <1>1, WindowType DEF IInv, Numbers, CallsBounded, ClientFill, toRead, Procs
<1>4. UNCHANGED <<Sent, Accepted, Echoed, Received>>
  BY <1>1 DEF IInv, Numbers, Sent, Accepted, Echoed, Received, InRead, InWrite, Procs
<1> QED
  BY <1>1, <1>2, <1>3, <1>4, SameBuffers, CountStep

\* The bytes written are outstanding.
LEMMA ClientWroteStep ==
    ASSUME IInv, ClientWrote
    PROVE  IInv' /\ [Flow!Next]_(Flow!vars)
<1>1. /\ pc["client"] = "wrote"
      /\ outstandingBytes' = [outstandingBytes EXCEPT !["client"] = @ + moved["client"]]
      /\ UNCHANGED total
      /\ moved' = [moved EXCEPT !["client"] = 0]
      /\ UNCHANGED <<snd, rcv, lost>>
      /\ pc' = [pc EXCEPT !["client"] = "loop"]
  BY DEF ClientWrote, Goto, kernel, IInv, Numbers
<1>2. Numbers'
  BY <1>1 DEF IInv, Numbers, CallsBounded, Procs, Labels, Running
<1>3. CallsBounded'
  BY <1>1, WindowType DEF IInv, Numbers, CallsBounded, ClientFill, toRead, Procs
<1>4. UNCHANGED <<Sent, Accepted, Echoed, Received>>
  BY <1>1 DEF IInv, Numbers, Sent, Accepted, Echoed, Received, InRead, InWrite, Procs
<1> QED
  BY <1>1, <1>2, <1>3, <1>4, SameBuffers, CountStep

\* The bytes read are to be echoed.
LEMMA ServerAccountStep ==
    ASSUME IInv, ServerAccount
    PROVE  IInv' /\ [Flow!Next]_(Flow!vars)
<1>1. /\ pc["server"] = "account"
      /\ outstandingBytes' = [outstandingBytes EXCEPT !["server"] = @ + moved["server"]]
      /\ UNCHANGED total
      /\ moved' = [moved EXCEPT !["server"] = 0]
      /\ UNCHANGED <<snd, rcv, lost>>
      /\ \/ pc' = [pc EXCEPT !["server"] = "loop"]
         \/ /\ pc' = [pc EXCEPT !["server"] = "writing"]
            /\ outstandingBytes["server"] + moved["server"] > 0
  BY DEF ServerAccount, Goto, kernel, IInv, Numbers
<1>2. Numbers'
  BY <1>1 DEF IInv, Numbers, CallsBounded, Procs, Labels, Running
<1>3. CallsBounded'
  BY <1>1, WindowType DEF IInv, Numbers, CallsBounded, ClientFill, toRead, Procs
<1>4. UNCHANGED <<Sent, Accepted, Echoed, Received>>
  BY <1>1 DEF IInv, Numbers, Sent, Accepted, Echoed, Received, InRead, InWrite, Procs
<1> QED
  BY <1>1, <1>2, <1>3, <1>4, SameBuffers, CountStep

\* The bytes echoed are no longer outstanding.
LEMMA ServerWroteStep ==
    ASSUME IInv, ServerWrote
    PROVE  IInv' /\ [Flow!Next]_(Flow!vars)
<1>1. /\ pc["server"] = "wrote"
      /\ outstandingBytes' = [outstandingBytes EXCEPT !["server"] = @ - moved["server"]]
      /\ total' = [total EXCEPT !["server"] = @ + moved["server"]]
      /\ moved' = [moved EXCEPT !["server"] = 0]
      /\ UNCHANGED <<snd, rcv, lost>>
      /\ pc' = [pc EXCEPT !["server"] = "loop"]
  BY DEF ServerWrote, Goto, kernel, IInv, Numbers
<1>2. Numbers'
  BY <1>1 DEF IInv, Numbers, CallsBounded, Procs, Labels, Running
<1>3. CallsBounded'
  BY <1>1, WindowType DEF IInv, Numbers, CallsBounded, ClientFill, toRead, Procs
<1>4. UNCHANGED <<Sent, Accepted, Echoed, Received>>
  BY <1>1 DEF IInv, Numbers, Sent, Accepted, Echoed, Received, InRead, InWrite, Procs
<1> QED
  BY <1>1, <1>2, <1>3, <1>4, SameBuffers, CountStep

\* Every step of the programs and the network, and every signal, keeps the
\* invariant and is a step of FlowControl or a stutter.
LEMMA NextStep ==
    ASSUME IInv, [Next]_vars
    PROVE  IInv' /\ [Flow!Next]_(Flow!vars)
<1>1. CASE \/ ServerListen \/ ServerAnnounce \/ ServerAccept
           \/ ClientOpen \/ ClientHello \/ ClientConnect
           \/ ClientTryRead \/ ServerTryRead
           \/ \E p \in Procs : Poll(p) \/ quit_signal_handler(p)
  BY <1>1, QuietSteps
<1>2. CASE \/ ClientEvaluate \/ ServerEvaluate
           \/ \E p \in Procs : Killed(p) \/ Deliver(p)
  BY <1>2, CloseSteps, DeliverStep
<1>3. CASE ClientRead \/ ServerRead \/ ClientWrite \/ ServerWrite
  BY <1>3, ClientReadStep, ServerReadStep, ClientWriteStep, ServerWriteStep
<1>4. CASE ClientAccount \/ ClientWrote \/ ServerAccount \/ ServerWrote
  BY <1>4, ClientAccountStep, ClientWroteStep, ServerAccountStep, ServerWroteStep
<1>5. CASE UNCHANGED vars
  <2>1. UNCHANGED <<pc, snd, rcv, lost, moved, outstandingBytes, total>>
    BY <1>5 DEF vars
  <2>2. Numbers' /\ CallsBounded'
    BY <2>1 DEF IInv, Numbers, CallsBounded, ClientFill, toRead
  <2>3. UNCHANGED <<Sent, Accepted, Echoed, Received>>
    BY <2>1 DEF Sent, Accepted, Echoed, Received, InRead, InWrite
  <2> QED
    BY <2>1, <2>2, <2>3, SameBuffers, CountStep
<1> QED
  BY <1>1, <1>2, <1>3, <1>4, <1>5 DEF Next, Client, Server, Network, Signal, Procs

\* Nothing is sent or counted at first.
LEMMA InitIInv == Init => IInv /\ Flow!Init
<1> SUFFICES ASSUME Init PROVE IInv /\ Flow!Init
  OBVIOUS
<1>1. Numbers
  BY KernelAssumption DEF Init, Numbers, Labels, Starting, Procs
<1>2. CallsBounded
  BY WindowType DEF Init, CallsBounded, Procs
<1>3. BuffersAgree
  BY DEF Init, BuffersAgree, Requests, Answers, Sent, Accepted, Echoed, Received,
         InRead, InWrite, Procs
<1>4. Flow!Init
  BY DEF Init, Flow!Init, InRead, InWrite, Procs
<1> QED
  BY <1>1, <1>2, <1>3, <1>4 DEF IInv

\* IInv is an inductive invariant of tcp.
LEMMA Invariance == Spec => []IInv
<1>1. Init => IInv
  BY InitIInv
<1>2. IInv /\ [Next]_vars => IInv'
  BY NextStep
<1> QED
  BY <1>1, <1>2, PTL DEF Spec

\* Client, server and network account for every byte, and the window is never
\* exceeded, for every request size, rate, buffer size, segmentation, reset and
\* signal.
THEOREM WindowIsConserved == Spec => []WindowConserved
<1>1. ASSUME IInv PROVE WindowConserved
  <2>1. /\ outstandingBytes["client"] + InWrite("client") - InRead("client") = Sent - Received
        /\ outstandingBytes["server"] + InRead("server") - InWrite("server") = Accepted - Echoed
        /\ InRead("server") \in Nat /\ InWrite("server") \in Nat
        /\ outstandingBytes["client"] + InWrite("client") <= Window
    BY <1>1, WindowType DEF IInv, Numbers, CallsBounded, Sent, Accepted, Echoed, Received,
       InRead, InWrite, ClientFill, Procs
  <2>2. /\ snd["client"] \in Nat /\ snd["server"] \in Nat
        /\ rcv["client"] \in Nat /\ rcv["server"] \in Nat
        /\ outstandingBytes["server"] \in Nat
    BY <1>1, KernelAssumption DEF IInv, Numbers, Procs
  <2>3. Sent \in Nat /\ Accepted \in Nat /\ Echoed \in Nat /\ Received \in Nat /\ lost \in Nat
    BY <1>1, CountersType DEF IInv
  <2>4. snd["client"] + rcv["server"] + snd["server"] + rcv["client"] + lost
          = (Sent - Accepted) + (Echoed - Received)
    BY <1>1, <2>2, <2>3 DEF IInv, BuffersAgree, Requests, Answers
  <2>5. Sent - Received = snd["client"] + rcv["server"] + snd["server"] + rcv["client"]
                          + outstandingBytes["server"] + InRead("server") - InWrite("server")
                          + lost
    <3> DEFINE a == snd["client"]   b == rcv["server"]
               c == snd["server"]   d == rcv["client"]
               o == outstandingBytes["server"]
               j == InRead("server")   w == InWrite("server")
               S == Sent   A == Accepted   E == Echoed   R == Received
    <3>1. /\ a \in Nat /\ b \in Nat /\ c \in Nat /\ d \in Nat /\ o \in Nat
          /\ j \in Nat /\ w \in Nat /\ lost \in Nat
          /\ S \in Nat /\ A \in Nat /\ E \in Nat /\ R \in Nat
          /\ o + j - w = A - E
          /\ a + b + c + d + lost = (S - A) + (E - R)
      BY <2>1, <2>2, <2>3, <2>4
    <3> HIDE DEF a, b, c, d, o, j, w, S, A, E, R
    <3>2. S - R = a + b + c + d + o + j - w + lost
      BY <3>1
    <3> QED
      BY <3>2 DEF a, b, c, d, o, j, w, S, A, E, R
  <2> QED
    BY <2>1, <2>5 DEF WindowConserved
<1> QED
  BY Invariance, <1>1, PTL

\* The tcp programs and the network implement the flow-control specification.
THEOREM TcpImplementsFlowControl == Spec => FlowSpec
<1>1. Init => Flow!Init
  BY InitIInv
<1>2. IInv /\ [Next]_vars => [Flow!Next]_(Flow!vars)
  BY NextStep
<1> QED
  BY <1>1, <1>2, Invariance, PTL DEF Spec, FlowSpec, Flow!Spec

-----------------------------------------------------------------------------
(***************************************************************************)
(* The client's statistics.                                                *)
(***************************************************************************)

\* Division by the size of a request.
LEMMA DivBounds ==
    ASSUME NEW n \in Nat
    PROVE  /\ wholeReqs(n) \in Nat
           /\ Size * wholeReqs(n) <= n
           /\ n % Size = 0 => Size * wholeReqs(n) = n
BY ArgumentsAssumption DEF wholeReqs

\* Only ClientAccount and ClientWrote touch the statistics or the client's
\* counters, and only ClientAccount leads to a write.
LEMMA StatsSteps ==
    ASSUME IInv, [Next]_vars
    PROVE  \/ ClientAccount
           \/ ClientWrote
           \/ /\ UNCHANGED stats
              /\ total'["client"] = total["client"]
              /\ outstandingBytes'["client"] = outstandingBytes["client"]
              /\ pc'["client"] \in {"writing", "wrote"} => pc["client"] \in {"writing", "wrote"}
<1> DEFINE Kept ==
              /\ UNCHANGED stats
              /\ total'["client"] = total["client"]
              /\ outstandingBytes'["client"] = outstandingBytes["client"]
              /\ pc'["client"] \in {"writing", "wrote"} => pc["client"] \in {"writing", "wrote"}
<1>a. /\ pc \in [Procs -> Labels]
      /\ total \in [Procs -> Nat] /\ outstandingBytes \in [Procs -> Nat]
  BY DEF IInv, Numbers
<1>1. CASE \/ ServerListen \/ ServerAnnounce \/ ServerAccept
           \/ ClientOpen \/ ClientHello \/ ClientConnect
  BY <1>1, <1>a DEF ServerListen, ServerAnnounce, ServerAccept, ClientOpen, ClientHello,
     ClientConnect, Goto, stats, window, Procs
<1>2. CASE \E p \in Procs : Poll(p) \/ quit_signal_handler(p) \/ Deliver(p)
  BY <1>2, <1>a DEF Poll, quit_signal_handler, Deliver, Goto, stats, window, Procs
<1>3. CASE ClientTryRead \/ ServerTryRead
  BY <1>3, <1>a DEF ClientTryRead, ServerTryRead, TryRead, Goto, stats, window, Procs
<1>4. CASE ClientEvaluate \/ ServerEvaluate \/ \E p \in Procs : Killed(p)
  BY <1>4, <1>a DEF ClientEvaluate, ServerEvaluate, Killed, Goto, stats, window, Procs
<1>5. CASE ClientRead \/ ServerRead
  BY <1>5, <1>a DEF ClientRead, ServerRead, read_from_socket, Goto, stats, Procs
<1>6. CASE ClientWrite \/ ServerWrite
  BY <1>6, <1>a DEF ClientWrite, ServerWrite, write_to_socket, Goto, stats, Procs
<1>7. CASE ServerAccount \/ ServerWrote
  BY <1>7, <1>a DEF ServerAccount, ServerWrote, Goto, stats, Procs
<1>8. CASE UNCHANGED vars
  BY <1>8 DEF vars, stats
<1> QED
  BY <1>1, <1>2, <1>3, <1>4, <1>5, <1>6, <1>7, <1>8
     DEF Next, Client, Server, Network, Signal, Procs

\* The answers counted are whole ones.
CountInv == numReqsRead \in Nat /\ NeverOvercounts

\* The client never reports a request whose answer it has only in part.
THEOREM NeverOvercountsAlways == Spec => []NeverOvercounts
<1>1. Init => CountInv
  BY ArgumentsAssumption DEF Init, CountInv, NeverOvercounts, Procs
<1>2. IInv /\ CountInv /\ [Next]_vars => CountInv'
  <2> SUFFICES ASSUME IInv, CountInv, [Next]_vars PROVE CountInv'
    OBVIOUS
  <2>1. CASE ClientAccount
    <3> DEFINE n == moved["client"]   q == wholeReqs(moved["client"])
               t == total["client"]   r == numReqsRead
    <3>1. /\ numReqsRead' = r + q
          /\ total'["client"] = t + n
          /\ n \in Nat /\ t \in Nat /\ r \in Nat
          /\ q \in Nat /\ Size * q <= n
          /\ Size * r <= t
      BY <2>1, DivBounds DEF ClientAccount, IInv, Numbers, CountInv, NeverOvercounts, Procs
    <3> HIDE DEF n, q, t, r
    <3>2. Size * (r + q) = Size * r + Size * q
      BY <3>1, ArgumentsAssumption
    <3>3. /\ Size * r \in Nat /\ Size * q \in Nat
      BY <3>1, ArgumentsAssumption
    <3> QED
      BY <3>1, <3>2, <3>3 DEF CountInv, NeverOvercounts
  <2>2. CASE UNCHANGED <<numReqsRead, total["client"]>>
    BY <2>2 DEF CountInv, NeverOvercounts
  <2>3. CASE ClientWrote
    BY <2>3, <2>2 DEF ClientWrote
  <2> QED
    BY <2>1, <2>2, <2>3, StatsSteps DEF stats
<1>3. CountInv => NeverOvercounts
  BY DEF CountInv
<1> QED
  BY <1>1, <1>2, <1>3, Invariance, PTL DEF Spec
-----------------------------------------------------------------------------
(***************************************************************************)
(* The same programs with the memory of MCTcp.                             *)
(***************************************************************************)

mcvars == <<vars, signalled, cut>>

\* The memory restricts nothing.
LEMMA MCStep == [MCNext]_mcvars => [Next]_vars
BY DEF MCNext, mcvars, Next

\* The run with its memory of signals keeps the invariant of Tcp.
LEMMA MCInvariance == MCSpec => []IInv
<1>1. MCInit => IInv
  BY InitIInv DEF MCInit
<1>2. IInv /\ [MCNext]_mcvars => IInv'
  BY NextStep, MCStep
<1> QED
  BY <1>1, <1>2, PTL DEF MCSpec, mcvars

\* While nobody is interrupted: the byte in TCP_FIFO means that the server
\* listens and that the client has not connected, and the client connects
\* only after it took the byte.
Handshake ==
    /\ \A p \in Procs : pc[p] # "dead"
    /\ pc["client"] \in {"open", "hello", "connect"} => ~connected
    /\ ~connected => pc["server"] \in {"listen", "announce", "accept"}
    /\ hello => pc["server"] = "accept" /\ pc["client"] \in {"open", "hello"}
    /\ pc["client"] = "connect" => pc["server"] = "accept"
    /\ pc["server"] \in {"listen", "announce"} => ~hello /\ pc["client"] \in {"open", "hello"}

HandshakeInv == ~signalled => Handshake

\* Past the connection nothing touches the handshake.
LEMMA HandshakeStep ==
    ASSUME IInv, Handshake, [Client \/ Server \/ Network]_vars
    PROVE  Handshake'
<1>a. pc \in [Procs -> Labels]
  BY DEF IInv, Numbers
<1>1. CASE ServerListen \/ ServerAnnounce \/ ServerAccept
  BY <1>1, <1>a DEF ServerListen, ServerAnnounce, ServerAccept, Goto, Handshake, startup, Procs
<1>2. CASE ClientOpen \/ ClientHello \/ ClientConnect
  <2>1. CASE ClientOpen \/ ClientHello
    BY <2>1, <1>a DEF ClientOpen, ClientHello, Goto, Handshake, startup, Procs
  <2>2. CASE ClientConnect
    <3>1. /\ pc["client"] = "connect" /\ pc["server"] = "accept" /\ ~hello
      BY <2>2 DEF ClientConnect, Handshake
    <3>2. connected' /\ UNCHANGED hello
      BY <2>2, <3>1, Zenon DEF ClientConnect
    <3>3. pc' = [pc EXCEPT !["client"] = "loop"]
      BY <2>2, <3>2, Zenon DEF ClientConnect, Goto
    <3> QED
      BY <1>a, <3>1, <3>2, <3>3 DEF Handshake, Procs
  <2> QED
    BY <1>2, <2>1, <2>2
<1>3. CASE \/ /\ UNCHANGED startup
              /\ \E p \in Procs, l \in Running \cup {"done", "aborted"} :
                    pc[p] \in Running /\ pc' = [pc EXCEPT ![p] = l]
           \/ UNCHANGED <<startup, pc>>
  BY <1>3, <1>a DEF Handshake, startup, Running, Procs
<1> HIDE DEF Handshake
<1>4. CASE Poll("client") \/ Poll("server") \/ ClientTryRead \/ ServerTryRead
  BY <1>3, <1>4 DEF Poll, ClientTryRead, ServerTryRead, TryRead, Goto, Running, Procs
<1>5. CASE ClientRead \/ ServerRead
  BY <1>3, <1>5 DEF ClientRead, ServerRead, read_from_socket, Goto, Running, Procs
<1>6. CASE ClientWrite \/ ServerWrite
  BY <1>3, <1>6 DEF ClientWrite, ServerWrite, write_to_socket, Goto, Running, Procs
<1>7. CASE ClientAccount \/ ServerAccount \/ ClientWrote \/ ServerWrote
  BY <1>3, <1>7 DEF ClientAccount, ServerAccount, ClientWrote, ServerWrote, Goto,
     Running, Procs
<1>8. CASE ClientEvaluate \/ ServerEvaluate
  BY <1>3, <1>8 DEF ClientEvaluate, ServerEvaluate, Goto, Running, Procs
<1>9. CASE Network \/ UNCHANGED vars
  BY <1>3, <1>9 DEF Network, Deliver, vars, startup
<1> QED
  BY <1>1, <1>2, <1>4, <1>5, <1>6, <1>7, <1>8, <1>9 DEF Client, Server

\* In a run that nobody interrupts connect() always meets a server that
\* listens, whatever the order of the start-up steps.
THEOREM ConnectAlwaysSucceeds == MCSpec => []ConnectSucceeds
<1>1. MCInit => HandshakeInv
  BY DEF MCInit, Init, HandshakeInv, Handshake, Procs
<1>2. IInv /\ HandshakeInv /\ [MCNext]_mcvars => HandshakeInv'
  <2> SUFFICES ASSUME IInv, HandshakeInv, [MCNext]_mcvars, ~signalled'
               PROVE  Handshake'
    BY DEF HandshakeInv
  <2>1. ~signalled /\ [Client \/ Server \/ Network]_vars
    BY DEF MCNext, mcvars
  <2> QED
    BY <2>1, HandshakeStep DEF HandshakeInv
<1>3. HandshakeInv => ConnectSucceeds
  BY DEF HandshakeInv, Handshake, ConnectSucceeds
<1> QED
  BY <1>1, <1>2, <1>3, MCInvariance, PTL DEF MCSpec, mcvars
-----------------------------------------------------------------------------
\* What times[j] holds while no call of the client cut a request: stamped as
\* sent up to numReqsSent, as answered up to numReqsRead.
Stamp(j) ==
    IF j < numReqsRead THEN "rtt" ELSE IF j < numReqsSent THEN "sent" ELSE "unset"

\* Bytes and requests outstanding agree, so outstandingReqs does not wrap, and
\* what is outstanding has been stamped: numReqsSent is a window ahead of
\* numReqsRead whenever the client writes.
Stamping ==
    /\ outstandingReqs \in Nat /\ numReqsRead \in Nat /\ numReqsSent \in 0..Count
    /\ outstandingBytes["client"] = Size * outstandingReqs
    /\ Least(numReqsRead + outstandingReqs, Count) <= numReqsSent
    /\ pc["client"] \in {"writing", "wrote"} =>
          Least(numReqsRead + Rate, Count) <= numReqsSent
    /\ times = [j \in 0..(Count - 1) |-> Stamp(j)]

StampingInv == ~cut => Stamping

\* A multiple of Size that fits the window is at most Rate requests.
LEMMA Cancel ==
    ASSUME NEW a \in Nat, NEW b \in Nat, Size * a <= Size * b
    PROVE  a <= b
BY ArgumentsAssumption

\* No wrap below SizeMax.
LEMMA NoWrap ==
    ASSUME NEW a \in Nat, a <= Rate
    PROVE  a % SizeMax = a
BY KernelAssumption, ArgumentsAssumption

\* The pass that takes q whole answers out of o outstanding requests and
\* stamps the requests that fill the window.
LEMMA StampStep ==
    ASSUME NEW r \in Nat, NEW s \in 0..Count, NEW o \in 0..Rate, NEW q \in 0..o,
           Least(r + o, Count) <= s,
           times = [j \in 0..(Count - 1) |->
                      IF j < r THEN "rtt" ELSE IF j < s THEN "sent" ELSE "unset"]
    PROVE  LET f == Rate - (o - q)
               S == Least(s + f, Count)
           IN /\ S \in 0..Count
              /\ Least(r + q + Rate, Count) <= S
              /\ updateWriteTimes(updateReadWriteTimes(times, r, q), s, f)
                   = [j \in 0..(Count - 1) |->
                        IF j < r + q THEN "rtt" ELSE IF j < S THEN "sent" ELSE "unset"]
<1> DEFINE f == Rate - (o - q)
           S == Least(s + f, Count)
           m == updateReadWriteTimes(times, r, q)
           w == updateWriteTimes(m, s, f)
<1>1. S \in 0..Count /\ f \in Nat
  BY ArgumentsAssumption DEF Least
<1>2. Least(r + q + Rate, Count) <= S
  BY ArgumentsAssumption DEF Least
<1>3. m = [j \in 0..(Count - 1) |->
             IF j < r + q THEN "rtt" ELSE IF j < s THEN "sent" ELSE "unset"]
  <2>1. DOMAIN times = 0..(Count - 1)
    OBVIOUS
  <2>2. m = [j \in 0..(Count - 1) |->
               IF r <= j /\ j < r + q THEN IF times[j] = "sent" THEN "rtt" ELSE "bad"
                                      ELSE times[j]]
    BY <2>1 DEF updateReadWriteTimes
  <2>3. ASSUME NEW j \in 0..(Count - 1)
        PROVE  (IF r <= j /\ j < r + q THEN IF times[j] = "sent" THEN "rtt" ELSE "bad"
                                      ELSE times[j])
                 = (IF j < r + q THEN "rtt" ELSE IF j < s THEN "sent" ELSE "unset")
    <3>1. times[j] = IF j < r THEN "rtt" ELSE IF j < s THEN "sent" ELSE "unset"
      OBVIOUS
    <3>2. j \in Nat /\ j < Count
      BY ArgumentsAssumption
    <3>3. j < r + q => j < s
      BY <3>2, ArgumentsAssumption DEF Least
    <3> QED
      BY <3>1, <3>2, <3>3
  <2> QED
    BY <2>2, <2>3
<1>4. w = [j \in 0..(Count - 1) |->
             IF j < r + q THEN "rtt" ELSE IF j < S THEN "sent" ELSE "unset"]
  <2> HIDE DEF m, S
  <2>1. DOMAIN m = 0..(Count - 1)
    BY <1>3
  <2>2. w = [j \in 0..(Count - 1) |-> IF s <= j /\ j < s + f THEN "sent" ELSE m[j]]
    BY <2>1 DEF updateWriteTimes
  <2>3. ASSUME NEW j \in 0..(Count - 1)
        PROVE  (IF s <= j /\ j < s + f THEN "sent" ELSE m[j])
                 = (IF j < r + q THEN "rtt" ELSE IF j < S THEN "sent" ELSE "unset")
    <3>1. m[j] = IF j < r + q THEN "rtt" ELSE IF j < s THEN "sent" ELSE "unset"
      BY <1>3
    <3>2. j \in Nat /\ j < Count
      BY ArgumentsAssumption
    <3>3. j < r + q => j < s
      BY <3>2, ArgumentsAssumption DEF Least
    <3>4. j < S <=> j < s + f
      BY <3>2, <1>1, ArgumentsAssumption DEF Least, S
    <3> HIDE DEF f
    <3> QED
      BY <3>1, <3>2, <3>3, <3>4, <1>1
  <2> QED
    BY <2>2, <2>3
<1> QED
  BY <1>1, <1>2, <1>4

\* The account of a pass that moved whole requests.
LEMMA AccountStamps ==
    ASSUME IInv, Stamping, ClientAccount, moved["client"] % Size = 0
    PROVE  Stamping'
<1> DEFINE n == moved["client"]   q == wholeReqs(n)
           o == outstandingReqs   r == numReqsRead   s == numReqsSent
           f == Rate - (o - q)
<1>1. /\ n \in Nat /\ n <= outstandingBytes["client"] /\ outstandingBytes["client"] <= Window
      /\ outstandingBytes["client"] = Size * o
      /\ o \in Nat /\ r \in Nat /\ s \in 0..Count
      /\ q \in Nat /\ Size * q = n
  <2>1. pc["client"] = "account"
    BY DEF ClientAccount
  <2> QED
    BY <2>1, DivBounds DEF IInv, Numbers, CallsBounded, Stamping, Procs
<1>2. o <= Rate /\ q <= o
  <2>1. Size * o <= Size * Rate /\ Size * q <= Size * o
    BY <1>1 DEF Window
  <2> QED
    BY <1>1, <2>1, Cancel, ArgumentsAssumption
<1>3. (o - q) % SizeMax = o - q
  BY <1>1, <1>2, NoWrap, ArgumentsAssumption
<1>4. (IF o - q < Rate THEN Rate - (o - q) ELSE 0) = f
  <2> HIDE DEF q
  <2> QED
    BY <1>1, <1>2, ArgumentsAssumption
<1>5. /\ outstandingReqs' = o - q
      /\ outstandingBytes'["client"] = outstandingBytes["client"] - n
      /\ numReqsRead' = r + q
      /\ numReqsSent' = Least(s + f, Count)
      /\ times' = updateWriteTimes(updateReadWriteTimes(times, r, q), s, f)
  BY <1>3, <1>4 DEF ClientAccount, IInv, Numbers, Procs
<1>6. /\ numReqsSent' \in 0..Count
      /\ Least(r + q + Rate, Count) <= numReqsSent'
      /\ times' = [j \in 0..(Count - 1) |->
                     IF j < r + q THEN "rtt"
                     ELSE IF j < numReqsSent' THEN "sent" ELSE "unset"]
  <2>1. times = [j \in 0..(Count - 1) |->
                   IF j < r THEN "rtt" ELSE IF j < s THEN "sent" ELSE "unset"]
    BY DEF Stamping, Stamp
  <2>2. Least(r + o, Count) <= s /\ o \in 0..Rate /\ q \in 0..o
    BY <1>1, <1>2, ArgumentsAssumption DEF Stamping
  <2> HIDE DEF q, f
  <2> QED
    BY <1>1, <1>5, <2>1, <2>2, StampStep DEF f
<1> HIDE DEF n, q
<1>7. outstandingBytes'["client"] = Size * (o - q)
  BY <1>1, <1>2, <1>5, ArgumentsAssumption
<1>8. Least(r + q + (o - q), Count) <= numReqsSent'
  BY <1>1, <1>2, <1>6, ArgumentsAssumption DEF Least
<1>9. times' = [j \in 0..(Count - 1) |-> Stamp(j)']
  BY <1>5, <1>6 DEF Stamp
<1>10. /\ outstandingReqs' \in Nat /\ numReqsRead' \in Nat
       /\ outstandingBytes'["client"] = Size * outstandingReqs'
       /\ Least(numReqsRead' + outstandingReqs', Count) <= numReqsSent'
       /\ Least(numReqsRead' + Rate, Count) <= numReqsSent'
  BY <1>1, <1>2, <1>5, <1>6, <1>7, <1>8
<1> QED
  BY <1>6, <1>9, <1>10 DEF Stamping

\* The account of a write of whole requests.
LEMMA WroteStamps ==
    ASSUME IInv, Stamping, ClientWrote, moved["client"] % Size = 0
    PROVE  Stamping'
<1> DEFINE n == moved["client"]   q == wholeReqs(n)
           o == outstandingReqs   r == numReqsRead   s == numReqsSent
<1>1. /\ n \in Nat /\ outstandingBytes["client"] + n <= Window
      /\ outstandingBytes["client"] = Size * o
      /\ o \in Nat /\ r \in Nat /\ s \in 0..Count
      /\ q \in Nat /\ Size * q = n
      /\ Least(r + Rate, Count) <= s
  <2>1. pc["client"] = "wrote"
    BY DEF ClientWrote
  <2>2. /\ n \in Nat /\ outstandingBytes["client"] \in Nat
        /\ n <= Window - outstandingBytes["client"]
    BY <2>1 DEF IInv, Numbers, CallsBounded, ClientFill, Procs
  <2>3. outstandingBytes["client"] + n <= Window
    BY <2>2, WindowType
  <2>4. q \in Nat /\ Size * q = n
    BY <2>2, DivBounds
  <2> QED
    BY <2>1, <2>2, <2>3, <2>4 DEF Stamping
<1>2. o + q <= Rate /\ Size * (o + q) = outstandingBytes["client"] + n
  <2>1. Size * (o + q) = outstandingBytes["client"] + n
    <3> HIDE DEF n, q
    <3> QED
      BY <1>1, ArgumentsAssumption
  <2>2. Size * (o + q) <= Size * Rate
    BY <1>1, <2>1 DEF Window
  <2> QED
    BY <1>1, <2>1, <2>2, Cancel, ArgumentsAssumption
<1>3. (o + q) % SizeMax = o + q
  BY <1>1, <1>2, NoWrap
<1>4. /\ outstandingReqs' = o + q
      /\ outstandingBytes'["client"] = outstandingBytes["client"] + n
      /\ pc'["client"] = "loop"
      /\ UNCHANGED <<numReqsRead, numReqsSent, times>>
  BY <1>3 DEF ClientWrote, Goto, IInv, Numbers, Procs
<1> HIDE DEF n, q
<1>5. Least(r + (o + q), Count) <= s
  BY <1>1, <1>2, ArgumentsAssumption DEF Least
<1>6. times' = [j \in 0..(Count - 1) |-> Stamp(j)']
  BY <1>4 DEF Stamping, Stamp
<1> QED
  BY <1>1, <1>2, <1>4, <1>5, <1>6 DEF Stamping

\* As long as the client's calls move whole requests, every time it reports is
\* the difference of two stamps, although stamping runs ahead of the writes.
THEOREM TimesAreAlwaysDifferences == MCSpec => []TimesAreDifferences
<1>1. MCInit => StampingInv
  <2> SUFFICES ASSUME Init PROVE Stamping
    BY DEF MCInit, StampingInv
  <2>1. /\ outstandingReqs = 0 /\ numReqsRead = 0 /\ numReqsSent = 0
        /\ outstandingBytes["client"] = 0 /\ pc["client"] = "open"
        /\ times = [j \in 0..(Count - 1) |-> "unset"]
    BY DEF Init, Procs
  <2>2. \A j \in 0..(Count - 1) : Stamp(j) = "unset"
    BY <2>1, ArgumentsAssumption DEF Stamp
  <2> QED
    BY <2>1, <2>2, ArgumentsAssumption DEF Stamping, Least
<1>2. IInv /\ StampingInv /\ [MCNext]_mcvars => StampingInv'
  <2> SUFFICES ASSUME IInv, StampingInv, [MCNext]_mcvars, ~cut'
               PROVE  Stamping'
    BY DEF StampingInv
  <2>0. ~cut
    BY Zenon DEF MCNext, mcvars
  <2>1. Stamping /\ ~cut /\ [Next]_vars
    BY <2>0, MCStep DEF StampingInv
  <2>2. /\ pc["client"] \in {"account", "wrote"} /\ pc'["client"] # pc["client"]
             => moved["client"] % Size = 0
    BY <2>1 DEF MCNext, mcvars, vars, CutsRequest
  <2>3. CASE ClientAccount
    <3>1. pc["client"] = "account" /\ pc'["client"] \in {"writing", "loop"}
      BY <2>3 DEF ClientAccount, Goto, IInv, Numbers, Procs
    <3> QED
      BY <2>1, <2>2, <2>3, <3>1, AccountStamps
  <2>4. CASE ClientWrote
    <3>1. pc["client"] = "wrote" /\ pc'["client"] = "loop"
      BY <2>4 DEF ClientWrote, Goto, IInv, Numbers, Procs
    <3> QED
      BY <2>1, <2>2, <2>4, <3>1, WroteStamps
  <2>5. CASE /\ UNCHANGED stats
             /\ outstandingBytes'["client"] = outstandingBytes["client"]
             /\ pc'["client"] \in {"writing", "wrote"} => pc["client"] \in {"writing", "wrote"}
    <3>1. \A j \in 0..(Count - 1) : Stamp(j)' = Stamp(j)
      BY <2>5 DEF Stamp, stats
    <3> QED
      BY <2>1, <2>5, <3>1 DEF Stamping, stats
  <2> QED
    BY <2>1, <2>3, <2>4, <2>5, StatsSteps
<1>3. StampingInv => TimesAreDifferences
  <2> SUFFICES ASSUME Stamping, NEW j \in 0..(ReportedCount - 1)
               PROVE  times[j] = "rtt"
    BY DEF StampingInv, TimesAreDifferences
  <2>1. j \in 0..(Count - 1) /\ j < numReqsRead
    BY ArgumentsAssumption DEF Stamping, ReportedCount, Least
  <2> QED
    BY <2>1 DEF Stamping, Stamp
<1> QED
  BY <1>1, <1>2, <1>3, MCInvariance, PTL DEF MCSpec, mcvars
-----------------------------------------------------------------------------
(***************************************************************************)
(* What the client reports of its times (Stats).                           *)
(***************************************************************************)

\* The array has its size and elements, and i stays within it.
Shape ==
    /\ size \in 1..MaxSize
    /\ arr \in [0..(size - 1) -> ULLongs]
    /\ i \in 1..size
    /\ at \in {"scan", "sort", "median", "done"}

\* min and max are elements, and no element seen so far is beyond them.
Bounds ==
    /\ {min, max} \subseteq Range(arr)
    /\ \A j \in DOMAIN arr : at # "scan" \/ j < i => min <= arr[j] /\ arr[j] <= max

InOrder == \A j, k \in DOMAIN arr : j < k => arr[j] <= arr[k]

\* ReportRight speaks of the end only; before, ordinary times get sorted, and
\* the median is the sum of the two elements in the middle.
ReportInv ==
    /\ Shape
    /\ Bounds
    /\ at \in {"median", "done"} /\ Ordinary => InOrder
    /\ at = "done" /\ Ordinary =>
          median2 = arr[(size + 1) \div 2 - 1] + arr[size \div 2]

\* The remainders compareULLongs computes are those of small differences.
LEMMA Remainders ==
    ASSUME NEW m \in Nat \ {0}, NEW q \in Nat, q > 0, NEW d \in Nat, d < m
    PROVE  /\ (d % (m * q)) % m = d
           /\ d > 0 => ((-d) % (m * q)) % m = m - d
<1>1. m * q \in Nat /\ m * q >= m
  OBVIOUS
<1>2. d % (m * q) = d /\ d % m = d
  BY <1>1
<1>3. ASSUME d > 0 PROVE ((-d) % (m * q)) % m = m - d
  <2>1. (-d) % (m * q) = m * q - d
    BY <1>1, <1>3
  <2>2. m * q - d = m * (q - 1) + (m - d)
    OBVIOUS
  <2>3. (m * (q - 1) + (m - d)) % m = m - d
    <3> DEFINE x == m * (q - 1) + (m - d)
               t == x \div m
               r == x % m
    <3>1. x \in Nat /\ m - d \in 1..(m - 1) /\ q - 1 \in Nat
      BY <1>1, <1>3, <2>2
    <3>2. r \in 0..(m - 1) /\ t \in Nat /\ x = m * t + r
      <4> HIDE DEF x
      <4> QED
        BY <3>1
    <3>3. m * (q - 1 - t) = r - (m - d)
      <4> HIDE DEF t, r
      <4> QED
        BY <3>1, <3>2
    <3>4. r - (m - d) > -m /\ r - (m - d) < m
      <4> HIDE DEF t, r
      <4> QED
        BY <3>1, <3>2
    <3>5. q - 1 - t = 0
      <4> HIDE DEF t, r
      <4>1. q - 1 - t \in Int
        BY <3>1, <3>2
      <4>2. CASE q - 1 - t >= 1
        <5>1. m * (q - 1 - t) >= m
          BY <4>1, <4>2
        <5> QED
          BY <3>2, <3>3, <3>4, <5>1
      <4>3. CASE q - 1 - t <= -1
        <5>1. m * (q - 1 - t) <= -m
          BY <4>1, <4>3
        <5> QED
          BY <3>2, <3>3, <3>4, <5>1
      <4> QED
        BY <4>1, <4>2, <4>3
    <3> HIDE DEF t
    <3> QED
      BY <3>1, <3>2, <3>3, <3>5
  <2> QED
    BY <2>1, <2>2, <2>3
<1> QED
  BY <1>2, <1>3

\* The difference of two times is not cut when an int can hold it.
LEMMA CompareIsDifference ==
    ASSUME NEW a \in ULLongs, NEW b \in ULLongs, a - b <= INT_MAX, b - a <= INT_MAX
    PROVE  compareULLongs(a, b) = a - b
<1> DEFINE m == 2 * (INT_MAX + 1)
<1>1. m \in Nat \ {0} /\ INT_MAX \in Nat /\ ULLONG_MAX \in Nat /\ a \in Nat /\ b \in Nat
  BY LimitsAssumption DEF ULLongs
<1>2. PICK q \in Nat : q > 0 /\ ULLONG_MAX + 1 = m * q
  <2>1. (ULLONG_MAX + 1) % m = 0
    BY LimitsAssumption
  <2> DEFINE q == (ULLONG_MAX + 1) \div m
  <2>2. q \in Nat /\ ULLONG_MAX + 1 = m * q
    BY <1>1, <2>1
  <2> QED
    BY <1>1, <2>2
<1>3. compareULLongs(a, b) =
        LET low == ((a - b) % (m * q)) % m IN IF low <= INT_MAX THEN low ELSE low - m
  BY <1>2 DEF compareULLongs
<1>4. CASE a >= b
  <2>1. a - b \in Nat /\ a - b < m
    BY <1>1, <1>4
  <2>2. ((a - b) % (m * q)) % m = a - b
    BY <1>1, <1>2, <2>1, Remainders
  <2> QED
    BY <1>3, <2>2
<1>5. CASE a < b
  <2>1. b - a \in Nat /\ b - a < m /\ b - a > 0 /\ a - b = -(b - a)
    BY <1>1, <1>5
  <2>2. ((-(b - a)) % (m * q)) % m = m - (b - a)
    BY <1>1, <1>2, <2>1, Remainders
  <2>3. m - (b - a) > INT_MAX
    BY <1>1
  <2> HIDE DEF m
  <2> QED
    BY <1>1, <1>3, <2>1, <2>2, <2>3
<1> QED
  BY <1>1, <1>4, <1>5

\* The size of an array is the number of its elements.
LEMMA SizeOf ==
    ASSUME NEW n \in Nat \ {0}
    PROVE  Cardinality(0..(n - 1)) = n /\ IsFiniteSet(0..(n - 1))
BY FS_Interval

\* In a sorted array the k-th smallest element is at index k - 1.
LEMMA KthInOrder ==
    ASSUME Shape, InOrder, NEW k \in 1..size
    PROVE  KthSmallest(k) = arr[k - 1]
<1> DEFINE Below(v) == {j \in DOMAIN arr : arr[j] < v}
           UpTo(v) == {j \in DOMAIN arr : arr[j] <= v}
           P(v) == Cardinality(Below(v)) < k /\ Cardinality(UpTo(v)) >= k
<1>1. /\ size \in Nat \ {0} /\ DOMAIN arr = 0..(size - 1) /\ IsFiniteSet(DOMAIN arr)
      /\ \A j \in DOMAIN arr : arr[j] \in Nat
      /\ k - 1 \in DOMAIN arr /\ k \in Nat \ {0}
  <2>1. size \in Nat \ {0}
    BY SizeAssumption DEF Shape
  <2>2. DOMAIN arr = 0..(size - 1) /\ \A j \in DOMAIN arr : arr[j] \in Nat
    BY LimitsAssumption DEF Shape, ULLongs
  <2>3. IsFiniteSet(DOMAIN arr)
    BY <2>1, <2>2, SizeOf
  <2>4. k - 1 \in DOMAIN arr /\ k \in Nat \ {0}
    BY <2>1, <2>2
  <2> QED
    BY <2>1, <2>2, <2>3, <2>4
<1>2. \A v : /\ IsFiniteSet(Below(v)) /\ IsFiniteSet(UpTo(v))
             /\ Cardinality(Below(v)) \in Nat /\ Cardinality(UpTo(v)) \in Nat
  BY <1>1, FS_Subset, FS_CardinalityType
<1>3. P(arr[k - 1])
  <2>1. Cardinality(Below(arr[k - 1])) < k
    <3>1. Below(arr[k - 1]) \subseteq 0..(k - 2)
      BY <1>1 DEF InOrder
    <3>2. IsFiniteSet(0..(k - 2)) /\ Cardinality(0..(k - 2)) = k - 1
      <4>1. k - 2 \in Int /\ 0 \in Int
        BY <1>1
      <4>2. /\ IsFiniteSet(0..(k - 2))
            /\ Cardinality(0..(k - 2)) = IF 0 > k - 2 THEN 0 ELSE k - 2 - 0 + 1
        BY <4>1, FS_Interval
      <4> QED
        BY <1>1, <4>2
    <3>3. Cardinality(Below(arr[k - 1])) \in Nat
      BY <1>2
    <3> HIDE DEF Below
    <3>4. Cardinality(Below(arr[k - 1])) <= Cardinality(0..(k - 2))
      BY <3>1, <3>2, FS_Subset
    <3> QED
      BY <1>1, <3>2, <3>3, <3>4
  <2>2. Cardinality(UpTo(arr[k - 1])) >= k
    <3>1. 0..(k - 1) \subseteq UpTo(arr[k - 1])
      BY <1>1 DEF InOrder
    <3>2. Cardinality(0..(k - 1)) = k
      BY <1>1, SizeOf
    <3>3. IsFiniteSet(UpTo(arr[k - 1])) /\ Cardinality(UpTo(arr[k - 1])) \in Nat
      BY <1>2
    <3> HIDE DEF UpTo
    <3>4. Cardinality(0..(k - 1)) <= Cardinality(UpTo(arr[k - 1]))
      BY <3>1, <3>3, FS_Subset
    <3> QED
      BY <1>1, <3>2, <3>3, <3>4
  <2> QED
    BY <2>1, <2>2
<1>4. ASSUME NEW v \in Range(arr), NEW w \in Range(arr), P(v), P(w)
      PROVE  ~(v < w)
  <2>1. SUFFICES ASSUME v < w PROVE FALSE
    OBVIOUS
  <2>2. UpTo(v) \subseteq Below(w)
    BY <1>1, <2>1 DEF Range
  <2>3. Cardinality(UpTo(v)) <= Cardinality(Below(w))
    <3> HIDE DEF UpTo, Below
    <3> QED
      BY <1>2, <2>2, FS_Subset
  <2> HIDE DEF UpTo, Below
  <2> QED
    BY <1>1, <1>2, <1>4, <2>3
<1>5. arr[k - 1] \in Range(arr) /\ \A v \in Range(arr) : v \in Nat
  BY <1>1 DEF Range
<1>6. KthSmallest(k) = CHOOSE v \in Range(arr) : P(v)
  BY DEF KthSmallest
<1> HIDE DEF P
<1>7. /\ KthSmallest(k) \in Range(arr) /\ P(KthSmallest(k))
  BY <1>3, <1>5, <1>6
<1> QED
  BY <1>3, <1>4, <1>5, <1>7

\* The scan keeps its bounds, although it tests the maximum only in an else.
LEMMA ScanKeeps ==
    ASSUME ReportInv, Scan
    PROVE  ReportInv'
<1>1. /\ size \in Nat \ {0} /\ DOMAIN arr = 0..(size - 1) /\ i \in Nat /\ i >= 1
      /\ \A j \in DOMAIN arr : arr[j] \in Nat
      /\ min \in Nat /\ max \in Nat /\ min <= max
  <2>1. /\ size \in Nat \ {0} /\ DOMAIN arr = 0..(size - 1) /\ i \in Nat /\ i >= 1
        /\ \A j \in DOMAIN arr : arr[j] \in Nat
    BY SizeAssumption, LimitsAssumption DEF ReportInv, Shape, ULLongs
  <2>2. min \in Nat /\ max \in Nat
    BY <2>1 DEF ReportInv, Bounds, Range
  <2>3. min <= arr[0] /\ arr[0] <= max /\ arr[0] \in Nat
    BY <2>1 DEF ReportInv, Bounds
  <2> QED
    BY <2>1, <2>2, <2>3
<1>2. UNCHANGED <<arr, median2, size>>
  BY DEF Scan, size
<1>3. CASE i < size
  <2>1. /\ at = "scan" /\ at' = "scan" /\ i' = i + 1 /\ i \in DOMAIN arr
        /\ min' = IF arr[i] < min THEN arr[i] ELSE min
        /\ max' = IF arr[i] >= min /\ arr[i] > max THEN arr[i] ELSE max
    BY <1>1, <1>3 DEF Scan
  <2>2. Shape'
    BY <1>1, <1>2, <1>3, <2>1 DEF ReportInv, Shape
  <2>3. {min, max}' \subseteq Range(arr)'
    BY <1>2, <2>1 DEF ReportInv, Bounds, Range
  <2>4. ASSUME NEW j \in DOMAIN arr, j < i + 1
        PROVE  min' <= arr[j] /\ arr[j] <= max'
    <3>1. CASE j < i
      <4>1. min <= arr[j] /\ arr[j] <= max
        BY <2>1, <3>1 DEF ReportInv, Bounds
      <4> QED
        BY <1>1, <2>1, <4>1
    <3>2. CASE j = i
      BY <1>1, <2>1, <3>2
    <3> QED
      BY <1>1, <2>4, <3>1, <3>2
  <2>5. Bounds'
    BY <1>2, <2>1, <2>3, <2>4 DEF Bounds
  <2> QED
    BY <2>1, <2>2, <2>5 DEF ReportInv
<1>4. CASE ~(i < size)
  <2>1. at = "scan" /\ at' = "sort" /\ UNCHANGED <<min, max, i>> /\ i = size
    BY <1>1, <1>4 DEF Scan, ReportInv, Shape
  <2>2. Shape' /\ Bounds'
    BY <1>1, <1>2, <2>1 DEF ReportInv, Shape, Bounds
  <2> QED
    BY <2>1, <2>2 DEF ReportInv
<1> QED
  BY <1>3, <1>4

\* qsort permutes the array, and sorts it when the times are ordinary.
LEMMA SortKeeps ==
    ASSUME ReportInv, Sort
    PROVE  ReportInv'
<1>1. /\ at = "sort" /\ at' = "median" /\ UNCHANGED <<i, min, max, median2>>
      /\ arr' \in qsort(arr)
  BY DEF Sort
<1>2. PICK f \in Bijection(DOMAIN arr, DOMAIN arr) : arr' = [j \in DOMAIN arr |-> arr[f[j]]]
  BY <1>1 DEF qsort, Permuted
<1>3. /\ f \in [DOMAIN arr -> DOMAIN arr]
      /\ \A t \in DOMAIN arr : \E j \in DOMAIN arr : f[j] = t
  BY DEF Bijection, Injection, Surjection
<1>4. DOMAIN arr' = DOMAIN arr /\ size' = size
  BY <1>2 DEF size
<1>5. Range(arr)' = Range(arr)
  BY <1>2, <1>3, <1>4 DEF Range
<1>6. /\ size \in Nat \ {0} /\ DOMAIN arr = 0..(size - 1)
      /\ \A j \in DOMAIN arr : arr[j] \in ULLongs /\ arr[j] \in Nat
      /\ \A j \in DOMAIN arr : min <= arr[j] /\ arr[j] <= max
      /\ {min, max} \subseteq Range(arr)
  BY <1>1, SizeAssumption, LimitsAssumption DEF ReportInv, Shape, Bounds, ULLongs
<1>7. Shape'
  <2>1. arr' \in [0..(size - 1) -> ULLongs]
    BY <1>2, <1>3, <1>6
  <2> QED
    BY <1>1, <1>4, <2>1 DEF ReportInv, Shape
<1>8. Bounds'
  <2>1. \A j \in DOMAIN arr : min <= arr'[j] /\ arr'[j] <= max
    BY <1>2, <1>3, <1>6
  <2> QED
    BY <1>1, <1>4, <1>5, <1>6, <2>1 DEF Bounds
<1>9. ASSUME Ordinary PROVE InOrder'
  <2>1. min \in Nat /\ max \in Nat /\ max - min <= INT_MAX /\ INT_MAX \in Nat
    BY <1>6, <1>9, LimitsAssumption DEF Ordinary, Range
  <2>2. \A j, k \in DOMAIN arr : compareULLongs(arr[j], arr[k]) = arr[j] - arr[k]
    <3> SUFFICES ASSUME NEW j \in DOMAIN arr, NEW k \in DOMAIN arr
                 PROVE  compareULLongs(arr[j], arr[k]) = arr[j] - arr[k]
      OBVIOUS
    <3>1. arr[j] - arr[k] <= INT_MAX /\ arr[k] - arr[j] <= INT_MAX
      <4>1. /\ arr[j] \in Nat /\ min <= arr[j] /\ arr[j] <= max
            /\ arr[k] \in Nat /\ min <= arr[k] /\ arr[k] <= max
        BY <1>6
      <4> QED
        BY <2>1, <4>1
    <3> QED
      BY <1>6, <3>1, CompareIsDifference
  <2>3. IsOrder(arr)
    <3>1. \A j, k \in DOMAIN arr :
            (compareULLongs(arr[j], arr[k]) < 0) <=> (compareULLongs(arr[k], arr[j]) > 0)
      BY <1>6, <2>2
    <3>2. \A j, k, l \in DOMAIN arr :
            compareULLongs(arr[j], arr[k]) <= 0 /\ compareULLongs(arr[k], arr[l]) <= 0 =>
                compareULLongs(arr[j], arr[l]) <= 0
      BY <1>6, <2>2
    <3> QED
      BY <3>1, <3>2 DEF IsOrder
  <2>4. \A j, k \in DOMAIN arr' : j < k => compareULLongs(arr'[j], arr'[k]) <= 0
    BY <1>1, <2>3 DEF qsort
  <2>5. ASSUME NEW j \in DOMAIN arr, NEW k \in DOMAIN arr, j < k
        PROVE  arr'[j] <= arr'[k]
    <3>1. /\ arr'[j] = arr[f[j]] /\ arr'[k] = arr[f[k]]
          /\ f[j] \in DOMAIN arr /\ f[k] \in DOMAIN arr
      BY <1>2, <1>3
    <3>2. arr[f[j]] - arr[f[k]] <= 0
      BY <1>4, <2>2, <2>4, <2>5, <3>1
    <3>3. arr[f[j]] \in Nat /\ arr[f[k]] \in Nat
      BY <1>6, <3>1
    <3> QED
      BY <3>1, <3>2, <3>3
  <2> QED
    BY <1>4, <2>5 DEF InOrder
<1>10. Ordinary' = Ordinary
  BY <1>1 DEF Ordinary
<1> QED
  BY <1>1, <1>7, <1>8, <1>9, <1>10 DEF ReportInv

\* The two elements in the middle do not wrap when they are added.
LEMMA MedianKeeps ==
    ASSUME ReportInv, Median
    PROVE  ReportInv'
<1>1. /\ at = "median" /\ at' = "done" /\ UNCHANGED <<arr, i, min, max, size>>
      /\ median2' = IF size % 2 = 0
                    THEN (arr[size \div 2 - 1] + arr[size \div 2]) % (ULLONG_MAX + 1)
                    ELSE 2 * arr[size \div 2]
  BY DEF Median, size
<1>2. Shape' /\ Bounds' /\ Ordinary' = Ordinary /\ InOrder' = InOrder
  BY <1>1 DEF ReportInv, Shape, Bounds, Ordinary, InOrder
<1>3. /\ size \in Nat \ {0} /\ DOMAIN arr = 0..(size - 1)
      /\ \A j \in DOMAIN arr : arr[j] \in Nat /\ arr[j] <= max
      /\ max \in Nat /\ ULLONG_MAX \in Nat
  <2>1. /\ size \in Nat \ {0} /\ DOMAIN arr = 0..(size - 1)
        /\ \A j \in DOMAIN arr : arr[j] \in Nat
        /\ ULLONG_MAX \in Nat
    BY SizeAssumption, LimitsAssumption DEF ReportInv, Shape, ULLongs
  <2>2. max \in Nat
    BY <2>1 DEF ReportInv, Bounds, Range
  <2>3. \A j \in DOMAIN arr : arr[j] <= max
    BY <1>1 DEF ReportInv, Bounds
  <2> QED
    BY <2>1, <2>2, <2>3
<1>4. ASSUME Ordinary
      PROVE  median2' = arr[(size + 1) \div 2 - 1] + arr[size \div 2]
  <2>1. 2 * max <= ULLONG_MAX
    BY <1>4 DEF Ordinary
  <2>2. CASE size % 2 = 0
    <3>1. /\ size \div 2 - 1 \in DOMAIN arr /\ size \div 2 \in DOMAIN arr
          /\ (size + 1) \div 2 = size \div 2
      BY <1>3, <2>2
    <3> DEFINE a == arr[size \div 2 - 1]
               b == arr[size \div 2]
    <3>2. a \in Nat /\ b \in Nat /\ a <= max /\ b <= max
      BY <1>3, <3>1
    <3> HIDE DEF a, b
    <3>3. (a + b) % (ULLONG_MAX + 1) = a + b
      BY <1>3, <2>1, <3>2
    <3> QED
      BY <1>1, <2>2, <3>1, <3>3 DEF a, b
  <2>3. CASE size % 2 # 0
    <3>1. size \div 2 \in DOMAIN arr /\ (size + 1) \div 2 - 1 = size \div 2
      BY <1>3, <2>3
    <3>2. arr[size \div 2] \in Nat
      BY <1>3, <3>1
    <3> QED
      BY <1>1, <2>3, <3>1, <3>2
  <2> QED
    BY <2>2, <2>3
<1> QED
  BY <1>1, <1>2, <1>4 DEF ReportInv

\* analyze_array reports the least and the greatest of any times, and the median
\* of times less than INT_MAX apart whose sums do not wrap, for every size of the
\* array and every width of the integers.
THEOREM ReportIsRight == AnalyzeSpec => []ReportRight
<1>1. AnalyzeInit => ReportInv
  <2> SUFFICES ASSUME AnalyzeInit PROVE ReportInv
    OBVIOUS
  <2>1. PICK n \in 1..MaxSize : arr \in [0..(n - 1) -> ULLongs]
    BY DEF AnalyzeInit
  <2>2. n \in Nat \ {0} /\ size = n /\ 0 \in DOMAIN arr
    BY <2>1, SizeAssumption, SizeOf DEF size
  <2>3. at = "scan" /\ i = 1 /\ min = arr[0] /\ max = arr[0] /\ DOMAIN arr = 0..(n - 1)
    BY <2>1 DEF AnalyzeInit
  <2>4. Shape
    BY <2>1, <2>2, <2>3 DEF Shape
  <2>5. Bounds
    <3>1. {min, max} \subseteq Range(arr)
      BY <2>2, <2>3 DEF Range
    <3>2. ASSUME NEW j \in DOMAIN arr, j < 1 PROVE min <= arr[j] /\ arr[j] <= max
      <4>1. j = 0 /\ arr[0] \in Nat
        BY <2>1, <2>2, <2>3, <3>2, LimitsAssumption DEF ULLongs
      <4> QED
        BY <2>3, <4>1
    <3> QED
      BY <2>3, <3>1, <3>2 DEF Bounds
  <2> QED
    BY <2>3, <2>4, <2>5 DEF ReportInv
<1>2. ReportInv /\ [AnalyzeNext]_analyzeVars => ReportInv'
  <2> SUFFICES ASSUME ReportInv, [AnalyzeNext]_analyzeVars PROVE ReportInv'
    OBVIOUS
  <2>1. CASE UNCHANGED analyzeVars
    BY <2>1 DEF analyzeVars, ReportInv, Shape, Bounds, Ordinary, InOrder, size, Range
  <2> QED
    BY <2>1, ScanKeeps, SortKeeps, MedianKeeps DEF AnalyzeNext
<1>3. ReportInv => ReportRight
  <2> SUFFICES ASSUME ReportInv, at = "done" PROVE ReportRight
    BY DEF ReportRight
  <2>1. /\ \A v \in Range(arr) : min <= v /\ v <= max
        /\ {min, max} \subseteq Range(arr)
    BY DEF ReportInv, Bounds, Range
  <2>2. ASSUME Ordinary
        PROVE  median2 = KthSmallest((size + 1) \div 2) + KthSmallest(size \div 2 + 1)
    <3> DEFINE a == (size + 1) \div 2
               b == size \div 2 + 1
    <3>1. /\ size \in Nat \ {0} /\ Shape /\ InOrder
          /\ median2 = arr[a - 1] + arr[size \div 2]
      BY <2>2, SizeAssumption DEF ReportInv, Shape
    <3>2. a \in 1..size /\ b \in 1..size /\ size \div 2 = b - 1
      BY <3>1
    <3> SUFFICES median2 = KthSmallest(a) + KthSmallest(b)
      OBVIOUS
    <3> HIDE DEF a, b
    <3>3. KthSmallest(a) = arr[a - 1] /\ KthSmallest(b) = arr[b - 1]
      BY <3>1, <3>2, KthInOrder
    <3> QED
      BY <3>1, <3>2, <3>3
  <2> QED
    BY <2>1, <2>2 DEF ReportRight, MedianTrue
<1> QED
  BY <1>1, <1>2, <1>3, PTL DEF AnalyzeSpec
=============================================================================
