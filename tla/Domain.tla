------------------------------- MODULE Domain -------------------------------
(***************************************************************************)
(* The domain benchmark: source/domain/client.c and source/domain/server.c *)
(* over one UNIX-domain stream socket, with blocking recv() and send() in  *)
(* read_from_socket and write_to_socket of source/domain/helper.c.  The    *)
(* kernel's socket is external: what is sent is at once in the receive     *)
(* queue of the other side.  The payload is never looked at, so a queue is *)
(* the number of bytes in it.                                              *)
(***************************************************************************)
EXTENDS Integers

CONSTANTS
    Size,        \* args->size: bytes of a request
    Rate,        \* args->rate: requests outstanding at most
    Count,       \* args->count: requests of the run
    Capacity,    \* bytes a socket takes before send() waits
    Interrupted  \* the processes that may get a SIGINT

ASSUME ArgumentsAssumption ==
    /\ Size \in Nat \ {0}
    /\ Rate \in Nat \ {0}
    /\ Count \in Nat \ {0}

ASSUME KernelAssumption == Capacity \in Nat \ {0}

Procs == {"client", "server"}

ASSUME SignalsAssumption == Interrupted \subseteq Procs

Window == Size * Rate      \* maxOutstandingBytes, and the buffers' size
MaxBytes == Size * Count   \* maxBytes

Other(p) == IF p = "client" THEN "server" ELSE "client"
Least(a, b) == IF a < b THEN a ELSE b

VARIABLES
    pc,         \* where each process is
    hello,      \* the byte in SOCKET_FIFO that says the server listens
    connected,  \* connect() succeeded
    queue,      \* bytes in the receive queue of each process
    closed,     \* the processes that closed their end
    quit,       \* the flag the signal handlers set
    canRead, canWrite,   \* what the last poll() told each process
    firstRead,  \* the server has read nothing yet and polls for POLLIN only
    moved,      \* bytes moved by the helper call in progress
    outstandingBytes,
    total,      \* client totalBytesRead, server totalBytesWritten
    outstandingReqs, numReqsRead, numReqsSent,
    times       \* what the client's times[] holds

startup == <<hello, connected>>
kernel == <<queue, closed>>
polled == <<canRead, canWrite, firstRead>>
window == <<moved, outstandingBytes, total>>
stats == <<outstandingReqs, numReqsRead, numReqsSent, times>>
vars == <<pc, hello, connected, queue, closed, quit, canRead, canWrite,
          firstRead, moved, outstandingBytes, total, outstandingReqs,
          numReqsRead, numReqsSent, times>>

Starting == {"listen", "announce", "accept", "open", "hello", "connect"}
Running == {"loop", "read", "reading", "account", "writing", "wrote", "evaluate"}
Ended == {"done", "aborted", "dead"}

\* An entry of times[]: never written, the time of the write, the time the
\* answer took, or a difference of something that was no write time.
Stamps == {"unset", "sent", "rtt", "bad"}

TypeOK ==
    /\ pc \in [Procs -> Starting \cup Running \cup Ended]
    /\ hello \in BOOLEAN
    /\ connected \in BOOLEAN
    /\ queue \in [Procs -> 0..Capacity]
    /\ closed \subseteq Procs
    /\ quit \in [Procs -> BOOLEAN]
    /\ canRead \in [Procs -> BOOLEAN]
    /\ canWrite \in [Procs -> BOOLEAN]
    /\ firstRead \in BOOLEAN
    /\ moved \in [Procs -> 0..Window]
    /\ outstandingBytes \in [Procs -> 0..Window]
    /\ total \in [Procs -> 0..(MaxBytes + Window)]
    /\ outstandingReqs \in Nat
    /\ numReqsRead \in Nat
    /\ numReqsSent \in Nat
    /\ times \in [0..(Count - 1) -> Stamps]

Init ==
    /\ pc = [p \in Procs |-> IF p = "client" THEN "open" ELSE "listen"]
    /\ hello = FALSE
    /\ connected = FALSE
    /\ queue = [p \in Procs |-> 0]
    /\ closed = {}
    /\ quit = [p \in Procs |-> FALSE]
    /\ canRead = [p \in Procs |-> FALSE]
    /\ canWrite = [p \in Procs |-> FALSE]
    /\ firstRead = TRUE
    /\ moved = [p \in Procs |-> 0]
    /\ outstandingBytes = [p \in Procs |-> 0]
    /\ total = [p \in Procs |-> 0]
    /\ outstandingReqs = 0
    /\ numReqsRead = 0
    /\ numReqsSent = 0
    /\ times = [i \in 0..(Count - 1) |-> "unset"]

Goto(p, label) == pc' = [pc EXCEPT ![p] = label]

\* What poll() reports: a closed peer makes the socket readable and writable.
Readable(p) == queue[p] > 0 \/ Other(p) \in closed
Writable(p) == queue[Other(p)] < Capacity \/ Other(p) \in closed
-----------------------------------------------------------------------------
(***************************************************************************)
(* main: the server listens, says so in SOCKET_FIFO and accepts; the       *)
(* client waits for the byte and connects.                                 *)
(***************************************************************************)

ServerListen ==
    /\ pc["server"] = "listen"
    /\ Goto("server", "announce")
    /\ UNCHANGED <<startup, kernel, quit, polled, window, stats>>

ServerAnnounce ==
    /\ pc["server"] = "announce"
    /\ hello' = TRUE
    /\ Goto("server", "accept")
    /\ UNCHANGED <<connected, kernel, quit, polled, window, stats>>

ServerAccept ==
    /\ pc["server"] = "accept"
    /\ connected
    /\ Goto("server", "loop")
    /\ UNCHANGED <<startup, kernel, quit, polled, window, stats>>

\* open_fifo(SOCKET_FIFO_PATH, O_RDWR) never waits.
ClientOpen ==
    /\ pc["client"] = "open"
    /\ Goto("client", "hello")
    /\ UNCHANGED <<startup, kernel, quit, polled, window, stats>>

\* Mutant: the client does not wait for the byte.
ClientHelloWaitsNot ==
    /\ pc["client"] = "hello"
    /\ hello' = FALSE
    /\ Goto("client", "connect")
    /\ UNCHANGED <<connected, kernel, quit, polled, window, stats>>

ClientHello ==
    /\ pc["client"] = "hello"
    /\ hello
    /\ hello' = FALSE
    /\ Goto("client", "connect")
    /\ UNCHANGED <<connected, kernel, quit, polled, window, stats>>

\* connect() returns as soon as the connection is in the queue of a socket that
\* listens; setup_socket ends the program when it fails.
ClientConnect ==
    /\ pc["client"] = "connect"
    /\ connected' = (pc["server"] \in {"announce", "accept"})
    /\ Goto("client", IF connected' THEN "loop" ELSE "dead")
    /\ UNCHANGED <<hello, kernel, quit, polled, window, stats>>
-----------------------------------------------------------------------------
(***************************************************************************)
(* helper.c: recv() or send() of one chunk after the other, until all is   *)
(* moved or a call moves nothing.  Each action is one recv() or one piece  *)
(* of a send().                                                            *)
(***************************************************************************)

\* Mutant: recv() is called with MSG_DONTWAIT.
read_from_socket_DontWait(p, numBytesToRead) ==
    LET bytes_read == Least(queue[p], Least(Size, numBytesToRead - moved[p]))
    IN /\ pc[p] = "reading"
       /\ queue' = [queue EXCEPT ![p] = @ - bytes_read]
       /\ moved' = [moved EXCEPT ![p] = @ + bytes_read]
       /\ IF queue[p] > 0 /\ moved[p] + bytes_read < numBytesToRead
          THEN UNCHANGED pc
          ELSE Goto(p, "account")
       /\ UNCHANGED <<startup, closed, quit, polled, outstandingBytes, total, stats>>

\* recv() waits for a byte or the end of the stream.
read_from_socket(p, numBytesToRead) ==
    LET bytes_read == Least(queue[p], Least(Size, numBytesToRead - moved[p]))
    IN /\ pc[p] = "reading"
       /\ Readable(p)
       /\ queue' = [queue EXCEPT ![p] = @ - bytes_read]
       /\ moved' = [moved EXCEPT ![p] = @ + bytes_read]
       /\ IF queue[p] > 0 /\ moved[p] + bytes_read < numBytesToRead
          THEN UNCHANGED pc
          ELSE Goto(p, "account")
       /\ UNCHANGED <<startup, closed, quit, polled, outstandingBytes, total, stats>>

\* A send() to a peer that has closed fails, and SIGPIPE sets quit; one that was
\* waiting for room when the peer closed fails without the signal.  It then
\* waited after its first piece, because poll() had seen room.
write_to_socket(p, numBytesToWrite) ==
    /\ pc[p] = "writing"
    /\ \/ /\ Other(p) \notin closed
          /\ \E bytes_written \in 1..Least(Capacity - queue[Other(p)],
                                          Least(Size, numBytesToWrite - moved[p])) :
                /\ queue' = [queue EXCEPT ![Other(p)] = @ + bytes_written]
                /\ moved' = [moved EXCEPT ![p] = @ + bytes_written]
                /\ IF moved[p] + bytes_written < numBytesToWrite
                   THEN UNCHANGED pc
                   ELSE Goto(p, "wrote")
          /\ UNCHANGED quit
       \/ /\ Other(p) \in closed
          /\ \/ quit' = [quit EXCEPT ![p] = TRUE]
             \/ moved[p] > 0 /\ queue[Other(p)] = Capacity /\ UNCHANGED quit
          /\ Goto(p, "wrote")
          /\ UNCHANGED <<queue, moved>>
    /\ UNCHANGED <<startup, closed, polled, outstandingBytes, total, stats>>
-----------------------------------------------------------------------------
(***************************************************************************)
(* communicate, the parts both programs share.                             *)
(***************************************************************************)

\* Mutant: the loop does not test quit.
LoopOverIgnoresQuit(p) == total[p] >= MaxBytes
LoopOver(p) == total[p] >= MaxBytes \/ quit[p]

PollsWrite(p) == p = "client" \/ ~firstRead

\* The loop's test, checkPoll and the quit test behind it.  A poll() that
\* waits may time out, so it returns in any state.
Poll(p) ==
    /\ pc[p] = "loop"
    /\ IF LoopOver(p)
       THEN Goto(p, "evaluate") /\ UNCHANGED <<canRead, canWrite>>
       ELSE /\ canRead' = [canRead EXCEPT ![p] = Readable(p)]
            /\ canWrite' = [canWrite EXCEPT ![p] = PollsWrite(p) /\ Writable(p)]
            /\ Goto(p, "read")
    /\ UNCHANGED <<startup, kernel, quit, firstRead, window, stats>>

\* if (canRead && quit == 0) read_from_socket(...), which asks for nothing
\* when numBytesToRead is 0.
TryRead(p, numBytesToRead) ==
    /\ pc[p] = "read"
    /\ Goto(p, IF canRead[p] /\ ~quit[p] /\ numBytesToRead > 0
               THEN "reading" ELSE "account")
    /\ UNCHANGED <<startup, kernel, quit, polled, window, stats>>
-----------------------------------------------------------------------------
(***************************************************************************)
(* client.c                                                                *)
(***************************************************************************)

ClientTryRead == TryRead("client", outstandingBytes["client"])

ClientRead == read_from_socket("client", outstandingBytes["client"])

\* times[i] for startIndex <= i < startIndex + numToUpdate, never past the end.
updateWriteTimes(ts, startIndex, numToUpdate) ==
    [i \in DOMAIN ts |->
        IF startIndex <= i /\ i < startIndex + numToUpdate THEN "sent" ELSE ts[i]]

updateReadWriteTimes(ts, startIndex, numToUpdate) ==
    [i \in DOMAIN ts |->
        IF startIndex <= i /\ i < startIndex + numToUpdate
        THEN IF ts[i] = "sent" THEN "rtt" ELSE "bad"
        ELSE ts[i]]

\* Mutant: a request begun counts as whole.
wholeReqsRoundedUp(n) == (n + Size - 1) \div Size
wholeReqs(n) == n \div Size

\* From the return of read_from_socket to the decision to call
\* write_to_socket.  The write times of the requests that fill the window are
\* taken here, before any is written.
ClientAccount ==
    LET done == moved["client"]
        left == outstandingBytes["client"] - done
        reqs == outstandingReqs - wholeReqs(done)
        fill == IF reqs < Rate THEN Rate - reqs ELSE 0
    IN /\ pc["client"] = "account"
       /\ outstandingBytes' = [outstandingBytes EXCEPT !["client"] = left]
       /\ total' = [total EXCEPT !["client"] = @ + done]
       /\ outstandingReqs' = reqs
       /\ numReqsRead' = numReqsRead + wholeReqs(done)
       /\ times' = updateWriteTimes(
                     updateReadWriteTimes(times, numReqsRead, wholeReqs(done)),
                     numReqsSent, fill)
       /\ numReqsSent' = numReqsSent + fill
       /\ moved' = [moved EXCEPT !["client"] = 0]
       /\ Goto("client", IF canWrite["client"] /\ left < Window /\ ~quit["client"]
                         THEN "writing" ELSE "loop")
       /\ UNCHANGED <<startup, kernel, quit, polled>>

ClientFill == Window - outstandingBytes["client"]

ClientWrite == write_to_socket("client", ClientFill)

ClientWrote ==
    /\ pc["client"] = "wrote"
    /\ outstandingBytes' =
          [outstandingBytes EXCEPT !["client"] = @ + moved["client"]]
    /\ outstandingReqs' = outstandingReqs + wholeReqs(moved["client"])
    /\ moved' = [moved EXCEPT !["client"] = 0]
    /\ Goto("client", "loop")
    /\ UNCHANGED <<startup, kernel, quit, polled, total, numReqsRead, numReqsSent,
                   times>>

\* args->count as evaluateClient gets it.
ReportedCount == Least(numReqsRead, Count)

\* evaluateClient asserts that the count is positive, cleanup closes; so does
\* an abort.
ClientEvaluate ==
    /\ pc["client"] = "evaluate"
    /\ Goto("client", IF ReportedCount > 0 THEN "done" ELSE "aborted")
    /\ closed' = closed \cup {"client"}
    /\ UNCHANGED <<startup, queue, quit, polled, window, stats>>
-----------------------------------------------------------------------------
(***************************************************************************)
(* server.c                                                                *)
(***************************************************************************)

toRead ==
    IF outstandingBytes["server"] > Window THEN outstandingBytes["server"] ELSE Window

ServerTryRead == TryRead("server", toRead)

ServerRead == read_from_socket("server", toRead)

\* Mutant: the server never adds POLLOUT to its events.
ServerAccountPollsReadOnly ==
    LET toWrite == outstandingBytes["server"] + moved["server"]
    IN /\ pc["server"] = "account"
       /\ outstandingBytes' = [outstandingBytes EXCEPT !["server"] = toWrite]
       /\ moved' = [moved EXCEPT !["server"] = 0]
       /\ Goto("server", IF canWrite["server"] /\ ~quit["server"] /\ toWrite > 0
                         THEN "writing" ELSE "loop")
       /\ UNCHANGED <<startup, kernel, quit, polled, total, stats>>

\* From the return of read_from_socket to the decision to call write_to_socket.
ServerAccount ==
    LET toWrite == outstandingBytes["server"] + moved["server"]
    IN /\ pc["server"] = "account"
       /\ outstandingBytes' = [outstandingBytes EXCEPT !["server"] = toWrite]
       /\ firstRead' = (firstRead /\ moved["server"] = 0)
       /\ moved' = [moved EXCEPT !["server"] = 0]
       /\ Goto("server", IF canWrite["server"] /\ ~quit["server"] /\ toWrite > 0
                         THEN "writing" ELSE "loop")
       /\ UNCHANGED <<startup, kernel, quit, canRead, canWrite, total, stats>>

ServerWrite == write_to_socket("server", outstandingBytes["server"])

\* Mutant: the server forgets that what it wrote is no longer outstanding.
ServerWroteKeepsBacklog ==
    /\ pc["server"] = "wrote"
    /\ total' = [total EXCEPT !["server"] = @ + moved["server"]]
    /\ moved' = [moved EXCEPT !["server"] = 0]
    /\ Goto("server", "loop")
    /\ UNCHANGED <<startup, kernel, quit, polled, outstandingBytes, stats>>

ServerWrote ==
    /\ pc["server"] = "wrote"
    /\ total' = [total EXCEPT !["server"] = @ + moved["server"]]
    /\ outstandingBytes' =
          [outstandingBytes EXCEPT !["server"] = @ - moved["server"]]
    /\ moved' = [moved EXCEPT !["server"] = 0]
    /\ Goto("server", "loop")
    /\ UNCHANGED <<startup, kernel, quit, polled, stats>>

\* evaluateServer only prints; cleanup closes.
ServerEvaluate ==
    /\ pc["server"] = "evaluate"
    /\ Goto("server", "done")
    /\ closed' = closed \cup {"server"}
    /\ UNCHANGED <<startup, queue, quit, polled, window, stats>>
-----------------------------------------------------------------------------
(***************************************************************************)
(* Signals.  Before main installs quit_signal_handler a SIGINT ends the    *)
(* process, and the byte in SOCKET_FIFO goes when the server, its only     *)
(* holder, ends before the client has opened it.  Afterwards it sets quit, *)
(* and because sa_flags is never initialised a recv() or send() that waits *)
(* may return EINTR or be restarted.                                       *)
(***************************************************************************)

Killed(p) ==
    /\ p \in Interrupted
    /\ pc[p] \in Starting
    /\ Goto(p, "dead")
    /\ hello' = (hello /\ (p = "client" \/ pc["client"] # "open"))
    /\ closed' = closed \cup {p}
    /\ UNCHANGED <<connected, queue, quit, polled, window, stats>>

quit_signal_handler(p) ==
    /\ p \in Interrupted
    /\ pc[p] \in Running
    /\ quit' = [quit EXCEPT ![p] = TRUE]
    /\ UNCHANGED <<pc, startup, kernel, polled, window, stats>>

SleepInterrupted(p) ==
    /\ p \in Interrupted
    /\ \/ pc[p] = "reading" /\ ~Readable(p) /\ Goto(p, "account")
       \/ pc[p] = "writing" /\ ~Writable(p) /\ Goto(p, "wrote")
    /\ quit' = [quit EXCEPT ![p] = TRUE]
    /\ UNCHANGED <<startup, kernel, polled, window, stats>>
-----------------------------------------------------------------------------
Client ==
    \/ ClientOpen \/ ClientHello \/ ClientConnect
    \/ Poll("client") \/ ClientTryRead \/ ClientRead \/ ClientAccount
    \/ ClientWrite \/ ClientWrote \/ ClientEvaluate

Server ==
    \/ ServerListen \/ ServerAnnounce \/ ServerAccept
    \/ Poll("server") \/ ServerTryRead \/ ServerRead \/ ServerAccount
    \/ ServerWrite \/ ServerWrote \/ ServerEvaluate

Signal == \E p \in Procs : Killed(p) \/ quit_signal_handler(p) \/ SleepInterrupted(p)

Next == Client \/ Server \/ Signal

\* Both processes run on a CPU of their own (CPU_SET 3 and 5).  Signals are
\* never forced.
Fairness == WF_vars(Client) /\ WF_vars(Server)

Spec == Init /\ [][Next]_vars /\ Fairness
-----------------------------------------------------------------------------
\* What the calls in progress have moved already.
InRead(p) == IF pc[p] \in {"reading", "account"} THEN moved[p] ELSE 0
InWrite(p) == IF pc[p] \in {"writing", "wrote"} THEN moved[p] ELSE 0

\* Every byte the client counts as outstanding is in a receive queue or counted
\* as outstanding by the server, and there are never more of them than
\* maxOutstandingBytes, whatever is interrupted or closed.
WindowConserved ==
    /\ outstandingBytes["client"] + InWrite("client") - InRead("client")
         = queue["client"] + queue["server"]
           + outstandingBytes["server"] + InRead("server") - InWrite("server")
    /\ outstandingBytes["client"] + InWrite("client") <= Window

\* The blocking helpers make client and server exchange whole windows: at the
\* top of a loop that was not told to quit, all or none of a window is
\* outstanding, however small the sockets are.
WholeWindows ==
    \A p \in Procs :
        pc[p] = "loop" /\ closed = {} /\ (\A q \in Procs : ~quit[q]) =>
            outstandingBytes[p] \in {0, Window}

\* Every time evaluateClient reports is the time from the write of a request
\* to the arrival of its whole answer, also when the run was cut short.
StampsExact ==
    pc["client"] = "done" =>
        /\ \A i \in 0..(ReportedCount - 1) : times[i] = "rtt"
        /\ Size * ReportedCount <= total["client"]

\* A process that was told to quit ends whatever the other one does, although
\* no loop of helper.c looks at quit and its calls block.
QuitEnds == \A p \in Procs : quit[p] ~> (pc[p] \in Ended)

\* domain keeps the promise of FlowControl.
Flow == INSTANCE FlowControl WITH
    Window <- Window,
    sent <- total["client"] + outstandingBytes["client"] + InWrite("client"),
    accepted <- total["server"] + outstandingBytes["server"] + InRead("server"),
    echoed <- total["server"] + InWrite("server"),
    received <- total["client"] + InRead("client")

\* Every step of the two programs is a step of the flow-control specification
\* or none.
FlowSpec == Flow!Spec
=============================================================================
