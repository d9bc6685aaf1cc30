-------------------------------- MODULE Tcp --------------------------------
(***************************************************************************)
(* The tcp benchmark: source/tcp/client.c and source/tcp/server.c over one *)
(* connection with non-blocking sockets, and read_from_socket and          *)
(* write_to_socket of source/tcp/helper.c.  The payload is never looked    *)
(* at, so a socket buffer is the number of bytes in it.  The kernel's TCP  *)
(* (buffers, segmentation, FIN and RST) is external and modelled from what *)
(* the calls of the two programs rely on.                                  *)
(***************************************************************************)
EXTENDS Integers

CONSTANTS
    Size,        \* args->size: bytes of a request
    Rate,        \* args->rate: requests outstanding at most
    Count,       \* args->count: requests of the run
    SndCap,      \* room in the send buffer of a socket
    RcvCap,      \* room in the receive buffer of a socket
    SizeMax,     \* 2^64 in the code: outstandingReqs is a size_t
    Interrupted  \* the processes that may get a SIGINT

ASSUME ArgumentsAssumption ==
    /\ Size \in Nat \ {0}
    /\ Rate \in Nat \ {0}
    /\ Count \in Nat \ {0}

ASSUME KernelAssumption ==
    /\ SndCap \in Nat \ {0}
    /\ RcvCap \in Nat \ {0}
    /\ SizeMax \in Nat /\ SizeMax > Rate

Procs == {"client", "server"}

ASSUME SignalsAssumption == Interrupted \subseteq Procs

Window == Size * Rate      \* maxOutstandingBytes, and the buffers' size
MaxBytes == Size * Count   \* maxBytes

Other(p) == IF p = "client" THEN "server" ELSE "client"
Least(a, b) == IF a < b THEN a ELSE b

VARIABLES
    pc,         \* where each process is
    hello,      \* the byte in TCP_FIFO that says the server listens
    connected,  \* connect() succeeded
    snd,        \* sent and not yet delivered, in the send buffer of each process
    rcv,        \* delivered and not yet received by each process
    closed,     \* the processes that closed their end
    reset,      \* has the connection been reset, and has the process seen it
    lost,       \* bytes dropped by a reset
    quit,       \* the flag the signal handlers set
    canRead, canWrite,   \* what the last poll() told each process
    pollsWrite, \* the server's events hold POLLOUT
    moved,      \* bytes moved by the helper call in progress
    outstandingBytes,
    total,      \* client totalBytesRead, server totalBytesWritten
    outstandingReqs, numReqsRead, numReqsSent,
    times       \* what the client's times[] holds

startup == <<hello, connected>>
kernel == <<snd, rcv, closed, reset, lost>>
polled == <<canRead, canWrite, pollsWrite>>
window == <<moved, outstandingBytes, total>>
stats == <<outstandingReqs, numReqsRead, numReqsSent, times>>
vars == <<pc, hello, connected, snd, rcv, closed, reset, lost, quit, canRead,
          canWrite, pollsWrite, moved, outstandingBytes, total,
          outstandingReqs, numReqsRead, numReqsSent, times>>

Starting == {"listen", "announce", "accept", "open", "hello", "connect"}
Running == {"loop", "read", "reading", "account", "writing", "wrote", "evaluate"}
Ended == {"done", "aborted", "dead"}

\* An entry of times[]: never written, the time of the write, the time the
\* answer took, or a difference of something that was no write time.
Stamps == {"unset", "sent", "rtt", "bad"}

TypeOK ==
    /\ pc \in [Procs -> Starting \cup Running \cup Ended]
    /\ hello \in BOOLEAN
    /\ connected \in BOOLEAN
    /\ snd \in [Procs -> 0..SndCap]
    /\ rcv \in [Procs -> 0..RcvCap]
    /\ closed \subseteq Procs
    /\ reset \in [Procs -> {"no", "pending", "seen"}]
    /\ lost \in 0..Window
    /\ quit \in [Procs -> BOOLEAN]
    /\ canRead \in [Procs -> BOOLEAN]
    /\ canWrite \in [Procs -> BOOLEAN]
    /\ pollsWrite \in BOOLEAN
    /\ moved \in [Procs -> 0..Window]
    /\ outstandingBytes \in [Procs -> 0..Window]
    /\ total \in [Procs -> 0..(MaxBytes + Window)]
    /\ outstandingReqs \in 0..(SizeMax - 1)
    /\ numReqsRead \in 0..(Count + Rate)
    /\ numReqsSent \in 0..Count
    /\ times \in [0..(Count - 1) -> Stamps]

Init ==
    /\ pc = [p \in Procs |-> IF p = "client" THEN "open" ELSE "listen"]
    /\ hello = FALSE
    /\ connected = FALSE
    /\ snd = [p \in Procs |-> 0]
    /\ rcv = [p \in Procs |-> 0]
    /\ closed = {}
    /\ reset = [p \in Procs |-> "no"]
    /\ lost = 0
    /\ quit = [p \in Procs |-> FALSE]
    /\ canRead = [p \in Procs |-> FALSE]
    /\ canWrite = [p \in Procs |-> FALSE]
    /\ pollsWrite = FALSE
    /\ moved = [p \in Procs |-> 0]
    /\ outstandingBytes = [p \in Procs |-> 0]
    /\ total = [p \in Procs |-> 0]
    /\ outstandingReqs = 0
    /\ numReqsRead = 0
    /\ numReqsSent = 0
    /\ times = [i \in 0..(Count - 1) |-> "unset"]

Goto(p, label) == pc' = [pc EXCEPT ![p] = label]
-----------------------------------------------------------------------------
(***************************************************************************)
(* The kernel's connection.                                                *)
(***************************************************************************)

\* A reset drops what is in either send buffer; q, if it still has the socket,
\* is told by the error of its next call.
Reset(q) ==
    /\ reset' = [reset EXCEPT ![q] = IF @ = "no" THEN "pending" ELSE @]
    /\ lost' = lost + snd["client"] + snd["server"]
    /\ snd' = [p \in Procs |-> 0]

\* Segments carry any part of the send buffer.  What arrives at a closed
\* socket is answered by a reset.
Deliver(p) ==
    /\ snd[p] > 0
    /\ IF Other(p) \in closed
       THEN Reset(p) /\ UNCHANGED rcv
       ELSE /\ \E k \in 1..Least(snd[p], RcvCap - rcv[Other(p)]) :
                  /\ snd' = [snd EXCEPT ![p] = @ - k]
                  /\ rcv' = [rcv EXCEPT ![Other(p)] = @ + k]
            /\ UNCHANGED <<reset, lost>>
    /\ UNCHANGED <<pc, startup, closed, quit, polled, window, stats>>

\* close() of a socket with unread bytes, or of a listener whose connection
\* was not accepted, resets the connection; any other sends its FIN behind
\* the bytes in the send buffer.
Close(p) ==
    /\ closed' = closed \cup {p}
    /\ IF connected /\ (rcv[p] > 0 \/ pc[p] = "accept")
       THEN Reset(Other(p))
       ELSE UNCHANGED <<snd, reset, lost>>
    /\ UNCHANGED rcv

EndOfFile(p) == Other(p) \in closed /\ snd[Other(p)] = 0

Readable(p) == rcv[p] > 0 \/ EndOfFile(p) \/ reset[p] # "no"
Writable(p) == snd[p] < SndCap \/ reset[p] # "no"
-----------------------------------------------------------------------------
(***************************************************************************)
(* main: the server listens, says so in TCP_FIFO and accepts; the client   *)
(* waits for the byte and connects.                                        *)
(***************************************************************************)

ServerListen ==
    /\ pc["server"] = "listen"
    /\ Goto("server", "announce")
    /\ UNCHANGED <<startup, kernel, quit, polled, window, stats>>

ServerAnnounce ==
    /\ pc["server"] = "announce"
    /\ hello' = TRUE
    /\ Goto("server", "accept")
    /\ UNCHANGED <<connected, kernel, quit, polled, window, stats>>

ServerAccept ==
    /\ pc["server"] = "accept"
    /\ connected
    /\ Goto("server", "loop")
    /\ UNCHANGED <<startup, kernel, quit, polled, window, stats>>

\* open_fifo(TCP_FIFO_PATH, O_RDWR) never waits.
ClientOpen ==
    /\ pc["client"] = "open"
    /\ Goto("client", "hello")
    /\ UNCHANGED <<startup, kernel, quit, polled, window, stats>>

\* Mutant: the client does not wait for the byte.
ClientHelloWaitsNot ==
    /\ pc["client"] = "hello"
    /\ hello' = FALSE
    /\ Goto("client", "connect")
    /\ UNCHANGED <<connected, kernel, quit, polled, window, stats>>

ClientHello ==
    /\ pc["client"] = "hello"
    /\ hello
    /\ hello' = FALSE
    /\ Goto("client", "connect")
    /\ UNCHANGED <<connected, kernel, quit, polled, window, stats>>

\* The kernel completes the connection of a socket that listens.  Otherwise
\* get_address returns -1, which create_socket takes for a descriptor, and
\* setup_socket ends the program.
ClientConnect ==
    /\ pc["client"] = "connect"
    /\ connected' = (pc["server"] \in {"announce", "accept"})
    /\ Goto("client", IF connected' THEN "loop" ELSE "dead")
    /\ UNCHANGED <<hello, kernel, quit, polled, window, stats>>
-----------------------------------------------------------------------------
(***************************************************************************)
(* helper.c: one recv() or send() with MSG_DONTWAIT per action, until all  *)
(* is moved or a call moves nothing.                                       *)
(***************************************************************************)

read_from_socket(p, numBytesToRead) ==
    LET bytes_read == Least(rcv[p], Least(Size, numBytesToRead - moved[p]))
    IN /\ pc[p] = "reading"
       /\ rcv' = [rcv EXCEPT ![p] = @ - bytes_read]
       /\ moved' = [moved EXCEPT ![p] = @ + bytes_read]
       /\ IF rcv[p] > 0 /\ moved[p] + bytes_read < numBytesToRead
          THEN UNCHANGED pc
          ELSE Goto(p, "account")
       /\ reset' = [reset EXCEPT ![p] =
                      IF rcv[p] = 0 /\ @ = "pending" THEN "seen" ELSE @]
       /\ UNCHANGED <<startup, snd, closed, lost, quit, polled,
                      outstandingBytes, total, stats>>

\* The first send() after a reset reports it, with or without a SIGPIPE; each
\* later one raises SIGPIPE, whose handler sets quit.
write_to_socket(p, numBytesToWrite) ==
    /\ pc[p] = "writing"
    /\ \/ /\ reset[p] = "no"
          /\ LET bytes_written == Least(SndCap - snd[p],
                                        Least(Size, numBytesToWrite - moved[p]))
             IN /\ snd' = [snd EXCEPT ![p] = @ + bytes_written]
                /\ moved' = [moved EXCEPT ![p] = @ + bytes_written]
                /\ IF bytes_written > 0 /\ moved[p] + bytes_written < numBytesToWrite
                   THEN UNCHANGED pc
                   ELSE Goto(p, "wrote")
          /\ UNCHANGED <<reset, quit>>
       \/ /\ reset[p] # "no"
          /\ reset' = [reset EXCEPT ![p] = "seen"]
          /\ quit' \in {[quit EXCEPT ![p] = TRUE],
                        [quit EXCEPT ![p] = @ \/ reset[p] = "seen"]}
          /\ Goto(p, "wrote")
          /\ UNCHANGED <<snd, moved>>
    /\ UNCHANGED <<startup, rcv, closed, lost, polled, outstandingBytes, total, stats>>
-----------------------------------------------------------------------------
(***************************************************************************)
(* communicate, the parts both programs share.                             *)
(***************************************************************************)

\* Mutant: the loop does not test quit.
LoopOverIgnoresQuit(p) == total[p] >= MaxBytes

LoopOver(p) == total[p] >= MaxBytes \/ quit[p]

PollsWrite(p) == p = "client" \/ pollsWrite

\* The loop's test, checkPoll and the quit test behind it.  A poll() that
\* waits may time out, so it returns in any state.
Poll(p) ==
    /\ pc[p] = "loop"
    /\ IF LoopOver(p)
       THEN Goto(p, "evaluate") /\ UNCHANGED <<canRead, canWrite>>
       ELSE /\ canRead' = [canRead EXCEPT ![p] = Readable(p)]
            /\ canWrite' = [canWrite EXCEPT ![p] = PollsWrite(p) /\ Writable(p)]
            /\ Goto(p, "read")
    /\ UNCHANGED <<startup, kernel, quit, pollsWrite, window, stats>>

\* if (canRead && quit == 0) read_from_socket(...), which asks for nothing
\* when numBytesToRead is 0.
TryRead(p, numBytesToRead) ==
    /\ pc[p] = "read"
    /\ Goto(p, IF canRead[p] /\ ~quit[p] /\ numBytesToRead > 0
               THEN "reading" ELSE "account")
    /\ UNCHANGED <<startup, kernel, quit, polled, window, stats>>
-----------------------------------------------------------------------------
(***************************************************************************)
(* client.c                                                                *)
(***************************************************************************)

ClientTryRead == TryRead("client", outstandingBytes["client"])

ClientRead == read_from_socket("client", outstandingBytes["client"])

\* times[i] for startIndex <= i < startIndex + numToUpdate, never past the end.
updateWriteTimes(ts, startIndex, numToUpdate) ==
    [i \in DOMAIN ts |->
        IF startIndex <= i /\ i < startIndex + numToUpdate THEN "sent" ELSE ts[i]]

updateReadWriteTimes(ts, startIndex, numToUpdate) ==
    [i \in DOMAIN ts |->
        IF startIndex <= i /\ i < startIndex + numToUpdate
        THEN IF ts[i] = "sent" THEN "rtt" ELSE "bad"
        ELSE ts[i]]

\* Mutant: a request begun counts as whole.
wholeReqsRoundedUp(n) == (n + Size - 1) \div Size
wholeReqs(n) == n \div Size

\* From the return of read_from_socket to the decision to call
\* write_to_socket.  Requests are stamped whether or not they can be written,
\* and again a window further in the next pass, so numReqsSent runs ahead; past
\* Count it stamps nothing, so the model lets it stop there.
ClientAccount ==
    LET done == moved["client"]
        left == outstandingBytes["client"] - done
        reqs == (outstandingReqs - wholeReqs(done)) % SizeMax
        fill == IF reqs < Rate THEN Rate - reqs ELSE 0
    IN /\ pc["client"] = "account"
       /\ outstandingBytes' = [outstandingBytes EXCEPT !["client"] = left]
       /\ total' = [total EXCEPT !["client"] = @ + done]
       /\ outstandingReqs' = reqs
       /\ numReqsRead' = numReqsRead + wholeReqs(done)
       /\ times' = updateWriteTimes(
                     updateReadWriteTimes(times, numReqsRead, wholeReqs(done)),
                     numReqsSent, fill)
       /\ numReqsSent' = Least(numReqsSent + fill, Count)
       /\ moved' = [moved EXCEPT !["client"] = 0]
       /\ Goto("client", IF canWrite["client"] /\ left < Window /\ ~quit["client"]
                         THEN "writing" ELSE "loop")
       /\ UNCHANGED <<startup, kernel, quit, polled>>

ClientFill == Window - outstandingBytes["client"]

ClientWrite == write_to_socket("client", ClientFill)

\* Mutant: outstandingReqs forgets what is written.
ClientWroteForgetsReqs ==
    /\ pc["client"] = "wrote"
    /\ outstandingBytes' =
          [outstandingBytes EXCEPT !["client"] = @ + moved["client"]]
    /\ moved' = [moved EXCEPT !["client"] = 0]
    /\ Goto("client", "loop")
    /\ UNCHANGED <<startup, kernel, quit, polled, total, stats>>

ClientWrote ==
    /\ pc["client"] = "wrote"
    /\ outstandingBytes' =
          [outstandingBytes EXCEPT !["client"] = @ + moved["client"]]
    /\ outstandingReqs' = (outstandingReqs + wholeReqs(moved["client"])) % SizeMax
    /\ moved' = [moved EXCEPT !["client"] = 0]
    /\ Goto("client", "loop")
    /\ UNCHANGED <<startup, kernel, quit, polled, total, numReqsRead, numReqsSent,
                   times>>

\* args->count as evaluateClient gets it.
ReportedCount == Least(numReqsRead, Count)

\* evaluateClient asserts that the count is positive, cleanup closes; so does
\* an abort.
ClientEvaluate ==
    /\ pc["client"] = "evaluate"
    /\ Goto("client", IF ReportedCount > 0 THEN "done" ELSE "aborted")
    /\ Close("client")
    /\ UNCHANGED <<startup, quit, polled, window, stats>>
-----------------------------------------------------------------------------
(***************************************************************************)
(* server.c                                                                *)
(***************************************************************************)

toRead ==
    IF outstandingBytes["server"] > Window THEN outstandingBytes["server"] ELSE Window

ServerTryRead == TryRead("server", toRead)

ServerRead == read_from_socket("server", toRead)

\* Mutant: the server never adds POLLOUT to its events.
ServerAccountPollsReadOnly ==
    LET toWrite == outstandingBytes["server"] + moved["server"]
    IN /\ pc["server"] = "account"
       /\ outstandingBytes' = [outstandingBytes EXCEPT !["server"] = toWrite]
       /\ moved' = [moved EXCEPT !["server"] = 0]
       /\ Goto("server", IF canWrite["server"] /\ ~quit["server"] /\ toWrite > 0
                         THEN "writing" ELSE "loop")
       /\ UNCHANGED <<startup, kernel, quit, polled, total, stats>>

\* From the return of read_from_socket to the decision to call write_to_socket.
ServerAccount ==
    LET toWrite == outstandingBytes["server"] + moved["server"]
    IN /\ pc["server"] = "account"
       /\ outstandingBytes' = [outstandingBytes EXCEPT !["server"] = toWrite]
       /\ pollsWrite' = (pollsWrite \/ moved["server"] # 0)
       /\ moved' = [moved EXCEPT !["server"] = 0]
       /\ Goto("server", IF canWrite["server"] /\ ~quit["server"] /\ toWrite > 0
                         THEN "writing" ELSE "loop")
       /\ UNCHANGED <<startup, kernel, quit, canRead, canWrite, total, stats>>

ServerWrite == write_to_socket("server", outstandingBytes["server"])

\* Mutant: the server forgets that what it wrote is no longer outstanding.
ServerWroteKeepsBacklog ==
    /\ pc["server"] = "wrote"
    /\ total' = [total EXCEPT !["server"] = @ + moved["server"]]
    /\ moved' = [moved EXCEPT !["server"] = 0]
    /\ Goto("server", "loop")
    /\ UNCHANGED <<startup, kernel, quit, polled, outstandingBytes, stats>>

ServerWrote ==
    /\ pc["server"] = "wrote"
    /\ total' = [total EXCEPT !["server"] = @ + moved["server"]]
    /\ outstandingBytes' =
          [outstandingBytes EXCEPT !["server"] = @ - moved["server"]]
    /\ moved' = [moved EXCEPT !["server"] = 0]
    /\ Goto("server", "loop")
    /\ UNCHANGED <<startup, kernel, quit, polled, stats>>

\* evaluateServer only prints; cleanup closes.
ServerEvaluate ==
    /\ pc["server"] = "evaluate"
    /\ Goto("server", "done")
    /\ Close("server")
    /\ UNCHANGED <<startup, quit, polled, window, stats>>
-----------------------------------------------------------------------------
(***************************************************************************)
(* Signals.  Before main installs quit_signal_handler a SIGINT ends the    *)
(* process.  The byte in TCP_FIFO goes when the server, its only holder,   *)
(* ends before the client has opened it.                                   *)
(***************************************************************************)

Killed(p) ==
    /\ p \in Interrupted
    /\ pc[p] \in Starting
    /\ Goto(p, "dead")
    /\ hello' = (hello /\ (p = "client" \/ pc["client"] # "open"))
    /\ Close(p)
    /\ UNCHANGED <<connected, quit, polled, window, stats>>

quit_signal_handler(p) ==
    /\ p \in Interrupted
    /\ pc[p] \in Running
    /\ quit' = [quit EXCEPT ![p] = TRUE]
    /\ UNCHANGED <<pc, startup, kernel, polled, window, stats>>
-----------------------------------------------------------------------------
Client ==
    \/ ClientOpen \/ ClientHello \/ ClientConnect
    \/ Poll("client") \/ ClientTryRead \/ ClientRead \/ ClientAccount
    \/ ClientWrite \/ ClientWrote \/ ClientEvaluate

Server ==
    \/ ServerListen \/ ServerAnnounce \/ ServerAccept
    \/ Poll("server") \/ ServerTryRead \/ ServerRead \/ ServerAccount
    \/ ServerWrite \/ ServerWrote \/ ServerEvaluate

Network == \E p \in Procs : Deliver(p)

Signal == \E p \in Procs : Killed(p) \/ quit_signal_handler(p)

Next == Client \/ Server \/ Network \/ Signal

\* Both processes run on a CPU of their own (CPU_SET 1 and 0), and TCP over
\* the loopback device delivers.  Signals are never forced.
Fairness == WF_vars(Client) /\ WF_vars(Server) /\ WF_vars(Network)

Spec == Init /\ [][Next]_vars /\ Fairness
-----------------------------------------------------------------------------
\* What the calls in progress have moved already.
InRead(p) == IF pc[p] \in {"reading", "account"} THEN moved[p] ELSE 0
InWrite(p) == IF pc[p] \in {"writing", "wrote"} THEN moved[p] ELSE 0

\* Every byte the client counts as outstanding is in a socket buffer, counted
\* as outstanding by the server, or was dropped by a reset, and there are never
\* more than maxOutstandingBytes of them: partial sends and receives, resets and
\* interrupts lose no byte from the books.
WindowConserved ==
    /\ outstandingBytes["client"] + InWrite("client") - InRead("client")
         = snd["client"] + rcv["server"] + snd["server"] + rcv["client"]
           + outstandingBytes["server"] + InRead("server") - InWrite("server")
           + lost
    /\ outstandingBytes["client"] + InWrite("client") <= Window

\* The client reports no more requests than it has whole answers for, however
\* the answers were cut into pieces.
NeverOvercounts == Size * numReqsRead <= total["client"]

\* A process that was told to quit ends whatever the other one does.
QuitEnds == \A p \in Procs : quit[p] ~> (pc[p] \in Ended)

\* The assertion of evaluateClient holds in a run that nobody interrupts.
EvaluateClientAssertion == pc["client"] # "aborted"

\* tcp keeps the promise of FlowControl.
Flow == INSTANCE FlowControl WITH
    Window <- Window,
    sent <- total["client"] + outstandingBytes["client"] + InWrite("client"),
    accepted <- total["server"] + outstandingBytes["server"] + InRead("server"),
    echoed <- total["server"] + InWrite("server"),
    received <- total["client"] + InRead("client")

\* Every step of the two programs and of the network is a step of the
\* flow-control specification or none.
FlowSpec == Flow!Spec
=============================================================================
