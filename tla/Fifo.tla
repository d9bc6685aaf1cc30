------------------------------- MODULE Fifo -------------------------------
(***************************************************************************)
(* The fifo benchmark: source/fifo/client.c and source/fifo/server.c over  *)
(* the two named pipes REQUEST and RESPONSE, with the blocking helpers of  *)
(* source/fifo/helper.c.  Payload bytes are never looked at by the code,   *)
(* so a pipe is the number of bytes in it.                                 *)
(***************************************************************************)
EXTENDS Integers, Sequences

CONSTANTS
    Size,            \* args->size: bytes of a request
    Rate,            \* args->rate: requests outstanding at most
    Count,           \* args->count: requests of the run
    DefaultPipeSize, \* capacity of a pipe nobody resized
    ClientPipeSize,  \* what F_SETPIPE_SZ 102400 gives in client.c
    ServerPipeSize,  \* what F_SETPIPE_SZ 1048576 gives in server.c
    Interrupted      \* the processes that may get a SIGINT

ASSUME SizesAssumption ==
    /\ Size \in Nat \ {0}
    /\ Rate \in Nat \ {0}
    /\ Count \in Nat \ {0}

\* The server asks for the larger pipe (1048576 against 102400).
ASSUME PipesAssumption ==
    /\ DefaultPipeSize \in Nat \ {0}
    /\ ClientPipeSize \in Nat \ {0}
    /\ ServerPipeSize \in Nat
    /\ ClientPipeSize <= ServerPipeSize

Procs == {"client", "server"}
Fifos == {"REQUEST", "RESPONSE"}

ASSUME InterruptedAssumption == Interrupted \subseteq Procs

Window == Size * Rate      \* maxOutstandingBytes, and the buffers' size
MaxBytes == Size * Count   \* maxBytes

Other(p) == IF p = "client" THEN "server" ELSE "client"
Least(a, b) == IF a < b THEN a ELSE b

VARIABLES
    pc,        \* where each process is
    opened,    \* how many FIFOs each process has opened
    fds,       \* the processes that hold an end of each FIFO
    capacity,  \* the capacity of each FIFO
    bytes,     \* the bytes in each FIFO
    quit,      \* the flag the signal handlers set
    canRead,   \* the POLLIN the process saw in its last poll()
    canWrite,  \* the POLLOUT it saw, which the server's first polls do not set
    moved,     \* bytes moved by the read_from_pipe/write_to_pipe in progress
    outstandingBytes,
    total,     \* client totalBytesRead, server totalBytesWritten
    sizeToPoll,
    outstandingReqs, numReqsRead, numReqsSent,
    times      \* what the client's times[] holds

startup == <<opened, fds, capacity>>
window == <<moved, outstandingBytes, total>>
stats == <<outstandingReqs, numReqsRead, numReqsSent, times>>
polled == <<canRead, canWrite, sizeToPoll>>
vars == <<pc, opened, fds, capacity, bytes, quit, canRead, canWrite, moved,
          outstandingBytes, total, sizeToPoll, outstandingReqs, numReqsRead,
          numReqsSent, times>>

Starting == {"open", "wait", "size"}
Running == {"loop", "poll", "read", "reading", "account", "writing", "wrote",
            "evaluate", "closeRead", "closeWrite"}
Ended == {"done", "aborted", "dead"}

\* An entry of times[]: never written, the time of the write, the time the
\* answer took, or a difference of something that was no write time.
Stamps == {"unset", "sent", "rtt", "bad"}

TypeOK ==
    /\ pc \in [Procs -> Starting \cup Running \cup Ended]
    /\ opened \in [Procs -> 0..2]
    /\ fds \in [Fifos -> SUBSET Procs]
    /\ capacity \in [Fifos -> Nat \ {0}]
    /\ bytes \in [Fifos -> Nat]
    /\ quit \in [Procs -> BOOLEAN]
    /\ canRead \in [Procs -> BOOLEAN]
    /\ canWrite \in [Procs -> BOOLEAN]
    /\ moved \in [Procs -> Nat]
    /\ outstandingBytes \in [Procs -> Nat]
    /\ total \in [Procs -> Nat]
    /\ sizeToPoll \in {1, 2}
    /\ outstandingReqs \in Nat
    /\ numReqsRead \in Nat
    /\ numReqsSent \in Nat
    /\ times \in [0..(Count - 1) -> Stamps]

\* pfds comes from malloc, so the revents of a stream that is not polled yet may
\* hold anything; the server uses the ones of its write stream before it polls it.
Init ==
    /\ pc = [p \in Procs |-> "open"]
    /\ opened = [p \in Procs |-> 0]
    /\ fds = [f \in Fifos |-> {}]
    /\ capacity = [f \in Fifos |-> DefaultPipeSize]
    /\ bytes = [f \in Fifos |-> 0]
    /\ quit = [p \in Procs |-> FALSE]
    /\ canRead = [p \in Procs |-> FALSE]
    /\ canWrite \in [Procs -> BOOLEAN]
    /\ moved = [p \in Procs |-> 0]
    /\ outstandingBytes = [p \in Procs |-> 0]
    /\ total = [p \in Procs |-> 0]
    /\ sizeToPoll = 1
    /\ outstandingReqs = 0
    /\ numReqsRead = 0
    /\ numReqsSent = 0
    /\ times = [i \in 0..(Count - 1) |-> "unset"]

Goto(p, label) == pc' = [pc EXCEPT ![p] = label]
-----------------------------------------------------------------------------
(***************************************************************************)
(* main: the two opens, which wait for the other end of the FIFO, each     *)
(* followed by F_SETPIPE_SZ.                                               *)
(***************************************************************************)

\* Mutant: the client opens the FIFOs in the other order.
ClientOpenOrderSwapped == <<"REQUEST", "RESPONSE">>
ClientOpenOrder == <<"RESPONSE", "REQUEST">>
ServerOpenOrder == <<"RESPONSE", "REQUEST">>

Opening(p) ==
    (IF p = "client" THEN ClientOpenOrder ELSE ServerOpenOrder)[opened[p] + 1]

\* open() of a FIFO whose other end is closed waits; otherwise it returns and
\* lets the process that waits at the other end return too.
Open(p) ==
    LET f == Opening(p) IN
    /\ pc[p] = "open"
    /\ fds' = [fds EXCEPT ![f] = @ \cup {p}]
    /\ pc' = IF Other(p) \in fds[f]
             THEN [q \in Procs |->
                     IF q = p \/ (pc[q] = "wait" /\ Opening(q) = f)
                     THEN "size" ELSE pc[q]]
             ELSE [pc EXCEPT ![p] = "wait"]
    /\ UNCHANGED <<opened, capacity, bytes, quit, polled, window, stats>>

\* Mutant: the larger pipe is asked for by the client.
PipeSizeOfSwapped(p) == IF p = "client" THEN ServerPipeSize ELSE ClientPipeSize
PipeSizeOf(p) == IF p = "client" THEN ClientPipeSize ELSE ServerPipeSize

\* F_SETPIPE_SZ fails with EBUSY, and main returns EXIT_FAILURE, when the pipe
\* holds more than the new size.
SetPipeSize(p) ==
    LET f == Opening(p) IN
    /\ pc[p] = "size"
    /\ IF bytes[f] <= PipeSizeOf(p)
       THEN /\ capacity' = [capacity EXCEPT ![f] = PipeSizeOf(p)]
            /\ opened' = [opened EXCEPT ![p] = @ + 1]
            /\ Goto(p, IF opened[p] = 1 THEN "loop" ELSE "open")
            /\ UNCHANGED fds
       ELSE /\ fds' = [g \in Fifos |-> fds[g] \ {p}]
            /\ Goto(p, "dead")
            /\ UNCHANGED <<opened, capacity>>
    /\ UNCHANGED <<bytes, quit, polled, window, stats>>
-----------------------------------------------------------------------------
(***************************************************************************)
(* helper.c: read_from_pipe and write_to_pipe ask for one chunk after the  *)
(* other and return when all is moved or a call moves nothing.  Each       *)
(* action is one blocking read() or one piece of a blocking write().       *)
(***************************************************************************)

\* Mutant: a read() that returns 0 is tried again.
read_from_pipe_RetriesAtEOF(p, f, numBytesToRead) ==
    /\ pc[p] = "reading"
    /\ bytes[f] > 0
    /\ LET bytes_read ==
             Least(bytes[f], Least(Size, numBytesToRead - moved[p]))
       IN /\ bytes' = [bytes EXCEPT ![f] = @ - bytes_read]
          /\ moved' = [moved EXCEPT ![p] = @ + bytes_read]
          /\ IF moved[p] + bytes_read < numBytesToRead
             THEN UNCHANGED pc
             ELSE Goto(p, "account")
    /\ UNCHANGED <<startup, quit, polled, outstandingBytes, total, stats>>

read_from_pipe(p, f, numBytesToRead) ==
    /\ pc[p] = "reading"
    /\ \/ /\ bytes[f] > 0
          /\ LET bytes_read ==
                   Least(bytes[f], Least(Size, numBytesToRead - moved[p]))
             IN /\ bytes' = [bytes EXCEPT ![f] = @ - bytes_read]
                /\ moved' = [moved EXCEPT ![p] = @ + bytes_read]
                /\ IF moved[p] + bytes_read < numBytesToRead
                   THEN UNCHANGED pc
                   ELSE Goto(p, "account")
       \/ /\ bytes[f] = 0
          /\ Other(p) \notin fds[f]   \* end of file
          /\ Goto(p, "account")
          /\ UNCHANGED <<bytes, moved>>
    /\ UNCHANGED <<startup, quit, polled, outstandingBytes, total, stats>>

write_to_pipe(p, f, numBytesToWrite) ==
    /\ pc[p] = "writing"
    /\ \/ /\ Other(p) \in fds[f]
          /\ \E bytes_written \in 1..Least(capacity[f] - bytes[f],
                                          Least(Size, numBytesToWrite - moved[p])) :
                /\ bytes' = [bytes EXCEPT ![f] = @ + bytes_written]
                /\ moved' = [moved EXCEPT ![p] = @ + bytes_written]
                /\ IF moved[p] + bytes_written < numBytesToWrite
                   THEN UNCHANGED pc
                   ELSE Goto(p, "wrote")
          /\ UNCHANGED quit
       \/ /\ Other(p) \notin fds[f]   \* EPIPE, and SIGPIPE sets quit
          /\ quit' = [quit EXCEPT ![p] = TRUE]
          /\ Goto(p, "wrote")
          /\ UNCHANGED <<bytes, moved>>
    /\ UNCHANGED <<startup, polled, outstandingBytes, total, stats>>
-----------------------------------------------------------------------------
(***************************************************************************)
(* communicate, the parts both programs share.                             *)
(***************************************************************************)

LoopExit(p) == IF p = "client" THEN "evaluate" ELSE "closeRead"

LoopOver(p) == total[p] >= MaxBytes \/ quit[p]

Loop(p) ==
    /\ pc[p] = "loop"
    /\ Goto(p, IF LoopOver(p) THEN LoopExit(p) ELSE "poll")
    /\ UNCHANGED <<startup, bytes, quit, polled, window, stats>>

\* if (canRead && quit == 0) read_from_pipe(...), which asks for nothing when
\* numBytesToRead is 0.
TryRead(p, numBytesToRead) ==
    /\ pc[p] = "read"
    /\ Goto(p, IF canRead[p] /\ ~quit[p] /\ numBytesToRead > 0
               THEN "reading" ELSE "account")
    /\ moved' = [moved EXCEPT ![p] = 0]
    /\ UNCHANGED <<startup, bytes, quit, polled, outstandingBytes, total, stats>>

ReadsFrom(p) == IF p = "client" THEN "RESPONSE" ELSE "REQUEST"
WritesTo(p) == IF p = "client" THEN "REQUEST" ELSE "RESPONSE"

\* cleanup(readStream)
CloseRead(p) ==
    /\ pc[p] = "closeRead"
    /\ fds' = [fds EXCEPT ![ReadsFrom(p)] = @ \ {p}]
    /\ Goto(p, "closeWrite")
    /\ UNCHANGED <<opened, capacity, bytes, quit, polled, window, stats>>

\* cleanup(writeStream); the server's report changes nothing.
CloseWrite(p) ==
    /\ pc[p] = "closeWrite"
    /\ fds' = [fds EXCEPT ![WritesTo(p)] = @ \ {p}]
    /\ Goto(p, "done")
    /\ UNCHANGED <<opened, capacity, bytes, quit, polled, window, stats>>
-----------------------------------------------------------------------------
(***************************************************************************)
(* client.c                                                                *)
(***************************************************************************)

\* checkPoll and the quit test behind it.  A poll() that waits may time out,
\* so it returns in any state.  A hang-up alone sets neither flag.
ClientPoll ==
    /\ pc["client"] = "poll"
    /\ canRead' = [canRead EXCEPT !["client"] = bytes["RESPONSE"] > 0]
    /\ canWrite' = [canWrite EXCEPT !["client"] =
                                        bytes["REQUEST"] < capacity["REQUEST"]]
    /\ Goto("client", IF quit["client"] THEN "evaluate" ELSE "read")
    /\ UNCHANGED <<startup, bytes, quit, sizeToPoll, window, stats>>

ClientTryRead == TryRead("client", outstandingBytes["client"])

ClientRead == read_from_pipe("client", "RESPONSE", outstandingBytes["client"])

\* times[i] for startIndex <= i < startIndex + numToUpdate, never past the end.
updateWriteTimes(ts, startIndex, numToUpdate) ==
    [i \in DOMAIN ts |->
        IF startIndex <= i /\ i < startIndex + numToUpdate THEN "sent" ELSE ts[i]]

updateReadWriteTimes(ts, startIndex, numToUpdate) ==
    [i \in DOMAIN ts |->
        IF startIndex <= i /\ i < startIndex + numToUpdate
        THEN IF ts[i] = "sent" THEN "rtt" ELSE "bad"
        ELSE ts[i]]

\* Mutant: a request begun counts as whole.
wholeReqsRoundedUp(n) == (n + Size - 1) \div Size
wholeReqs(n) == n \div Size

\* From the return of read_from_pipe (or the decision not to call it) to the
\* decision to call write_to_pipe.  The write times of the requests that fill
\* the window are taken here, before any is written.
ClientAccount ==
    LET done == moved["client"]
        left == outstandingBytes["client"] - done
        reqs == outstandingReqs - wholeReqs(done)
        fill == IF reqs < Rate THEN Rate - reqs ELSE 0
    IN /\ pc["client"] = "account"
       /\ outstandingBytes' = [outstandingBytes EXCEPT !["client"] = left]
       /\ total' = [total EXCEPT !["client"] = @ + done]
       /\ outstandingReqs' = reqs
       /\ numReqsRead' = numReqsRead + wholeReqs(done)
       /\ times' = updateWriteTimes(
                     updateReadWriteTimes(times, numReqsRead, wholeReqs(done)),
                     numReqsSent, fill)
       /\ numReqsSent' = numReqsSent + fill
       /\ moved' = [moved EXCEPT !["client"] = 0]
       /\ Goto("client", IF canWrite["client"] /\ left < Window /\ ~quit["client"]
                         THEN "writing" ELSE "loop")
       /\ UNCHANGED <<startup, bytes, quit, polled>>

ClientFill == Window - outstandingBytes["client"]

ClientWrite == write_to_pipe("client", "REQUEST", ClientFill)

\* Mutant: outstandingReqs forgets what is written.
ClientWroteForgetsReqs ==
    /\ pc["client"] = "wrote"
    /\ outstandingBytes' =
          [outstandingBytes EXCEPT !["client"] = @ + moved["client"]]
    /\ moved' = [moved EXCEPT !["client"] = 0]
    /\ Goto("client", "loop")
    /\ UNCHANGED <<startup, bytes, quit, polled, total, stats>>

ClientWrote ==
    /\ pc["client"] = "wrote"
    /\ outstandingBytes' =
          [outstandingBytes EXCEPT !["client"] = @ + moved["client"]]
    /\ outstandingReqs' = outstandingReqs + wholeReqs(moved["client"])
    /\ moved' = [moved EXCEPT !["client"] = 0]
    /\ Goto("client", "loop")
    /\ UNCHANGED <<startup, bytes, quit, polled, total, numReqsRead, numReqsSent, times>>

\* args->count as evaluateClient gets it.
ReportedCount == Least(numReqsRead, Count)

\* evaluateClient asserts that the count is positive; an abort closes the FIFOs.
ClientEvaluate ==
    /\ pc["client"] = "evaluate"
    /\ IF ReportedCount > 0
       THEN Goto("client", "closeRead") /\ UNCHANGED fds
       ELSE /\ Goto("client", "aborted")
            /\ fds' = [f \in Fifos |-> fds[f] \ {"client"}]
    /\ UNCHANGED <<opened, capacity, bytes, quit, polled, window, stats>>
-----------------------------------------------------------------------------
(***************************************************************************)
(* server.c                                                                *)
(***************************************************************************)

\* poll(pfds, sizeToPoll, 1000): with sizeToPoll = 1 the POLLOUT flag stays
\* what it was.
ServerPoll ==
    /\ pc["server"] = "poll"
    /\ canRead' = [canRead EXCEPT !["server"] = bytes["REQUEST"] > 0]
    /\ canWrite' = [canWrite EXCEPT !["server"] =
                      IF sizeToPoll = 1 THEN @
                      ELSE bytes["RESPONSE"] < capacity["RESPONSE"]]
    /\ Goto("server", IF quit["server"] THEN "closeRead" ELSE "read")
    /\ UNCHANGED <<startup, bytes, quit, sizeToPoll, window, stats>>

toRead ==
    IF outstandingBytes["server"] > Window THEN outstandingBytes["server"] ELSE Window

ServerTryRead == TryRead("server", toRead)

ServerRead == read_from_pipe("server", "REQUEST", toRead)

\* From the return of read_from_pipe to the decision to call write_to_pipe.
ServerAccount ==
    LET toWrite == outstandingBytes["server"] + moved["server"]
    IN /\ pc["server"] = "account"
       /\ outstandingBytes' = [outstandingBytes EXCEPT !["server"] = toWrite]
       /\ sizeToPoll' = IF moved["server"] # 0 THEN 2 ELSE sizeToPoll
       /\ moved' = [moved EXCEPT !["server"] = 0]
       /\ Goto("server", IF canWrite["server"] /\ ~quit["server"] /\ toWrite > 0
                         THEN "writing" ELSE "loop")
       /\ UNCHANGED <<startup, bytes, quit, canRead, canWrite, total, stats>>

ServerWrite == write_to_pipe("server", "RESPONSE", outstandingBytes["server"])

\* Mutant: the server forgets that what it wrote is no longer outstanding.
ServerWroteKeepsBacklog ==
    /\ pc["server"] = "wrote"
    /\ total' = [total EXCEPT !["server"] = @ + moved["server"]]
    /\ moved' = [moved EXCEPT !["server"] = 0]
    /\ Goto("server", "loop")
    /\ UNCHANGED <<startup, bytes, quit, polled, outstandingBytes, stats>>

ServerWrote ==
    /\ pc["server"] = "wrote"
    /\ total' = [total EXCEPT !["server"] = @ + moved["server"]]
    /\ outstandingBytes' =
          [outstandingBytes EXCEPT !["server"] = @ - moved["server"]]
    /\ moved' = [moved EXCEPT !["server"] = 0]
    /\ Goto("server", "loop")
    /\ UNCHANGED <<startup, bytes, quit, polled, stats>>
-----------------------------------------------------------------------------
(***************************************************************************)
(* Signals.  Before main installs quit_signal_handler a SIGINT ends the    *)
(* process.  Afterwards it sets quit, and because sa_flags is never        *)
(* initialised a read() or write() that sleeps may return EINTR or be      *)
(* restarted.                                                              *)
(***************************************************************************)

Killed(p) ==
    /\ p \in Interrupted
    /\ pc[p] \in Starting
    /\ Goto(p, "dead")
    /\ fds' = [f \in Fifos |-> fds[f] \ {p}]
    /\ UNCHANGED <<opened, capacity, bytes, quit, polled, window, stats>>

quit_signal_handler(p) ==
    /\ p \in Interrupted
    /\ pc[p] \in Running
    /\ quit' = [quit EXCEPT ![p] = TRUE]
    /\ UNCHANGED <<pc, startup, bytes, polled, window, stats>>

SleepInterrupted(p) ==
    /\ p \in Interrupted
    /\ \/ pc[p] = "reading" /\ bytes[ReadsFrom(p)] = 0 /\ Goto(p, "account")
       \/ /\ pc[p] = "writing"
          /\ bytes[WritesTo(p)] >= capacity[WritesTo(p)]
          /\ Goto(p, "wrote")
    /\ quit' = [quit EXCEPT ![p] = TRUE]
    /\ UNCHANGED <<startup, bytes, polled, window, stats>>
-----------------------------------------------------------------------------
Common(p) ==
    Open(p) \/ SetPipeSize(p) \/ Loop(p) \/ CloseRead(p) \/ CloseWrite(p)

Client ==
    \/ Common("client")
    \/ ClientPoll \/ ClientTryRead \/ ClientRead \/ ClientAccount
    \/ ClientWrite \/ ClientWrote \/ ClientEvaluate

Server ==
    \/ Common("server")
    \/ ServerPoll \/ ServerTryRead \/ ServerRead \/ ServerAccount
    \/ ServerWrite \/ ServerWrote

Signal == \E p \in Procs : Killed(p) \/ quit_signal_handler(p) \/ SleepInterrupted(p)

Next == Client \/ Server \/ Signal

\* Both processes run on a CPU of their own (CPU_SET 3 and 5), so neither
\* starves.  Signals are never forced.
Fairness == WF_vars(Client) /\ WF_vars(Server)

Spec == Init /\ [][Next]_vars /\ Fairness
-----------------------------------------------------------------------------
\* What the calls in progress have moved already.
InRead(p) == IF pc[p] \in {"reading", "account"} THEN moved[p] ELSE 0
InWrite(p) == IF pc[p] \in {"writing", "wrote"} THEN moved[p] ELSE 0

\* The windows of client and server agree: every byte the client counts as
\* outstanding is in a pipe or counted as outstanding by the server, and there
\* are never more than maxOutstandingBytes of them, whatever is interrupted.
WindowConserved ==
    /\ outstandingBytes["client"] + InWrite("client") - InRead("client")
         = bytes["REQUEST"] + bytes["RESPONSE"]
           + outstandingBytes["server"] + InRead("server") - InWrite("server")
    /\ outstandingBytes["client"] + InWrite("client") <= Window

\* No read_from_pipe or write_to_pipe indexes past its buffer of Window bytes,
\* though the server never checks what it echoes against bufferSize, and the
\* server's branch for a backlog above the window is never taken.
BuffersFit ==
    /\ outstandingBytes["client"] <= Window
    /\ outstandingBytes["server"] + InRead("server") <= Window
    /\ toRead = Window

\* As long as the client is not told to quit, at the top of its loop whole
\* requests are outstanding, and each of them and no other has a write time:
\* the client stamps requests before it knows whether write_to_pipe sends them.
RequestsTracked ==
    pc["client"] \in {"loop", "poll"} /\ ~quit["client"] =>
        /\ outstandingBytes["client"] = Size * outstandingReqs
        /\ numReqsSent = numReqsRead + outstandingReqs

\* Every time evaluateClient reports is the time from the write of a request
\* to the arrival of its whole answer, also when the run was cut short.
StampsExact ==
    pc["client"] \in {"closeRead", "closeWrite", "done"} =>
        /\ \A i \in 0..(ReportedCount - 1) : times[i] = "rtt"
        /\ Size * ReportedCount <= total["client"]

\* A process that was told to quit ends, wherever the signal met it and whatever
\* the other one does, although no loop of helper.c looks at quit.
QuitEnds == \A p \in Procs : quit[p] ~> (pc[p] \in Ended)

\* fifo keeps the promise of FlowControl.
Flow == INSTANCE FlowControl WITH
    Window <- Window,
    sent <- total["client"] + outstandingBytes["client"] + InWrite("client"),
    accepted <- total["server"] + outstandingBytes["server"] + InRead("server"),
    echoed <- total["server"] + InWrite("server"),
    received <- total["client"] + InRead("client")

\* Every step of the two programs is a step of the flow-control specification
\* or none: nothing is echoed that was not accepted, and the bytes in flight
\* never exceed the window.
FlowSpec == Flow!Spec
=============================================================================
