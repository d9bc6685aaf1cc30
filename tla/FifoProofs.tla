---------------------------- MODULE FifoProofs ----------------------------
(***************************************************************************)
(* Theorems about Fifo, for every request size, rate and count, every      *)
(* capacity of the pipes and every set of interrupted processes.           *)
(***************************************************************************)
EXTENDS MCFifo, TLAPS

\* A process that has not finished opening has a FIFO left to open.
OpensLeft == \A p \in Procs : pc[p] \in Starting => opened[p] \in {0, 1}

\* A call in progress has not moved more than it was asked to move.
CallsBounded ==
    /\ pc["client"] = "reading" => moved["client"] < outstandingBytes["client"]
    /\ pc["client"] = "account" => moved["client"] <= outstandingBytes["client"]
    /\ pc["client"] = "writing" =>
          outstandingBytes["client"] + moved["client"] < Window
    /\ pc["server"] = "reading" => moved["server"] < Window
    /\ pc["server"] = "writing" => moved["server"] < outstandingBytes["server"]
    /\ pc["server"] = "wrote" => moved["server"] <= outstandingBytes["server"]
    /\ outstandingBytes["server"] <= Window

Covered(b, r) == b <= Size * r

\* outstandingReqs covers the outstanding bytes wherever the client may still
\* read: a write cut short breaks this, and then the client has been told to
\* quit and reads no more.
ReqsCover ==
    /\ pc["client"] \in {"reading", "writing"} =>
          Covered(outstandingBytes["client"], outstandingReqs)
    /\ pc["client"] = "account" =>
          \/ Covered(outstandingBytes["client"], outstandingReqs)
          \/ moved["client"] = 0 /\ quit["client"]
    /\ pc["client"] = "wrote" =>
          \/ Covered(outstandingBytes["client"] + moved["client"],
                     outstandingReqs + wholeReqs(moved["client"]))
          \/ quit["client"]
    /\ pc["client"] \in Starting \cup {"loop", "poll", "read"} =>
          \/ Covered(outstandingBytes["client"], outstandingReqs)
          \/ quit["client"]

IInv == TypeOK /\ OpensLeft /\ CallsBounded /\ WindowConserved /\ ReqsCover

\* malloc(bufferSize) asks for a positive number of bytes.
LEMMA WindowType == Window \in Nat \ {0}
BY SizesAssumption DEF Window

\* What the integer division of helper.c says about the bytes it divides.
LEMMA DivBounds ==
    ASSUME NEW n \in Nat
    PROVE  /\ wholeReqs(n) \in Nat
           /\ Size * wholeReqs(n) <= n
           /\ n < Size * wholeReqs(n) + Size
BY SizesAssumption DEF wholeReqs

\* A call that moved nothing moved no whole request.
LEMMA Whole0 == wholeReqs(0) = 0
BY SizesAssumption DEF wholeReqs

\* Taking whole requests off both sides keeps the bytes covered.
LEMMA CoverRead ==
    ASSUME NEW b \in Nat, NEW r \in Nat, NEW k \in 0..b, Covered(b, r)
    PROVE  /\ wholeReqs(k) <= r
           /\ Covered(b - k, r - wholeReqs(k))
<1> DEFINE q == wholeReqs(k)
<1>1. q \in Nat /\ Size * q <= k
  BY DivBounds
<1>2. Size * q <= Size * r
  BY <1>1, SizesAssumption DEF Covered
<1>3. q <= r
  BY <1>1, <1>2, SizesAssumption
<1>4. Size * (r - q) = Size * r - Size * q
  BY <1>1, SizesAssumption
<1> QED
  BY <1>1, <1>3, <1>4, SizesAssumption DEF Covered

\* Filling the window makes it the bytes of Rate requests.
LEMMA CoverWrite ==
    ASSUME NEW b \in Nat, NEW r \in Nat, b <= Window, Covered(b, r)
    PROVE  Covered(Window, r + wholeReqs(Window - b))
<1> DEFINE q == wholeReqs(Window - b)
<1>1. q \in Nat /\ Window - b < Size * q + Size
  BY DivBounds, WindowType
<1>2. Size * Rate < Size * (r + q + 1)
  BY <1>1, SizesAssumption DEF Covered, Window
<1>3. Rate < r + q + 1
  BY <1>1, <1>2, SizesAssumption
<1>4. Rate <= r + q
  BY <1>1, <1>3, SizesAssumption
<1>5. Size * Rate <= Size * (r + q)
  BY <1>1, <1>4, SizesAssumption
<1> QED
  BY <1>5 DEF Covered, Window


\* Initially every pipe is empty and nothing is outstanding.
LEMMA InitIInv == Init => IInv
<1> SUFFICES ASSUME Init PROVE IInv
  OBVIOUS
<1> USE DEF Init, Procs, Fifos, Starting, Running, Ended
<1>1. TypeOK
  <2>1. times \in [0..(Count - 1) -> Stamps]
    BY DEF Stamps
  <2>2. quit \in [Procs -> BOOLEAN] /\ canRead \in [Procs -> BOOLEAN]
    BY Zenon
  <2> QED
    BY <2>1, <2>2, PipesAssumption DEF TypeOK
<1>2. OpensLeft
  BY DEF OpensLeft
<1>3. CallsBounded
  BY WindowType DEF CallsBounded
<1>4. WindowConserved
  BY WindowType DEF WindowConserved, InRead, InWrite
<1>5. ReqsCover
  BY SizesAssumption DEF ReqsCover, Covered
<1> QED
  BY <1>1, <1>2, <1>3, <1>4, <1>5 DEF IInv

\* A process that still starts has a FIFO of its list to open.
LEMMA OpeningType ==
    ASSUME IInv, NEW p \in Procs, pc[p] \in Starting
    PROVE  Opening(p) \in Fifos
BY DEF IInv, OpensLeft, Opening, ClientOpenOrder, ServerOpenOrder, Procs, Fifos

\* open() only moves processes between start-up labels.
LEMMA OpenIInv ==
    ASSUME IInv, NEW p \in Procs, Open(p)
    PROVE  IInv'
<1> DEFINE f == Opening(p)
<1>1. f \in Fifos
  BY OpeningType DEF Open, Starting
<1>2. \A q \in Procs : pc'[q] # pc[q] => pc[q] \in Starting /\ pc'[q] \in {"wait", "size"}
  BY DEF IInv, TypeOK, Open, Starting
<1>3. UNCHANGED <<opened, capacity, bytes, quit, polled, window, stats>>
  BY DEF Open
<1>4. TypeOK'
  <2>1. pc' \in [Procs -> Starting \cup Running \cup Ended]
    BY DEF Open, IInv, TypeOK, Starting
  <2>2. fds' \in [Fifos -> SUBSET Procs]
    BY <1>1 DEF Open, IInv, TypeOK
  <2> QED
    BY <2>1, <2>2, <1>3 DEF IInv, TypeOK, polled, window, stats
<1>5. OpensLeft'
  BY <1>2, <1>3 DEF IInv, OpensLeft
<1>6. CallsBounded'
  BY <1>2, <1>3 DEF IInv, CallsBounded, window, Procs
<1>7. WindowConserved'
  BY <1>2, <1>3 DEF IInv, WindowConserved, InRead, InWrite, window, Procs, Starting
<1>8. ReqsCover'
  BY <1>2, <1>3 DEF IInv, ReqsCover, Covered, window, stats, Procs, Starting
<1> QED
  BY <1>4, <1>5, <1>6, <1>7, <1>8 DEF IInv

\* F_SETPIPE_SZ changes a capacity, no byte count.
LEMMA SetPipeSizeIInv ==
    ASSUME IInv, NEW p \in Procs, SetPipeSize(p)
    PROVE  IInv'
<1> DEFINE f == Opening(p)
<1>1. f \in Fifos /\ opened[p] \in {0, 1} /\ pc[p] = "size"
  BY OpeningType DEF SetPipeSize, Starting, IInv, OpensLeft
<1>2. \E label \in {"loop", "open", "dead"} :
        /\ pc' = [pc EXCEPT ![p] = label]
        /\ label = "open" => opened' = [opened EXCEPT ![p] = 1]
        /\ opened' \in [Procs -> 0..2]
        /\ \A q \in Procs : q # p => opened'[q] = opened[q]
  BY <1>1 DEF SetPipeSize, Goto, IInv, TypeOK, Procs
<1>3. UNCHANGED <<bytes, quit, polled, window, stats>>
  BY DEF SetPipeSize
<1>4. TypeOK'
  <2>1. fds' \in [Fifos -> SUBSET Procs]
    BY <1>1 DEF SetPipeSize, IInv, TypeOK
  <2>2. capacity' \in [Fifos -> Nat \ {0}]
    <3>1. PipeSizeOf(p) \in Nat \ {0}
      BY PipesAssumption DEF PipeSizeOf
    <3> QED
      BY <1>1, <3>1 DEF SetPipeSize, IInv, TypeOK
  <2>3. pc' \in [Procs -> Starting \cup Running \cup Ended]
    BY <1>2 DEF IInv, TypeOK, Starting, Running, Ended
  <2> QED
    BY <1>2, <1>3, <2>1, <2>2, <2>3 DEF IInv, TypeOK, polled, window, stats
<1>5. OpensLeft'
  BY <1>2 DEF IInv, TypeOK, OpensLeft, Starting
<1>6. CallsBounded'
  BY <1>2, <1>3 DEF IInv, TypeOK, CallsBounded, window, Procs
<1>7. WindowConserved'
  BY <1>1, <1>2, <1>3 DEF IInv, TypeOK, WindowConserved, InRead, InWrite, window, Procs
<1>8. ReqsCover'
  BY <1>1, <1>2, <1>3 DEF IInv, TypeOK, ReqsCover, window, stats, Procs, Starting
<1> QED
  BY <1>4, <1>5, <1>6, <1>7, <1>8 DEF IInv

\* The test of the while loop changes no counter.
LEMMA LoopIInv ==
    ASSUME IInv, NEW p \in Procs, Loop(p)
    PROVE  IInv'
<1> USE DEF Loop, LoopExit, Goto, startup, window, stats, polled
<1>1. TypeOK'
  BY SizesAssumption, PipesAssumption, WindowType DEF IInv, TypeOK, Procs, Fifos, Starting, Running, Ended
<1>2. OpensLeft'
  BY DEF IInv, TypeOK, OpensLeft, Starting
<1>3. CallsBounded'
  BY WindowType DEF IInv, TypeOK, CallsBounded, WindowConserved, InRead, InWrite, Procs, Fifos
<1>4. WindowConserved'
  BY WindowType DEF IInv, TypeOK, CallsBounded, WindowConserved, InRead, InWrite, Procs, Fifos
<1>5. ReqsCover'
  BY DEF IInv, TypeOK, CallsBounded, ReqsCover, Procs, Fifos, Starting
<1> QED
  BY <1>1, <1>2, <1>3, <1>4, <1>5 DEF IInv

\* Closing the read stream leaves the bytes in the pipes.
LEMMA CloseReadIInv ==
    ASSUME IInv, NEW p \in Procs, CloseRead(p)
    PROVE  IInv'
<1> USE DEF CloseRead, ReadsFrom, Goto, startup, window, stats, polled
<1>1. TypeOK'
  BY SizesAssumption, PipesAssumption, WindowType DEF IInv, TypeOK, Procs, Fifos, Starting, Running, Ended
<1>2. OpensLeft'
  BY DEF IInv, TypeOK, OpensLeft, Starting
<1>3. CallsBounded'
  BY WindowType DEF IInv, TypeOK, CallsBounded, WindowConserved, InRead, InWrite, Procs, Fifos
<1>4. WindowConserved'
  BY WindowType DEF IInv, TypeOK, CallsBounded, WindowConserved, InRead, InWrite, Procs, Fifos
<1>5. ReqsCover'
  BY DEF IInv, TypeOK, CallsBounded, ReqsCover, Procs, Fifos, Starting
<1> QED
  BY <1>1, <1>2, <1>3, <1>4, <1>5 DEF IInv

\* Closing the write stream leaves the bytes in the pipes.
LEMMA CloseWriteIInv ==
    ASSUME IInv, NEW p \in Procs, CloseWrite(p)
    PROVE  IInv'
<1> USE DEF CloseWrite, WritesTo, Goto, startup, window, stats, polled
<1>1. TypeOK'
  BY SizesAssumption, PipesAssumption, WindowType DEF IInv, TypeOK, Procs, Fifos, Starting, Running, Ended
<1>2. OpensLeft'
  BY DEF IInv, TypeOK, OpensLeft, Starting
<1>3. CallsBounded'
  BY WindowType DEF IInv, TypeOK, CallsBounded, WindowConserved, InRead, InWrite, Procs, Fifos
<1>4. WindowConserved'
  BY WindowType DEF IInv, TypeOK, CallsBounded, WindowConserved, InRead, InWrite, Procs, Fifos
<1>5. ReqsCover'
  BY DEF IInv, TypeOK, CallsBounded, ReqsCover, Procs, Fifos, Starting
<1> QED
  BY <1>1, <1>2, <1>3, <1>4, <1>5 DEF IInv

\* A process killed during start-up has moved nothing.
LEMMA KilledIInv ==
    ASSUME IInv, NEW p \in Procs, Killed(p)
    PROVE  IInv'
<1> USE DEF Killed, Goto, startup, window, stats, polled
<1>1. TypeOK'
  BY SizesAssumption, PipesAssumption, WindowType DEF IInv, TypeOK, Procs, Fifos, Starting, Running, Ended
<1>2. OpensLeft'
  BY DEF IInv, TypeOK, OpensLeft, Starting
<1>3. CallsBounded'
  BY WindowType DEF IInv, TypeOK, CallsBounded, WindowConserved, InRead, InWrite, Procs, Fifos
<1>4. WindowConserved'
  BY DEF IInv, TypeOK, WindowConserved, InRead, InWrite, Procs, Starting
<1>5. ReqsCover'
  BY DEF IInv, TypeOK, CallsBounded, ReqsCover, Procs, Fifos, Starting
<1> QED
  BY <1>1, <1>2, <1>3, <1>4, <1>5 DEF IInv

\* quit_signal_handler sets a flag and no counter.
LEMMA HandlerIInv ==
    ASSUME IInv, NEW p \in Procs, quit_signal_handler(p)
    PROVE  IInv'
<1> USE DEF quit_signal_handler, Goto, startup, window, stats, polled
<1>1. TypeOK'
  BY SizesAssumption, PipesAssumption, WindowType DEF IInv, TypeOK, Procs, Fifos, Starting, Running, Ended
<1>2. OpensLeft'
  BY DEF IInv, TypeOK, OpensLeft, Starting
<1>3. CallsBounded'
  BY WindowType DEF IInv, TypeOK, CallsBounded, WindowConserved, InRead, InWrite, Procs, Fifos
<1>4. WindowConserved'
  BY WindowType DEF IInv, TypeOK, CallsBounded, WindowConserved, InRead, InWrite, Procs, Fifos
<1>5. ReqsCover'
  BY DEF IInv, TypeOK, CallsBounded, ReqsCover, Procs, Fifos, Starting
<1> QED
  BY <1>1, <1>2, <1>3, <1>4, <1>5 DEF IInv

\* An interrupted read or write keeps what it has moved.
LEMMA SleepIInv ==
    ASSUME IInv, NEW p \in Procs, SleepInterrupted(p)
    PROVE  IInv'
<1> USE DEF SleepInterrupted, ReadsFrom, WritesTo, Goto, startup, window, stats, polled
<1>1. TypeOK'
  BY SizesAssumption, PipesAssumption, WindowType DEF IInv, TypeOK, Procs, Fifos, Starting, Running, Ended
<1>2. OpensLeft'
  BY DEF IInv, TypeOK, OpensLeft, Starting
<1>3. CallsBounded'
  BY WindowType DEF IInv, TypeOK, CallsBounded, Procs
<1>4. WindowConserved'
  BY WindowType DEF IInv, TypeOK, CallsBounded, WindowConserved, InRead, InWrite, Procs, Fifos
<1>5. ReqsCover'
  BY DEF IInv, TypeOK, CallsBounded, ReqsCover, Procs, Fifos, Starting
<1> QED
  BY <1>1, <1>2, <1>3, <1>4, <1>5 DEF IInv

\* The client's poll() changes only its two flags.
LEMMA ClientPollIInv ==
    ASSUME IInv, ClientPoll
    PROVE  IInv'
<1> USE DEF ClientPoll, Goto, startup, window, stats, polled
<1>1. TypeOK'
  BY SizesAssumption, PipesAssumption, WindowType DEF IInv, TypeOK, Procs, Fifos, Starting, Running, Ended
<1>2. OpensLeft'
  BY DEF IInv, TypeOK, OpensLeft, Starting
<1>3. CallsBounded'
  BY WindowType DEF IInv, TypeOK, CallsBounded, WindowConserved, InRead, InWrite, Procs, Fifos
<1>4. WindowConserved'
  BY WindowType DEF IInv, TypeOK, CallsBounded, WindowConserved, InRead, InWrite, Procs, Fifos
<1>5. ReqsCover'
  BY DEF IInv, TypeOK, CallsBounded, ReqsCover, Procs, Fifos, Starting
<1> QED
  BY <1>1, <1>2, <1>3, <1>4, <1>5 DEF IInv

\* read_from_pipe starts with nothing moved and something to read.
LEMMA ClientTryReadIInv ==
    ASSUME IInv, ClientTryRead
    PROVE  IInv'
<1> USE DEF ClientTryRead, TryRead, Goto, startup, window, stats, polled
<1>1. TypeOK'
  BY SizesAssumption, PipesAssumption, WindowType DEF IInv, TypeOK, Procs, Fifos, Starting, Running, Ended
<1>2. OpensLeft'
  BY DEF IInv, TypeOK, OpensLeft, Starting
<1>3. CallsBounded'
  BY WindowType DEF IInv, TypeOK, CallsBounded, WindowConserved, InRead, InWrite, Procs, Fifos
<1>4. WindowConserved'
  BY WindowType DEF IInv, TypeOK, CallsBounded, WindowConserved, InRead, InWrite, Procs, Fifos
<1>5. ReqsCover'
  BY DEF IInv, TypeOK, CallsBounded, ReqsCover, Procs, Fifos, Starting
<1> QED
  BY <1>1, <1>2, <1>3, <1>4, <1>5 DEF IInv

\* What one read() of read_from_pipe does.
LEMMA ReadEffect ==
    ASSUME TypeOK, NEW p \in Procs, NEW f \in Fifos, NEW n \in Nat,
           pc[p] = "reading" => moved[p] < n,
           read_from_pipe(p, f, n)
    PROVE  \E k \in 0..bytes[f] :
             /\ moved[p] + k <= n
             /\ bytes' = [bytes EXCEPT ![f] = bytes[f] - k]
             /\ moved' = [moved EXCEPT ![p] = moved[p] + k]
             /\ \/ pc' = pc /\ moved[p] + k < n
                \/ pc' = [pc EXCEPT ![p] = "account"]
             /\ pc[p] = "reading"
             /\ UNCHANGED <<startup, quit, polled, outstandingBytes, total, stats>>
<1> USE DEF read_from_pipe, Goto
<1>1. CASE bytes[f] > 0
  <2> DEFINE k == Least(bytes[f], Least(Size, n - moved[p]))
  <2>1. k \in 0..bytes[f] /\ moved[p] + k <= n
    BY <1>1, SizesAssumption DEF TypeOK, Least
  <2>2. /\ bytes' = [bytes EXCEPT ![f] = bytes[f] - k]
        /\ moved' = [moved EXCEPT ![p] = moved[p] + k]
        /\ IF moved[p] + k < n THEN UNCHANGED pc
                               ELSE pc' = [pc EXCEPT ![p] = "account"]
    BY <1>1
  <2> QED
    BY <2>1, <2>2
<1>2. CASE bytes[f] = 0
  <2>1. bytes' = [bytes EXCEPT ![f] = bytes[f] - 0]
    BY <1>2 DEF TypeOK
  <2>2. moved' = [moved EXCEPT ![p] = moved[p] + 0]
    BY <1>2 DEF TypeOK
  <2>3. moved[p] + 0 <= n /\ 0 \in 0..bytes[f]
    BY <1>2 DEF TypeOK
  <2>4. pc' = [pc EXCEPT ![p] = "account"]
    BY <1>2
  <2> QED
    BY <2>1, <2>2, <2>3, <2>4
<1> QED
  BY <1>1, <1>2 DEF TypeOK

\* What one piece of a write() of write_to_pipe does.
LEMMA WriteEffect ==
    ASSUME TypeOK, NEW p \in Procs, NEW f \in Fifos, NEW n \in Nat,
           pc[p] = "writing" => moved[p] < n,
           write_to_pipe(p, f, n)
    PROVE  \E k \in Nat :
             /\ moved[p] + k <= n
             /\ bytes' = [bytes EXCEPT ![f] = bytes[f] + k]
             /\ moved' = [moved EXCEPT ![p] = moved[p] + k]
             /\ \/ pc' = pc /\ moved[p] + k < n
                \/ pc' = [pc EXCEPT ![p] = "wrote"] /\ (moved[p] + k = n \/ quit'[p])
             /\ pc[p] = "writing"
             /\ quit' = quit \/ quit' = [quit EXCEPT ![p] = TRUE]
             /\ UNCHANGED <<startup, polled, outstandingBytes, total, stats>>
<1> USE DEF write_to_pipe, Goto
<1>1. CASE Other(p) \in fds[f]
  <2>1. PICK k \in 1..Least(capacity[f] - bytes[f], Least(Size, n - moved[p])) :
          /\ bytes' = [bytes EXCEPT ![f] = bytes[f] + k]
          /\ moved' = [moved EXCEPT ![p] = moved[p] + k]
          /\ IF moved[p] + k < n THEN UNCHANGED pc
                                 ELSE pc' = [pc EXCEPT ![p] = "wrote"]
    BY <1>1
  <2>2. moved[p] \in Nat /\ moved[p] < n /\ bytes[f] \in Nat /\ capacity[f] \in Nat
    BY DEF TypeOK
  <2> DEFINE most == Least(capacity[f] - bytes[f], Least(Size, n - moved[p]))
  <2>3. k \in Nat /\ moved[p] + k <= n
    <3>1. most \in Int /\ most <= n - moved[p]
      BY <2>2, SizesAssumption DEF Least
    <3>2. k \in 1..most
      OBVIOUS
    <3> HIDE DEF most
    <3> QED
      BY <2>2, <3>1, <3>2
  <2>4. UNCHANGED <<startup, quit, polled, outstandingBytes, total, stats>>
    BY <1>1
  <2>5. CASE moved[p] + k < n
    BY <2>1, <2>3, <2>4, <2>5
  <2>6. CASE ~(moved[p] + k < n)
    <3>1. moved[p] + k = n
      BY <2>2, <2>3, <2>6
    <3> QED
      BY <2>1, <2>3, <2>4, <2>6, <3>1
  <2> QED
    BY <2>5, <2>6
<1>2. CASE Other(p) \notin fds[f]
  <2>1. bytes' = [bytes EXCEPT ![f] = bytes[f] + 0]
    BY <1>2 DEF TypeOK
  <2>2. moved' = [moved EXCEPT ![p] = moved[p] + 0]
    BY <1>2 DEF TypeOK
  <2>3. moved[p] + 0 <= n
    BY DEF TypeOK
  <2>4. pc' = [pc EXCEPT ![p] = "wrote"] /\ quit' = [quit EXCEPT ![p] = TRUE]
    BY <1>2
  <2>5. quit'[p]
    BY <2>4 DEF TypeOK
  <2> QED
    BY <2>1, <2>2, <2>3, <2>4, <2>5
<1> QED
  BY <1>1, <1>2

\* What the server has accepted fits its buffer.
LEMMA ServerFits ==
    ASSUME IInv
    PROVE  outstandingBytes["server"] + InRead("server") <= Window
<1>1. /\ \A p \in Procs : outstandingBytes[p] \in Nat /\ moved[p] \in Nat
      /\ \A f \in Fifos : bytes[f] \in Nat
  BY DEF IInv, TypeOK
<1>2. CASE pc["server"] \in {"reading", "account"}
  <2>1. InWrite("server") = 0 /\ InRead("server") \in Nat
    BY <1>1, <1>2 DEF InWrite, InRead, Procs
  <2>2. InRead("client") \in Nat /\ InWrite("client") \in Nat
    BY <1>1 DEF InRead, InWrite, Procs
  <2> QED
    BY <1>1, <2>1, <2>2, WindowType DEF IInv, WindowConserved, Procs, Fifos
<1>3. CASE pc["server"] \notin {"reading", "account"}
  <2>1. InRead("server") = 0
    BY <1>3 DEF InRead
  <2> QED
    BY <1>1, <2>1, WindowType DEF IInv, CallsBounded, Procs
<1> QED
  BY <1>2, <1>3

\* The backlog never exceeds the window, so toRead is the window.
LEMMA ToReadIsWindow ==
    ASSUME IInv
    PROVE  toRead = Window
BY ServerFits, WindowType DEF toRead, IInv, TypeOK, InRead, Procs

\* One read() of the client takes k bytes from RESPONSE, or none at the end of
\* file.
LEMMA ClientReadEffect ==
    ASSUME IInv, ClientRead
    PROVE  \E k \in 0..bytes["RESPONSE"] :
             /\ moved["client"] + k <= outstandingBytes["client"]
             /\ bytes' = [bytes EXCEPT !["RESPONSE"] = bytes["RESPONSE"] - k]
             /\ moved' = [moved EXCEPT !["client"] = moved["client"] + k]
             /\ \/ pc' = pc /\ moved["client"] + k < outstandingBytes["client"]
                \/ pc' = [pc EXCEPT !["client"] = "account"]
             /\ pc["client"] = "reading"
             /\ UNCHANGED <<startup, quit, polled, outstandingBytes, total, stats>>
BY ReadEffect DEF ClientRead, IInv, TypeOK, CallsBounded, Procs, Fifos

\* Bytes read from RESPONSE move into the client's call in progress.
LEMMA ClientReadIInv ==
    ASSUME IInv, ClientRead
    PROVE  IInv'
<1>1. PICK k \in 0..bytes["RESPONSE"] :
        /\ moved["client"] + k <= outstandingBytes["client"]
        /\ bytes' = [bytes EXCEPT !["RESPONSE"] = bytes["RESPONSE"] - k]
        /\ moved' = [moved EXCEPT !["client"] = moved["client"] + k]
        /\ \/ pc' = pc /\ moved["client"] + k < outstandingBytes["client"]
           \/ pc' = [pc EXCEPT !["client"] = "account"]
        /\ pc["client"] = "reading"
        /\ UNCHANGED <<startup, quit, polled, outstandingBytes, total, stats>>
  BY ClientReadEffect
<1>2. TypeOK'
  <2>1. bytes' \in [Fifos -> Nat]
    BY <1>1 DEF IInv, TypeOK, Fifos
  <2>2. moved' \in [Procs -> Nat]
    BY <1>1 DEF IInv, TypeOK, Procs, Fifos
  <2>3. pc' \in [Procs -> Starting \cup Running \cup Ended]
    BY <1>1 DEF IInv, TypeOK, Running
  <2> QED
    BY <1>1, <2>1, <2>2, <2>3 DEF IInv, TypeOK, startup, polled, stats
<1>3. OpensLeft'
  BY <1>1 DEF IInv, TypeOK, OpensLeft, Starting, startup
<1>a. /\ bytes'["RESPONSE"] = bytes["RESPONSE"] - k
      /\ bytes'["REQUEST"] = bytes["REQUEST"]
      /\ moved'["client"] = moved["client"] + k
      /\ moved'["server"] = moved["server"]
      /\ pc'["server"] = pc["server"]
      /\ pc'["client"] \in {"reading", "account"}
      /\ pc'["client"] = "reading" => moved["client"] + k < outstandingBytes["client"]
      /\ outstandingBytes' = outstandingBytes
  BY <1>1 DEF IInv, TypeOK, Procs, Fifos
<1>b. /\ outstandingBytes["client"] \in Nat /\ outstandingBytes["server"] \in Nat
      /\ moved["client"] \in Nat /\ moved["server"] \in Nat
      /\ bytes["REQUEST"] \in Nat /\ bytes["RESPONSE"] \in Nat
  BY DEF IInv, TypeOK, Procs, Fifos
<1>4. CallsBounded'
  BY <1>1, <1>a, <1>b, WindowType DEF IInv, CallsBounded
<1>5. WindowConserved'
  BY <1>1, <1>a, <1>b, WindowType DEF IInv, CallsBounded, WindowConserved, InRead, InWrite
<1>6. ReqsCover'
  BY <1>1 DEF IInv, TypeOK, ReqsCover, Procs, Starting, stats
<1> QED
  BY <1>2, <1>3, <1>4, <1>5, <1>6 DEF IInv

\* Subtracting what was read keeps outstandingBytes and outstandingReqs
\* natural.
LEMMA ClientAccountIInv ==
    ASSUME IInv, ClientAccount
    PROVE  IInv'
<1> DEFINE done == moved["client"]
           left == outstandingBytes["client"] - done
           reqs == outstandingReqs - wholeReqs(done)
           fill == IF reqs < Rate THEN Rate - reqs ELSE 0
<1>1. /\ pc["client"] = "account"
      /\ outstandingBytes' = [outstandingBytes EXCEPT !["client"] = left]
      /\ total' = [total EXCEPT !["client"] = total["client"] + done]
      /\ outstandingReqs' = reqs
      /\ numReqsRead' = numReqsRead + wholeReqs(done)
      /\ numReqsSent' = numReqsSent + fill
      /\ moved' = [moved EXCEPT !["client"] = 0]
      /\ UNCHANGED <<startup, bytes, quit, polled>>
  BY DEF ClientAccount
<1>2. \/ pc' = [pc EXCEPT !["client"] = "writing"] /\ left < Window /\ ~quit["client"]
      \/ pc' = [pc EXCEPT !["client"] = "loop"]
  BY DEF ClientAccount, Goto
<1>3. done \in 0..outstandingBytes["client"] /\ left \in Nat
  BY <1>1 DEF IInv, TypeOK, CallsBounded, Procs
<1>4. /\ wholeReqs(done) \in Nat
      /\ reqs \in Nat
      /\ Covered(left, reqs) \/ quit["client"]
  <2>1. CASE Covered(outstandingBytes["client"], outstandingReqs)
    <3>1. outstandingBytes["client"] \in Nat /\ outstandingReqs \in Nat
      BY DEF IInv, TypeOK, Procs
    <3>2. wholeReqs(done) <= outstandingReqs /\ Covered(left, reqs)
      BY <2>1, <1>3, <3>1, CoverRead
    <3>3. wholeReqs(done) \in Nat
      BY <1>3, <3>1, DivBounds
    <3> QED
      BY <3>1, <3>2, <3>3
  <2>2. CASE done = 0 /\ quit["client"]
    BY <2>2, Whole0 DEF IInv, TypeOK
  <2> QED
    BY <1>1, <2>1, <2>2 DEF IInv, ReqsCover
<1>5. TypeOK'
  <2>1. times' \in [0..(Count - 1) -> Stamps]
    <3> DEFINE ts == updateReadWriteTimes(times, numReqsRead, wholeReqs(done))
    <3>1. ts \in [0..(Count - 1) -> Stamps]
      BY DEF IInv, TypeOK, updateReadWriteTimes, Stamps
    <3>2. times' = updateWriteTimes(ts, numReqsSent, fill)
      BY DEF ClientAccount
    <3> QED
      BY <3>1, <3>2 DEF updateWriteTimes, Stamps
  <2>2. pc' \in [Procs -> Starting \cup Running \cup Ended]
    BY <1>2 DEF IInv, TypeOK, Running
  <2>3. /\ outstandingBytes' \in [Procs -> Nat]
        /\ moved' \in [Procs -> Nat]
        /\ total' \in [Procs -> Nat]
    BY <1>1, <1>3 DEF IInv, TypeOK, Procs
  <2>4. /\ outstandingReqs' \in Nat
        /\ numReqsRead' \in Nat
        /\ numReqsSent' \in Nat
    <3>1. fill \in Nat
      BY <1>4, SizesAssumption
    <3> QED
      BY <1>1, <1>4, <3>1 DEF IInv, TypeOK
  <2> QED
    BY <1>1, <2>1, <2>2, <2>3, <2>4 DEF IInv, TypeOK, startup, polled
<1>6. OpensLeft'
  BY <1>1, <1>2 DEF IInv, TypeOK, OpensLeft, Starting, startup
<1>a. /\ outstandingBytes'["client"] = left
      /\ outstandingBytes'["server"] = outstandingBytes["server"]
      /\ moved'["client"] = 0
      /\ moved'["server"] = moved["server"]
      /\ pc'["server"] = pc["server"]
      /\ \/ pc'["client"] = "writing" /\ left < Window
         \/ pc'["client"] = "loop"
      /\ bytes' = bytes
  BY <1>1, <1>2 DEF IInv, TypeOK, Procs
<1>b. /\ outstandingBytes["client"] \in Nat /\ outstandingBytes["server"] \in Nat
      /\ moved["client"] \in Nat /\ moved["server"] \in Nat
      /\ bytes["REQUEST"] \in Nat /\ bytes["RESPONSE"] \in Nat
  BY DEF IInv, TypeOK, Procs, Fifos
<1>7. CallsBounded'
  BY <1>1, <1>3, <1>a, <1>b, WindowType DEF IInv, CallsBounded
<1>8. WindowConserved'
  <2>1. /\ InRead("client") = done /\ InWrite("client") = 0
        /\ InRead("client")' = 0 /\ InWrite("client")' = 0
    BY <1>1, <1>a DEF InRead, InWrite
  <2>2. InRead("server")' = InRead("server") /\ InWrite("server")' = InWrite("server")
    BY <1>a DEF InRead, InWrite
  <2>3. InRead("server") \in Nat /\ InWrite("server") \in Nat
    BY <1>b DEF InRead, InWrite
  <2> QED
    BY <1>a, <1>b, <1>3, <2>1, <2>2, <2>3, WindowType DEF IInv, WindowConserved
<1>9. ReqsCover'
  <2>1. outstandingBytes'["client"] = left
    BY <1>1 DEF IInv, TypeOK, Procs
  <2> QED
    BY <1>1, <1>2, <1>4, <2>1 DEF IInv, TypeOK, ReqsCover, Procs
<1> QED
  BY <1>5, <1>6, <1>7, <1>8, <1>9 DEF IInv

\* One piece of the client's write() puts k bytes into REQUEST, or none and
\* sets quit.
LEMMA ClientWriteEffect ==
    ASSUME IInv, ClientWrite
    PROVE  \E k \in Nat :
             /\ moved["client"] + k <= Window - outstandingBytes["client"]
             /\ bytes' = [bytes EXCEPT !["REQUEST"] = bytes["REQUEST"] + k]
             /\ moved' = [moved EXCEPT !["client"] = moved["client"] + k]
             /\ \/ pc' = pc /\ moved["client"] + k < Window - outstandingBytes["client"]
                \/ /\ pc' = [pc EXCEPT !["client"] = "wrote"]
                   /\ moved["client"] + k = Window - outstandingBytes["client"] \/ quit'["client"]
             /\ pc["client"] = "writing"
             /\ quit' = quit \/ quit' = [quit EXCEPT !["client"] = TRUE]
             /\ UNCHANGED <<startup, polled, outstandingBytes, total, stats>>
<1> DEFINE n == Window - outstandingBytes["client"]
<1>1. outstandingBytes["client"] \in Nat /\ moved["client"] \in Nat
  BY DEF IInv, TypeOK, Procs
<1>2. pc["client"] = "writing" /\ moved["client"] < n /\ n \in Nat
  BY <1>1, WindowType DEF ClientWrite, write_to_pipe, IInv, CallsBounded
<1>3. write_to_pipe("client", "REQUEST", n)
  BY DEF ClientWrite, ClientFill
<1> HIDE DEF n
<1> QED
  BY <1>2, <1>3, WriteEffect DEF IInv, Procs, Fifos, n

\* Bytes written to REQUEST stay within the client's window.
LEMMA ClientWriteIInv ==
    ASSUME IInv, ClientWrite
    PROVE  IInv'
<1>1. PICK k \in Nat :
        /\ moved["client"] + k <= Window - outstandingBytes["client"]
        /\ bytes' = [bytes EXCEPT !["REQUEST"] = bytes["REQUEST"] + k]
        /\ moved' = [moved EXCEPT !["client"] = moved["client"] + k]
        /\ \/ pc' = pc /\ moved["client"] + k < Window - outstandingBytes["client"]
           \/ /\ pc' = [pc EXCEPT !["client"] = "wrote"]
              /\ moved["client"] + k = Window - outstandingBytes["client"] \/ quit'["client"]
        /\ pc["client"] = "writing"
        /\ quit' = quit \/ quit' = [quit EXCEPT !["client"] = TRUE]
        /\ UNCHANGED <<startup, polled, outstandingBytes, total, stats>>
  BY ClientWriteEffect
<1>2. TypeOK'
  <2>1. bytes' \in [Fifos -> Nat]
    BY <1>1 DEF IInv, TypeOK, Fifos
  <2>2. moved' \in [Procs -> Nat]
    BY <1>1 DEF IInv, TypeOK, Procs, Fifos
  <2>3. pc' \in [Procs -> Starting \cup Running \cup Ended]
    BY <1>1 DEF IInv, TypeOK, Running
  <2>4. quit' \in [Procs -> BOOLEAN]
    BY <1>1 DEF IInv, TypeOK
  <2> QED
    BY <1>1, <2>1, <2>2, <2>3, <2>4 DEF IInv, TypeOK, startup, polled, stats
<1>3. OpensLeft'
  BY <1>1 DEF IInv, TypeOK, OpensLeft, Starting, startup
<1>a. /\ bytes'["REQUEST"] = bytes["REQUEST"] + k
      /\ bytes'["RESPONSE"] = bytes["RESPONSE"]
      /\ moved'["client"] = moved["client"] + k
      /\ moved'["server"] = moved["server"]
      /\ pc'["server"] = pc["server"]
      /\ pc'["client"] \in {"writing", "wrote"}
      /\ pc'["client"] = "writing" =>
            moved["client"] + k < Window - outstandingBytes["client"]
      /\ outstandingBytes' = outstandingBytes
  BY <1>1 DEF IInv, TypeOK, Procs, Fifos
<1>b. /\ outstandingBytes["client"] \in Nat /\ outstandingBytes["server"] \in Nat
      /\ moved["client"] \in Nat /\ moved["server"] \in Nat
      /\ bytes["REQUEST"] \in Nat /\ bytes["RESPONSE"] \in Nat
  BY DEF IInv, TypeOK, Procs, Fifos
<1>4. CallsBounded'
  BY <1>1, <1>a, <1>b, WindowType DEF IInv, CallsBounded
<1>5. WindowConserved'
  <2>1. InWrite("client") = moved["client"] /\ InRead("client") = 0
    BY <1>1 DEF InWrite, InRead
  <2>2. InWrite("client")' = moved["client"] + k /\ InRead("client")' = 0
    BY <1>a DEF InWrite, InRead
  <2>3. InWrite("server")' = InWrite("server") /\ InRead("server")' = InRead("server")
    BY <1>a DEF InWrite, InRead
  <2>4. InWrite("server") \in Nat /\ InRead("server") \in Nat
    BY <1>b DEF InWrite, InRead
  <2>5. outstandingBytes["client"] + (moved["client"] + k) <= Window
    BY <1>1, <1>b, WindowType
  <2>6. outstandingBytes["client"] + moved["client"] - 0
          = bytes["REQUEST"] + bytes["RESPONSE"]
            + outstandingBytes["server"] + InRead("server") - InWrite("server")
    BY <2>1 DEF IInv, WindowConserved
  <2> QED
    BY <1>a, <1>b, <2>2, <2>3, <2>4, <2>5, <2>6 DEF WindowConserved
<1>6. ReqsCover'
  <2>1. Covered(outstandingBytes["client"], outstandingReqs)
    BY <1>1 DEF IInv, ReqsCover
  <2>2. outstandingBytes["client"] <= Window
    BY <1>1, WindowType DEF IInv, TypeOK, CallsBounded, Procs
  <2>3. Covered(Window,
          outstandingReqs + wholeReqs(Window - outstandingBytes["client"]))
    BY <2>1, <2>2, CoverWrite DEF IInv, TypeOK, Procs
  <2>4. CASE pc' = pc
    BY <1>1, <2>1, <2>4 DEF ReqsCover, Starting, stats
  <2>5. CASE quit'["client"] /\ pc' = [pc EXCEPT !["client"] = "wrote"]
    BY <1>1, <2>5 DEF ReqsCover, IInv, TypeOK, Starting, Procs
  <2>6. CASE /\ pc' = [pc EXCEPT !["client"] = "wrote"]
             /\ moved["client"] + k = Window - outstandingBytes["client"]
    <3>1. moved'["client"] = Window - outstandingBytes["client"]
      BY <1>1, <2>6 DEF IInv, TypeOK, Procs
    <3>2. outstandingBytes["client"] + moved'["client"] = Window
      BY <3>1, WindowType DEF IInv, TypeOK, Procs
    <3> QED
      BY <1>1, <2>3, <2>6, <3>1, <3>2 DEF ReqsCover, IInv, TypeOK, Starting, Procs, stats
  <2> QED
    BY <1>1, <2>4, <2>5, <2>6
<1> QED
  BY <1>2, <1>3, <1>4, <1>5, <1>6 DEF IInv

\* What was written becomes outstanding.
LEMMA ClientWroteIInv ==
    ASSUME IInv, ClientWrote
    PROVE  IInv'
<1> USE DEF ClientWrote, Goto, startup, window, stats, polled
<1>1. TypeOK'
  <2>1. wholeReqs(moved["client"]) \in Nat
    BY DivBounds DEF IInv, TypeOK, Procs
  <2>2. outstandingBytes' \in [Procs -> Nat] /\ moved' \in [Procs -> Nat]
    BY DEF IInv, TypeOK, Procs
  <2> QED
    BY <2>1, <2>2 DEF IInv, TypeOK, Procs, Running
<1>2. OpensLeft'
  BY DEF IInv, TypeOK, OpensLeft, Starting
<1>3. CallsBounded'
  BY WindowType DEF IInv, TypeOK, CallsBounded, WindowConserved, InRead, InWrite, Procs, Fifos
<1>4. WindowConserved'
  BY WindowType DEF IInv, TypeOK, CallsBounded, WindowConserved, InRead, InWrite, Procs, Fifos
<1>5. ReqsCover'
  BY DEF IInv, TypeOK, CallsBounded, ReqsCover, Procs, Fifos, Starting
<1> QED
  BY <1>1, <1>2, <1>3, <1>4, <1>5 DEF IInv

\* evaluateClient and its assertion change no counter.
LEMMA ClientEvaluateIInv ==
    ASSUME IInv, ClientEvaluate
    PROVE  IInv'
<1> USE DEF ClientEvaluate, Goto, startup, window, stats, polled
<1>1. TypeOK'
  BY SizesAssumption, PipesAssumption, WindowType DEF IInv, TypeOK, Procs, Fifos, Starting, Running, Ended
<1>2. OpensLeft'
  BY DEF IInv, TypeOK, OpensLeft, Starting
<1>3. CallsBounded'
  BY WindowType DEF IInv, TypeOK, CallsBounded, WindowConserved, InRead, InWrite, Procs, Fifos
<1>4. WindowConserved'
  BY WindowType DEF IInv, TypeOK, CallsBounded, WindowConserved, InRead, InWrite, Procs, Fifos
<1>5. ReqsCover'
  BY DEF IInv, TypeOK, CallsBounded, ReqsCover, Procs, Fifos, Starting
<1> QED
  BY <1>1, <1>2, <1>3, <1>4, <1>5 DEF IInv

\* The server's poll() changes only its two flags.
LEMMA ServerPollIInv ==
    ASSUME IInv, ServerPoll
    PROVE  IInv'
<1> USE DEF ServerPoll, Goto, startup, window, stats, polled
<1>1. TypeOK'
  <2>1. canRead' \in [Procs -> BOOLEAN]
    BY DEF IInv, TypeOK, Procs
  <2>2. canWrite' \in [Procs -> BOOLEAN]
    <3>1. CASE sizeToPoll = 1
      BY <3>1 DEF IInv, TypeOK, Procs
    <3>2. CASE sizeToPoll # 1
      BY <3>2 DEF IInv, TypeOK, Procs
    <3> QED
      BY <3>1, <3>2
  <2> QED
    BY <2>1, <2>2 DEF IInv, TypeOK, Running
<1>2. OpensLeft'
  BY DEF IInv, TypeOK, OpensLeft, Starting
<1>3. CallsBounded'
  BY WindowType DEF IInv, TypeOK, CallsBounded, WindowConserved, InRead, InWrite, Procs, Fifos
<1>4. WindowConserved'
  BY WindowType DEF IInv, TypeOK, CallsBounded, WindowConserved, InRead, InWrite, Procs, Fifos
<1>5. ReqsCover'
  BY DEF IInv, TypeOK, CallsBounded, ReqsCover, Procs, Fifos, Starting
<1> QED
  BY <1>1, <1>2, <1>3, <1>4, <1>5 DEF IInv

\* The server asks for a whole window.
LEMMA ServerTryReadIInv ==
    ASSUME IInv, ServerTryRead
    PROVE  IInv'
<1> USE DEF ServerTryRead, TryRead, toRead, Goto, startup, window, stats, polled
<1>1. TypeOK'
  BY SizesAssumption, PipesAssumption, WindowType DEF IInv, TypeOK, Procs, Fifos, Starting, Running, Ended
<1>2. OpensLeft'
  BY DEF IInv, TypeOK, OpensLeft, Starting
<1>3. CallsBounded'
  BY WindowType DEF IInv, TypeOK, CallsBounded, WindowConserved, InRead, InWrite, Procs, Fifos
<1>4. WindowConserved'
  BY WindowType DEF IInv, TypeOK, CallsBounded, WindowConserved, InRead, InWrite, Procs, Fifos
<1>5. ReqsCover'
  BY DEF IInv, TypeOK, CallsBounded, ReqsCover, Procs, Fifos, Starting
<1> QED
  BY <1>1, <1>2, <1>3, <1>4, <1>5 DEF IInv

\* One read() of the server takes k bytes from REQUEST, or none at the end of
\* file.
LEMMA ServerReadEffect ==
    ASSUME IInv, ServerRead
    PROVE  \E k \in 0..bytes["REQUEST"] :
             /\ moved["server"] + k <= Window
             /\ bytes' = [bytes EXCEPT !["REQUEST"] = bytes["REQUEST"] - k]
             /\ moved' = [moved EXCEPT !["server"] = moved["server"] + k]
             /\ \/ pc' = pc /\ moved["server"] + k < Window
                \/ pc' = [pc EXCEPT !["server"] = "account"]
             /\ pc["server"] = "reading"
             /\ UNCHANGED <<startup, quit, polled, outstandingBytes, total, stats>>
BY ReadEffect, ToReadIsWindow, WindowType DEF ServerRead, IInv, TypeOK, CallsBounded, Procs, Fifos

\* Bytes read from REQUEST move into the server's call in progress, within its
\* buffer.
LEMMA ServerReadIInv ==
    ASSUME IInv, ServerRead
    PROVE  IInv'
<1>1. PICK k \in 0..bytes["REQUEST"] :
        /\ moved["server"] + k <= Window
        /\ bytes' = [bytes EXCEPT !["REQUEST"] = bytes["REQUEST"] - k]
        /\ moved' = [moved EXCEPT !["server"] = moved["server"] + k]
        /\ \/ pc' = pc /\ moved["server"] + k < Window
           \/ pc' = [pc EXCEPT !["server"] = "account"]
        /\ pc["server"] = "reading"
        /\ UNCHANGED <<startup, quit, polled, outstandingBytes, total, stats>>
  BY ServerReadEffect
<1>2. TypeOK'
  <2>1. bytes' \in [Fifos -> Nat]
    BY <1>1 DEF IInv, TypeOK, Fifos
  <2>2. moved' \in [Procs -> Nat]
    BY <1>1 DEF IInv, TypeOK, Procs, Fifos
  <2>3. pc' \in [Procs -> Starting \cup Running \cup Ended]
    BY <1>1 DEF IInv, TypeOK, Running
  <2> QED
    BY <1>1, <2>1, <2>2, <2>3 DEF IInv, TypeOK, startup, polled, stats
<1>3. OpensLeft'
  BY <1>1 DEF IInv, TypeOK, OpensLeft, Starting, startup
<1>a. /\ bytes'["REQUEST"] = bytes["REQUEST"] - k
      /\ bytes'["RESPONSE"] = bytes["RESPONSE"]
      /\ moved'["server"] = moved["server"] + k
      /\ moved'["client"] = moved["client"]
      /\ pc'["client"] = pc["client"]
      /\ pc'["server"] \in {"reading", "account"}
      /\ pc'["server"] = "reading" => moved["server"] + k < Window
      /\ outstandingBytes' = outstandingBytes
  BY <1>1 DEF IInv, TypeOK, Procs, Fifos
<1>b. /\ outstandingBytes["client"] \in Nat /\ outstandingBytes["server"] \in Nat
      /\ moved["client"] \in Nat /\ moved["server"] \in Nat
      /\ bytes["REQUEST"] \in Nat /\ bytes["RESPONSE"] \in Nat
  BY DEF IInv, TypeOK, Procs, Fifos
<1>4. CallsBounded'
  BY <1>1, <1>a, <1>b, WindowType DEF IInv, CallsBounded
<1>5. WindowConserved'
  BY <1>1, <1>a, <1>b, WindowType DEF IInv, CallsBounded, WindowConserved, InRead, InWrite
<1>6. ReqsCover'
  BY <1>1 DEF IInv, TypeOK, ReqsCover, Procs, Starting, stats
<1> QED
  BY <1>2, <1>3, <1>4, <1>5, <1>6 DEF IInv

\* What was read joins the backlog.
LEMMA ServerAccountIInv ==
    ASSUME IInv, ServerAccount
    PROVE  IInv'
<1> USE DEF ServerAccount, Goto, startup, window, stats, polled
<1>1. TypeOK'
  BY SizesAssumption, PipesAssumption, WindowType DEF IInv, TypeOK, Procs, Fifos, Starting, Running, Ended
<1>2. OpensLeft'
  BY DEF IInv, TypeOK, OpensLeft, Starting
<1>3. CallsBounded'
  BY WindowType DEF IInv, TypeOK, CallsBounded, WindowConserved, InRead, InWrite, Procs, Fifos
<1>4. WindowConserved'
  BY WindowType DEF IInv, TypeOK, CallsBounded, WindowConserved, InRead, InWrite, Procs, Fifos
<1>5. ReqsCover'
  BY DEF IInv, TypeOK, CallsBounded, ReqsCover, Procs, Fifos, Starting
<1> QED
  BY <1>1, <1>2, <1>3, <1>4, <1>5 DEF IInv

\* One piece of the server's write() puts k bytes into RESPONSE, or none and
\* sets quit.
LEMMA ServerWriteEffect ==
    ASSUME IInv, ServerWrite
    PROVE  \E k \in Nat :
             /\ moved["server"] + k <= outstandingBytes["server"]
             /\ bytes' = [bytes EXCEPT !["RESPONSE"] = bytes["RESPONSE"] + k]
             /\ moved' = [moved EXCEPT !["server"] = moved["server"] + k]
             /\ \/ pc' = pc /\ moved["server"] + k < outstandingBytes["server"]
                \/ /\ pc' = [pc EXCEPT !["server"] = "wrote"]
                   /\ moved["server"] + k = outstandingBytes["server"] \/ quit'["server"]
             /\ pc["server"] = "writing"
             /\ quit' = quit \/ quit' = [quit EXCEPT !["server"] = TRUE]
             /\ UNCHANGED <<startup, polled, outstandingBytes, total, stats>>
BY WriteEffect DEF ServerWrite, IInv, TypeOK, CallsBounded, Procs, Fifos

\* The echo takes bytes from the backlog only.
LEMMA ServerWriteIInv ==
    ASSUME IInv, ServerWrite
    PROVE  IInv'
<1>1. PICK k \in Nat :
        /\ moved["server"] + k <= outstandingBytes["server"]
        /\ bytes' = [bytes EXCEPT !["RESPONSE"] = bytes["RESPONSE"] + k]
        /\ moved' = [moved EXCEPT !["server"] = moved["server"] + k]
        /\ \/ pc' = pc /\ moved["server"] + k < outstandingBytes["server"]
           \/ /\ pc' = [pc EXCEPT !["server"] = "wrote"]
              /\ moved["server"] + k = outstandingBytes["server"] \/ quit'["server"]
        /\ pc["server"] = "writing"
        /\ quit' = quit \/ quit' = [quit EXCEPT !["server"] = TRUE]
        /\ UNCHANGED <<startup, polled, outstandingBytes, total, stats>>
  BY ServerWriteEffect
<1>2. TypeOK'
  <2>1. bytes' \in [Fifos -> Nat]
    BY <1>1 DEF IInv, TypeOK, Fifos
  <2>2. moved' \in [Procs -> Nat]
    BY <1>1 DEF IInv, TypeOK, Procs, Fifos
  <2>3. pc' \in [Procs -> Starting \cup Running \cup Ended]
    BY <1>1 DEF IInv, TypeOK, Running
  <2>4. quit' \in [Procs -> BOOLEAN]
    BY <1>1 DEF IInv, TypeOK
  <2> QED
    BY <1>1, <2>1, <2>2, <2>3, <2>4 DEF IInv, TypeOK, startup, polled, stats
<1>3. OpensLeft'
  BY <1>1 DEF IInv, TypeOK, OpensLeft, Starting, startup
<1>a. /\ bytes'["RESPONSE"] = bytes["RESPONSE"] + k
      /\ bytes'["REQUEST"] = bytes["REQUEST"]
      /\ moved'["server"] = moved["server"] + k
      /\ moved'["client"] = moved["client"]
      /\ pc'["client"] = pc["client"]
      /\ pc'["server"] \in {"writing", "wrote"}
      /\ pc'["server"] = "writing" => moved["server"] + k < outstandingBytes["server"]
      /\ outstandingBytes' = outstandingBytes
  BY <1>1 DEF IInv, TypeOK, Procs, Fifos
<1>b. /\ outstandingBytes["client"] \in Nat /\ outstandingBytes["server"] \in Nat
      /\ moved["client"] \in Nat /\ moved["server"] \in Nat
      /\ bytes["REQUEST"] \in Nat /\ bytes["RESPONSE"] \in Nat
  BY DEF IInv, TypeOK, Procs, Fifos
<1>4. CallsBounded'
  BY <1>1, <1>a, <1>b, WindowType DEF IInv, CallsBounded
<1>5. WindowConserved'
  BY <1>1, <1>a, <1>b, WindowType DEF IInv, CallsBounded, WindowConserved, InRead, InWrite
<1>6. ReqsCover'
  BY <1>1 DEF IInv, TypeOK, ReqsCover, Procs, Starting, stats
<1> QED
  BY <1>2, <1>3, <1>4, <1>5, <1>6 DEF IInv

\* Subtracting what was echoed keeps the backlog natural.
LEMMA ServerWroteIInv ==
    ASSUME IInv, ServerWrote
    PROVE  IInv'
<1> USE DEF ServerWrote, Goto, startup, window, stats, polled
<1>1. TypeOK'
  <2>1. moved["server"] <= outstandingBytes["server"]
    BY DEF IInv, CallsBounded
  <2>2. /\ outstandingBytes' \in [Procs -> Nat]
        /\ moved' \in [Procs -> Nat]
        /\ total' \in [Procs -> Nat]
    BY <2>1 DEF IInv, TypeOK, Procs
  <2> QED
    BY <2>2 DEF IInv, TypeOK, Procs, Running
<1>2. OpensLeft'
  BY DEF IInv, TypeOK, OpensLeft, Starting
<1>3. CallsBounded'
  BY WindowType DEF IInv, TypeOK, CallsBounded, WindowConserved, InRead, InWrite, Procs, Fifos
<1>4. WindowConserved'
  BY WindowType DEF IInv, TypeOK, CallsBounded, WindowConserved, InRead, InWrite, Procs, Fifos
<1>5. ReqsCover'
  BY DEF IInv, TypeOK, CallsBounded, ReqsCover, Procs, Fifos, Starting
<1> QED
  BY <1>1, <1>2, <1>3, <1>4, <1>5 DEF IInv
-----------------------------------------------------------------------------
\* Every step of the programs, and every signal, keeps the invariant.
LEMMA NextIInv == IInv /\ [Next]_vars => IInv'
<1> SUFFICES ASSUME IInv, [Next]_vars PROVE IInv'
  OBVIOUS
<1>1. CASE \E p \in Procs : Common(p)
  BY <1>1, OpenIInv, SetPipeSizeIInv, LoopIInv, CloseReadIInv, CloseWriteIInv
  DEF Common
<1>2. CASE \/ ClientPoll \/ ClientTryRead \/ ClientRead \/ ClientAccount
           \/ ClientWrite \/ ClientWrote \/ ClientEvaluate
  BY <1>2, ClientPollIInv, ClientTryReadIInv, ClientReadIInv, ClientAccountIInv,
     ClientWriteIInv, ClientWroteIInv, ClientEvaluateIInv
<1>3. CASE \/ ServerPoll \/ ServerTryRead \/ ServerRead \/ ServerAccount
           \/ ServerWrite \/ ServerWrote
  BY <1>3, ServerPollIInv, ServerTryReadIInv, ServerReadIInv, ServerAccountIInv,
     ServerWriteIInv, ServerWroteIInv
<1>4. CASE Signal
  BY <1>4, KilledIInv, HandlerIInv, SleepIInv DEF Signal
<1>5. CASE UNCHANGED vars
  BY <1>5 DEF vars, IInv, TypeOK, OpensLeft, CallsBounded, WindowConserved,
              ReqsCover, InRead, InWrite
<1> QED
  BY <1>1, <1>2, <1>3, <1>4, <1>5 DEF Next, Client, Server, Procs

\* IInv is an inductive invariant of fifo.
LEMMA Invariance == Spec => []IInv
<1>1. Init => IInv
  BY InitIInv
<1>2. IInv /\ [Next]_vars => IInv'
  BY NextIInv
<1> QED
  BY <1>1, <1>2, PTL DEF Spec

\* Every variable of the two programs keeps its type.  For the size_t counters
\* outstandingBytes and outstandingReqs this says that no subtraction of
\* communicate wraps around, even when a call is cut short.
THEOREM TypeCorrect == Spec => []TypeOK
<1>1. IInv => TypeOK
  BY DEF IInv
<1> QED
  BY Invariance, <1>1, PTL

\* The client's and the server's windows agree, and the window is never
\* exceeded, for every request size, rate, pipe capacity and signal.
THEOREM WindowIsConserved == Spec => []WindowConserved
<1>1. IInv => WindowConserved
  BY DEF IInv
<1> QED
  BY Invariance, <1>1, PTL

\* Nothing is read or echoed beyond the malloc'ed buffers of communicate.
THEOREM BuffersAlwaysFit == Spec => []BuffersFit
<1>1. ASSUME IInv PROVE BuffersFit
  <2>1. outstandingBytes["client"] <= Window
    BY <1>1, WindowType DEF IInv, TypeOK, WindowConserved, InWrite, Procs
  <2> QED
    BY <1>1, <2>1, ServerFits, ToReadIsWindow DEF BuffersFit
<1> QED
  BY Invariance, <1>1, PTL
-----------------------------------------------------------------------------
\* A step that moves no byte and ends no call is a stuttering step of FlowControl.
Quiet ==
    /\ UNCHANGED <<bytes, outstandingBytes, total>>
    /\ \A p \in Procs : InRead(p)' = InRead(p) /\ InWrite(p)' = InWrite(p)

\* A step that moves no byte is a stutter of FlowControl.
LEMMA QuietStutters == Quiet => UNCHANGED Flow!vars
BY DEF Quiet, Procs, Flow!vars

\* The steps of start-up, polling, closing and signals move no byte.
LEMMA QuietSteps ==
    ASSUME IInv, NEW p \in Procs,
           \/ Common(p) \/ Killed(p) \/ quit_signal_handler(p) \/ SleepInterrupted(p)
    PROVE  Quiet
<1> USE DEF IInv, TypeOK, Quiet, InRead, InWrite, Goto, window, Procs, Starting
<1>1. CASE Open(p)
  BY <1>1 DEF Open
<1>2. CASE SetPipeSize(p)
  BY <1>2 DEF SetPipeSize
<1>3. CASE Loop(p)
  BY <1>3 DEF Loop, LoopExit
<1>4. CASE CloseRead(p)
  BY <1>4 DEF CloseRead
<1>5. CASE CloseWrite(p)
  BY <1>5 DEF CloseWrite
<1>6. CASE Killed(p)
  BY <1>6 DEF Killed
<1>7. CASE quit_signal_handler(p)
  BY <1>7 DEF quit_signal_handler
<1>8. CASE SleepInterrupted(p)
  BY <1>8 DEF SleepInterrupted
<1> QED
  BY <1>1, <1>2, <1>3, <1>4, <1>5, <1>6, <1>7, <1>8 DEF Common

\* Polling, the decision to read and the evaluation move no byte.
LEMMA QuietCalls ==
    ASSUME IInv, \/ ClientPoll \/ ClientTryRead \/ ClientEvaluate
                 \/ ServerPoll \/ ServerTryRead
    PROVE  Quiet
<1> USE DEF IInv, TypeOK, Quiet, InRead, InWrite, Goto, window, Procs
<1>1. CASE ClientPoll
  BY <1>1 DEF ClientPoll
<1>2. CASE ClientTryRead
  BY <1>2 DEF ClientTryRead, TryRead
<1>3. CASE ClientEvaluate
  BY <1>3 DEF ClientEvaluate
<1>4. CASE ServerPoll
  BY <1>4 DEF ServerPoll
<1>5. CASE ServerTryRead
  BY <1>5 DEF ServerTryRead, TryRead
<1> QED
  BY <1>1, <1>2, <1>3, <1>4, <1>5

\* The types of what FlowControl's variables stand for.
LEMMA Facts ==
    ASSUME IInv
    PROVE  /\ outstandingBytes["client"] \in Nat /\ outstandingBytes["server"] \in Nat
           /\ moved["client"] \in Nat /\ moved["server"] \in Nat
           /\ total["client"] \in Nat /\ total["server"] \in Nat
           /\ bytes["REQUEST"] \in Nat /\ bytes["RESPONSE"] \in Nat
BY DEF IInv, TypeOK, Procs, Fifos

\* The bytes in a pipe are the ones one end put in and the other did not take out.
PipesAgree ==
    /\ bytes["REQUEST"] = (total["client"] + outstandingBytes["client"] + InWrite("client"))
                          - (total["server"] + outstandingBytes["server"] + InRead("server"))
    /\ bytes["RESPONSE"] = (total["server"] + InWrite("server"))
                           - (total["client"] + InRead("client"))

\* A step that only ends a call or stutters.
LEMMA QuietFlow ==
    ASSUME PipesAgree, Quiet
    PROVE  PipesAgree' /\ [Flow!Next]_(Flow!vars)
<1>1. PipesAgree'
  BY DEF PipesAgree, Quiet, Procs
<1> QED
  BY <1>1, QuietStutters

\* read() of the client is Receive.
LEMMA ClientReadFlow ==
    ASSUME IInv, PipesAgree, ClientRead
    PROVE  PipesAgree' /\ [Flow!Next]_(Flow!vars)
<1>1. PICK k \in Nat :
        /\ moved["client"] + k <= outstandingBytes["client"]
        /\ bytes'["RESPONSE"] = bytes["RESPONSE"] - k
        /\ bytes'["REQUEST"] = bytes["REQUEST"]
        /\ moved'["client"] = moved["client"] + k
        /\ moved'["server"] = moved["server"]
        /\ pc["client"] = "reading"
        /\ pc'["client"] \in {"reading", "account"}
        /\ pc'["server"] = pc["server"]
        /\ UNCHANGED <<outstandingBytes, total>>
  BY ClientReadEffect, Facts DEF IInv, TypeOK, Procs, Fifos
<1>2. /\ InRead("client") = moved["client"] /\ InRead("client")' = moved["client"] + k
      /\ InWrite("client") = 0 /\ InWrite("client")' = 0
      /\ InRead("server")' = InRead("server") /\ InWrite("server")' = InWrite("server")
      /\ InRead("server") \in Nat /\ InWrite("server") \in Nat
  BY <1>1, Facts DEF InRead, InWrite
<1>3. bytes'["RESPONSE"] \in Nat
  BY NextIInv, Facts, <1>1 DEF Next, Client, Server, IInv, TypeOK, Fifos
<1>4. PipesAgree'
  BY <1>1, <1>2, Facts DEF PipesAgree
<1>5. [Flow!Next]_(Flow!vars)
  <2>1. CASE k = 0
    BY <1>1, <1>2, <2>1, Facts DEF Flow!vars
  <2>2. CASE k > 0
    <3>1. Flow!Receive
      BY <1>1, <1>2, <1>3, <2>2, Facts, WindowType DEF PipesAgree, Flow!Receive
    <3> QED
      BY <3>1 DEF Flow!Next
  <2> QED
    BY <2>1, <2>2
<1> QED
  BY <1>4, <1>5

\* read() of the server is Accept.
LEMMA ServerReadFlow ==
    ASSUME IInv, PipesAgree, ServerRead
    PROVE  PipesAgree' /\ [Flow!Next]_(Flow!vars)
<1>1. PICK k \in Nat :
        /\ moved["server"] + k <= Window
        /\ bytes'["REQUEST"] = bytes["REQUEST"] - k
        /\ bytes'["RESPONSE"] = bytes["RESPONSE"]
        /\ moved'["server"] = moved["server"] + k
        /\ moved'["client"] = moved["client"]
        /\ pc["server"] = "reading"
        /\ pc'["server"] \in {"reading", "account"}
        /\ pc'["client"] = pc["client"]
        /\ UNCHANGED <<outstandingBytes, total>>
  <2>1. /\ pc \in [Procs -> Starting \cup Running \cup Ended]
        /\ bytes \in [Fifos -> Nat] /\ moved \in [Procs -> Nat]
    BY DEF IInv, TypeOK
  <2> QED
    BY <2>1, ServerReadEffect, Facts, WindowType DEF Procs, Fifos
<1>2. /\ InRead("server") = moved["server"] /\ InRead("server")' = moved["server"] + k
      /\ InWrite("server") = 0 /\ InWrite("server")' = 0
      /\ InRead("client")' = InRead("client") /\ InWrite("client")' = InWrite("client")
      /\ InRead("client") \in Nat /\ InWrite("client") \in Nat
  BY <1>1, Facts DEF InRead, InWrite
<1>3. bytes'["REQUEST"] \in Nat
  BY NextIInv, Facts, <1>1 DEF Next, Client, Server, IInv, TypeOK, Fifos
<1>4. PipesAgree'
  BY <1>1, <1>2, Facts DEF PipesAgree
<1>5. [Flow!Next]_(Flow!vars)
  <2>1. CASE k = 0
    BY <1>1, <1>2, <2>1, Facts DEF Flow!vars
  <2>2. CASE k > 0
    <3>1. Flow!Accept
      BY <1>1, <1>2, <1>3, <2>2, Facts, WindowType DEF PipesAgree, Flow!Accept
    <3> QED
      BY <3>1 DEF Flow!Next
  <2> QED
    BY <2>1, <2>2
<1> QED
  BY <1>4, <1>5

\* write() of the client is Send.
LEMMA ClientWriteFlow ==
    ASSUME IInv, PipesAgree, ClientWrite
    PROVE  PipesAgree' /\ [Flow!Next]_(Flow!vars)
<1>1. PICK k \in Nat :
        /\ moved["client"] + k <= Window - outstandingBytes["client"]
        /\ bytes'["REQUEST"] = bytes["REQUEST"] + k
        /\ bytes'["RESPONSE"] = bytes["RESPONSE"]
        /\ moved'["client"] = moved["client"] + k
        /\ moved'["server"] = moved["server"]
        /\ pc["client"] = "writing"
        /\ pc'["client"] \in {"writing", "wrote"}
        /\ pc'["server"] = pc["server"]
        /\ UNCHANGED <<outstandingBytes, total>>
  BY ClientWriteEffect, Facts DEF IInv, TypeOK, Procs, Fifos
<1>2. /\ InWrite("client") = moved["client"] /\ InWrite("client")' = moved["client"] + k
      /\ InRead("client") = 0 /\ InRead("client")' = 0
      /\ InRead("server")' = InRead("server") /\ InWrite("server")' = InWrite("server")
      /\ InRead("server") \in Nat /\ InWrite("server") \in Nat
  BY <1>1, Facts DEF InRead, InWrite
<1>3. bytes'["REQUEST"] \in Nat
  BY NextIInv, Facts, <1>1 DEF Next, Client, Server, IInv, TypeOK, Fifos
<1>4. PipesAgree'
  BY <1>1, <1>2, Facts DEF PipesAgree
<1>5. [Flow!Next]_(Flow!vars)
  <2>1. CASE k = 0
    BY <1>1, <1>2, <2>1, Facts DEF Flow!vars
  <2>2. CASE k > 0
    <3>1. Flow!Send
      BY <1>1, <1>2, <1>3, <2>2, Facts, WindowType DEF PipesAgree, Flow!Send
    <3> QED
      BY <3>1 DEF Flow!Next
  <2> QED
    BY <2>1, <2>2
<1> QED
  BY <1>4, <1>5

\* write() of the server is Echo.
LEMMA ServerWriteFlow ==
    ASSUME IInv, PipesAgree, ServerWrite
    PROVE  PipesAgree' /\ [Flow!Next]_(Flow!vars)
<1>1. PICK k \in Nat :
        /\ moved["server"] + k <= outstandingBytes["server"]
        /\ bytes'["RESPONSE"] = bytes["RESPONSE"] + k
        /\ bytes'["REQUEST"] = bytes["REQUEST"]
        /\ moved'["server"] = moved["server"] + k
        /\ moved'["client"] = moved["client"]
        /\ pc["server"] = "writing"
        /\ pc'["server"] \in {"writing", "wrote"}
        /\ pc'["client"] = pc["client"]
        /\ UNCHANGED <<outstandingBytes, total>>
  BY ServerWriteEffect, Facts DEF IInv, TypeOK, Procs, Fifos
<1>2. /\ InWrite("server") = moved["server"] /\ InWrite("server")' = moved["server"] + k
      /\ InRead("server") = 0 /\ InRead("server")' = 0
      /\ InRead("client")' = InRead("client") /\ InWrite("client")' = InWrite("client")
      /\ InRead("client") \in Nat /\ InWrite("client") \in Nat
  BY <1>1, Facts DEF InRead, InWrite
<1>3. bytes'["RESPONSE"] \in Nat
  BY NextIInv, Facts, <1>1 DEF Next, Client, Server, IInv, TypeOK, Fifos
<1>4. PipesAgree'
  BY <1>1, <1>2, Facts DEF PipesAgree
<1>5. [Flow!Next]_(Flow!vars)
  <2>1. CASE k = 0
    BY <1>1, <1>2, <2>1, Facts DEF Flow!vars
  <2>2. CASE k > 0
    <3>1. Flow!Echo
      BY <1>1, <1>2, <1>3, <2>2, Facts, WindowType DEF PipesAgree, Flow!Echo
    <3> QED
      BY <3>1 DEF Flow!Next
  <2> QED
    BY <2>1, <2>2
<1> QED
  BY <1>4, <1>5

\* Counting what a call moved leaves FlowControl's view unchanged.
LEMMA AccountFlow ==
    ASSUME IInv, PipesAgree,
           ClientAccount \/ ClientWrote \/ ServerAccount \/ ServerWrote
    PROVE  PipesAgree' /\ [Flow!Next]_(Flow!vars)
<1> USE Facts DEF PipesAgree, Flow!vars, IInv, TypeOK, InRead, InWrite, Goto, Procs
<1>1. CASE ClientAccount
  <2>1. /\ total'["client"] = total["client"] + moved["client"]
        /\ outstandingBytes'["client"] = outstandingBytes["client"] - moved["client"]
        /\ total'["server"] = total["server"]
        /\ outstandingBytes'["server"] = outstandingBytes["server"]
        /\ moved'["server"] = moved["server"] /\ moved'["client"] = 0
        /\ pc'["server"] = pc["server"] /\ pc["client"] = "account"
        /\ pc'["client"] \in {"writing", "loop"}
        /\ bytes' = bytes
    BY <1>1 DEF ClientAccount
  <2> QED
    BY <2>1
<1>2. CASE ClientWrote
  <2>1. /\ outstandingBytes'["client"] = outstandingBytes["client"] + moved["client"]
        /\ outstandingBytes'["server"] = outstandingBytes["server"]
        /\ moved'["server"] = moved["server"] /\ moved'["client"] = 0
        /\ pc'["server"] = pc["server"] /\ pc["client"] = "wrote"
        /\ pc'["client"] = "loop"
        /\ bytes' = bytes /\ total' = total
    BY <1>2 DEF ClientWrote
  <2> QED
    BY <2>1
<1>3. CASE ServerAccount
  <2>1. /\ outstandingBytes'["server"] = outstandingBytes["server"] + moved["server"]
        /\ outstandingBytes'["client"] = outstandingBytes["client"]
        /\ moved'["client"] = moved["client"] /\ moved'["server"] = 0
        /\ pc'["client"] = pc["client"] /\ pc["server"] = "account"
        /\ pc'["server"] \in {"writing", "loop"}
        /\ bytes' = bytes /\ total' = total
    BY <1>3 DEF ServerAccount
  <2> QED
    BY <2>1
<1>4. CASE ServerWrote
  <2>1. /\ total'["server"] = total["server"] + moved["server"]
        /\ outstandingBytes'["server"] = outstandingBytes["server"] - moved["server"]
        /\ total'["client"] = total["client"]
        /\ outstandingBytes'["client"] = outstandingBytes["client"]
        /\ moved'["client"] = moved["client"] /\ moved'["server"] = 0
        /\ pc'["client"] = pc["client"] /\ pc["server"] = "wrote"
        /\ pc'["server"] = "loop"
        /\ bytes' = bytes
    BY <1>4 DEF ServerWrote
  <2> QED
    BY <2>1
<1> QED
  BY <1>1, <1>2, <1>3, <1>4

\* Every step of fifo is a step of FlowControl or a stutter.
LEMMA NextFlow ==
    IInv /\ PipesAgree /\ [Next]_vars => PipesAgree' /\ [Flow!Next]_(Flow!vars)
<1> SUFFICES ASSUME IInv, PipesAgree, [Next]_vars
             PROVE  PipesAgree' /\ [Flow!Next]_(Flow!vars)
  OBVIOUS
<1>1. CASE \E p \in Procs : \/ Common(p) \/ Killed(p)
                            \/ quit_signal_handler(p) \/ SleepInterrupted(p)
  BY <1>1, QuietSteps, QuietFlow
<1>2. CASE \/ ClientPoll \/ ClientTryRead \/ ClientEvaluate
           \/ ServerPoll \/ ServerTryRead
  BY <1>2, QuietCalls, QuietFlow
<1>3. CASE ClientRead \/ ClientWrite \/ ServerRead \/ ServerWrite
  BY <1>3, ClientReadFlow, ClientWriteFlow, ServerReadFlow, ServerWriteFlow
<1>4. CASE ClientAccount \/ ClientWrote \/ ServerAccount \/ ServerWrote
  BY <1>4, AccountFlow
<1>5. CASE UNCHANGED vars
  <2>1. Quiet
    BY <1>5 DEF vars, Quiet, InRead, InWrite
  <2> QED
    BY <2>1, QuietFlow
<1> QED
  BY <1>1, <1>2, <1>3, <1>4, <1>5 DEF Next, Client, Server, Signal, Procs

\* The fifo programs implement the flow-control specification.
THEOREM FifoImplementsFlowControl == Spec => FlowSpec
<1>1. Init => PipesAgree /\ Flow!Init
  BY DEF Init, PipesAgree, Flow!Init, InRead, InWrite, Procs, Fifos
<1> QED
  BY <1>1, Invariance, NextFlow, PTL DEF Spec, FlowSpec, Flow!Spec
-----------------------------------------------------------------------------
(***************************************************************************)
(* Which requests have a write time.  The client stamps the requests that  *)
(* would fill the window before it knows whether it may write them, so the *)
(* argument is about what its poll() has seen: an answer in RESPONSE means *)
(* that the server has taken all of REQUEST, which therefore has room.     *)
(***************************************************************************)

Looping == {"loop", "poll", "read", "reading", "account", "writing", "wrote"}

\* A process opens RESPONSE before REQUEST and holds each until it closes it.
Held(p) ==
    /\ pc[p] \in Starting =>
          /\ p \in fds["RESPONSE"] <=> opened[p] = 1 \/ pc[p] # "open"
          /\ p \in fds["REQUEST"] <=> opened[p] = 1 /\ pc[p] # "open"
    /\ pc[p] \in Running =>
          p \in fds[WritesTo(p)] /\ (pc[p] # "closeWrite" <=> p \in fds[ReadsFrom(p)])
    /\ pc[p] \in Ended => \A f \in Fifos : p \notin fds[f]

\* A process that still starts has counted nothing.
Fresh ==
    /\ \A p \in Procs : pc[p] \in Starting => outstandingBytes[p] = 0 /\ total[p] = 0
    /\ pc["client"] \in Starting => outstandingReqs = 0 /\ numReqsSent = numReqsRead

\* While the client holds REQUEST the server reads it to the end of a window and
\* echoes nothing before, unless it is told to quit.
ServerInTurn ==
    /\ pc["server"] \in {"loop", "poll", "read"} =>
          quit["server"] \/ outstandingBytes["server"] \in {0, Window}
    /\ pc["server"] = "read" /\ canRead["server"] => bytes["REQUEST"] > 0
    /\ pc["server"] = "reading" =>
          /\ outstandingBytes["server"] = 0
          /\ moved["server"] > 0 \/ bytes["REQUEST"] > 0
    /\ pc["server"] = "account" =>
          \/ quit["server"]
          \/ moved["server"] = 0 /\ outstandingBytes["server"] \in {0, Window}
          \/ moved["server"] = Window /\ outstandingBytes["server"] = 0
    /\ pc["server"] = "writing" => outstandingBytes["server"] = Window
    /\ pc["server"] = "wrote" =>
          quit["server"] \/ (moved["server"] = Window /\ outstandingBytes["server"] = Window)

\* An answer on its way, or about to be, means that nothing is left of the
\* requests.
AnswersLast ==
    bytes["RESPONSE"] > 0 \/ pc["server"] = "writing" =>
        bytes["REQUEST"] = 0 /\ pc["client"] # "writing"

\* All of the window is outstanding, or none of it.
Full == /\ outstandingBytes["client"] = Window
        /\ outstandingReqs = Rate
        /\ numReqsSent = numReqsRead + Rate
Empty == /\ outstandingBytes["client"] = 0
         /\ outstandingReqs = 0
         /\ numReqsSent = numReqsRead

ClientInTurn ==
    /\ pc["client"] \in {"loop", "poll", "read"} => quit["client"] \/ Full \/ Empty
    /\ pc["client"] = "read" /\ ~quit["client"] =>
          /\ canRead["client"] => bytes["RESPONSE"] > 0
          /\ Empty \/ canRead["client"] => canWrite["client"]
    /\ pc["client"] = "reading" =>
          /\ Full /\ canWrite["client"]
          /\ moved["client"] > 0 \/ bytes["RESPONSE"] > 0
    /\ pc["client"] = "account" =>
          \/ quit["client"] /\ moved["client"] = 0
          \/ Empty /\ moved["client"] = 0 /\ canWrite["client"]
          \/ Full /\ moved["client"] = 0
          \/ /\ Full /\ canWrite["client"]
             /\ \/ moved["client"] = Window
                \/ quit["client"]
                \/ pc["server"] \in Ended /\ bytes["RESPONSE"] = 0
    /\ pc["client"] \in {"writing", "wrote"} =>
          /\ numReqsSent = numReqsRead + Rate
          /\ \/ outstandingBytes["client"] = 0 /\ outstandingReqs = 0
             \/ moved["client"] = 0 /\ pc["server"] \in Ended
    /\ pc["client"] = "wrote" /\ ~quit["client"] =>
          /\ outstandingBytes["client"] = 0 /\ outstandingReqs = 0
          /\ moved["client"] = Window

InTurn == ServerInTurn /\ AnswersLast /\ ClientInTurn

TurnInv ==
    /\ \A p \in Procs : Held(p)
    /\ Fresh
    /\ pc["client"] \in Starting \cup Looping => InTurn

\* Entry i of times[]
Stamp(i) == IF i < numReqsRead THEN "rtt" ELSE IF i < numReqsSent THEN "sent" ELSE "unset"

Stamping ==
    /\ numReqsRead <= numReqsSent
    /\ times = [i \in 0..(Count - 1) |-> Stamp(i)]
    /\ Size * numReqsRead <= total["client"]

\* What TypeOK says about the scalars of this part
LEMMA Entries ==
    ASSUME IInv
    PROVE  /\ DOMAIN pc = Procs /\ DOMAIN fds = Fifos /\ DOMAIN opened = Procs
           /\ DOMAIN quit = Procs /\ DOMAIN canRead = Procs /\ DOMAIN canWrite = Procs
           /\ \A p \in Procs : pc[p] \in Starting \cup Running \cup Ended
           /\ \A p \in Procs : pc[p] \in Starting => opened[p] \in {0, 1}
BY DEF IInv, TypeOK, OpensLeft

\* What a process that starts opens next
LEMMA NextOpened ==
    ASSUME IInv, NEW p \in Procs, pc[p] \in Starting
    PROVE  /\ opened[p] = 0 => Opening(p) = "RESPONSE"
           /\ opened[p] = 1 => Opening(p) = "REQUEST"
BY DEF IInv, OpensLeft, Opening, ClientOpenOrder, ServerOpenOrder, Procs

\* The labels are different.
LEMMA Labels ==
    /\ Starting \cap Running = {} /\ Starting \cap Ended = {} /\ Running \cap Ended = {}
    /\ Looping \subseteq Running
BY DEF Starting, Running, Ended, Looping

\* The descriptors a process holds change with its own steps only.
LEMMA HeldStep ==
    ASSUME IInv, [Next]_vars, \A p \in Procs : Held(p)
    PROVE  \A p \in Procs : Held(p)'
<1> SUFFICES ASSUME NEW p \in Procs PROVE Held(p)'
  OBVIOUS
<1>0. /\ DOMAIN pc = Procs /\ DOMAIN fds = Fifos /\ DOMAIN opened = Procs
      /\ pc[p] \in Starting \cup Running \cup Ended
      /\ pc[p] \in Starting => opened[p] \in {0, 1}
      /\ Held(p)
  BY Entries
<1> USE DEF Starting, Running, Ended
<1>1. ASSUME pc'[p] = pc[p], opened'[p] = opened[p],
             \A f \in Fifos : p \in fds'[f] <=> p \in fds[f]
      PROVE  Held(p)'
  BY <1>0, <1>1 DEF Held, Fifos, WritesTo, ReadsFrom
<1>2. ASSUME pc[p] \in Running \ {"closeRead", "closeWrite"},
             pc'[p] \in Running \ {"closeWrite"},
             \A f \in Fifos : p \in fds'[f] <=> p \in fds[f]
      PROVE  Held(p)'
  BY <1>0, <1>2 DEF Held, Fifos, WritesTo, ReadsFrom
<1>3. ASSUME NEW q \in Procs, Open(q) PROVE Held(p)'
  <2>1. /\ pc[q] = "open" /\ opened' = opened
        /\ fds' = [fds EXCEPT ![Opening(q)] = @ \cup {q}]
    BY <1>3 DEF Open
  <2>2. /\ opened[q] \in {0, 1}
        /\ opened[q] = 0 => Opening(q) = "RESPONSE"
        /\ opened[q] = 1 => Opening(q) = "REQUEST"
    BY <2>1, Entries, NextOpened
  <2>3. CASE q = p
    <3>1. pc'[p] \in {"wait", "size"}
      BY <1>0, <1>3, <2>3 DEF Open
    <3>2. /\ p \in fds["RESPONSE"] <=> opened[p] = 1
          /\ p \notin fds["REQUEST"]
      BY <1>0, <2>1, <2>3 DEF Held
    <3>3. /\ p \in fds'["RESPONSE"]
          /\ p \in fds'["REQUEST"] <=> opened[p] = 1
      BY <1>0, <2>1, <2>2, <2>3, <3>2 DEF Fifos
    <3> QED
      BY <2>1, <3>1, <3>3 DEF Held
  <2>4. CASE q # p
    <3>1. \A f \in Fifos : p \in fds'[f] <=> p \in fds[f]
      BY <1>0, <2>1, <2>4
    <3>2. pc'[p] = pc[p] \/ (pc[p] = "wait" /\ pc'[p] = "size")
      BY <1>0, <1>3, <2>4 DEF Open
    <3> QED
      BY <1>0, <1>1, <2>1, <3>1, <3>2 DEF Held, Fifos
  <2> QED
    BY <2>3, <2>4
<1>4. ASSUME NEW q \in Procs, SetPipeSize(q) PROVE Held(p)'
  <2>1. pc[q] = "size" /\ (opened[q] = 0 \/ opened[q] = 1)
    BY <1>4, Entries DEF SetPipeSize
  <2>2. CASE q = p
    <3>1. p \in fds["RESPONSE"] /\ (p \in fds["REQUEST"] <=> opened[p] = 1)
      BY <1>0, <2>1, <2>2 DEF Held
    <3>2. CASE bytes[Opening(p)] <= PipeSizeOf(p)
      <4>1. /\ fds' = fds /\ opened'[p] = opened[p] + 1
            /\ opened[p] = 1 => pc'[p] = "loop"
            /\ opened[p] = 0 => pc'[p] = "open"
        BY <1>0, <1>4, <2>1, <2>2, <3>2 DEF SetPipeSize, Goto
      <4>2. CASE opened[p] = 0
        BY <3>1, <4>1, <4>2 DEF Held
      <4>3. CASE opened[p] = 1
        BY <3>1, <4>1, <4>3 DEF Held, WritesTo, ReadsFrom
      <4> QED
        BY <2>1, <2>2, <4>2, <4>3
    <3>3. CASE ~(bytes[Opening(p)] <= PipeSizeOf(p))
      <4>1. pc'[p] = "dead" /\ \A f \in Fifos : p \notin fds'[f]
        BY <1>0, <1>4, <2>2, <3>3 DEF SetPipeSize, Goto
      <4> QED
        BY <4>1 DEF Held
    <3> QED
      BY <3>2, <3>3
  <2>3. CASE q # p
    BY <1>0, <1>1, <1>4, <2>3 DEF SetPipeSize, Goto
  <2> QED
    BY <2>2, <2>3
<1>5. ASSUME NEW q \in Procs, Loop(q) PROVE Held(p)'
  BY <1>0, <1>1, <1>2, <1>5 DEF Loop, LoopExit, Goto, startup
<1>6. ASSUME NEW q \in Procs, CloseRead(q) \/ CloseWrite(q) PROVE Held(p)'
  <2>1. CASE q = p /\ CloseRead(q)
    <3>1. /\ pc[p] = "closeRead" /\ pc'[p] = "closeWrite"
          /\ fds' = [fds EXCEPT ![ReadsFrom(p)] = @ \ {p}]
      BY <1>0, <2>1 DEF CloseRead, Goto
    <3>2. /\ p \in fds[WritesTo(p)] /\ ReadsFrom(p) # WritesTo(p)
          /\ WritesTo(p) \in Fifos /\ ReadsFrom(p) \in Fifos
      BY <1>0, <3>1 DEF Held, ReadsFrom, WritesTo, Fifos
    <3> QED
      BY <1>0, <3>1, <3>2 DEF Held
  <2>3. CASE q = p /\ CloseWrite(q)
    <3>1. /\ pc[p] = "closeWrite" /\ pc'[p] = "done"
          /\ fds' = [fds EXCEPT ![WritesTo(p)] = @ \ {p}]
      BY <1>0, <2>3 DEF CloseWrite, Goto
    <3>2. p \notin fds[ReadsFrom(p)] /\ \A f \in Fifos : f \in {ReadsFrom(p), WritesTo(p)}
      BY <1>0, <3>1 DEF Held, ReadsFrom, WritesTo, Fifos
    <3> QED
      BY <1>0, <3>1, <3>2 DEF Held
  <2>2. CASE q # p
    BY <1>0, <1>1, <1>6, <2>2 DEF CloseRead, CloseWrite, Goto
  <2> QED
    BY <1>6, <2>1, <2>2, <2>3
<1>7. CASE \/ ClientPoll \/ ClientTryRead \/ ClientRead \/ ClientAccount
           \/ ClientWrite \/ ClientWrote
           \/ ServerPoll \/ ServerTryRead \/ ServerRead \/ ServerAccount
           \/ ServerWrite \/ ServerWrote
  <2>1. fds' = fds /\ opened' = opened
    BY <1>7 DEF ClientPoll, ClientTryRead, ClientRead, ClientAccount, ClientWrite, ClientWrote,
         ServerPoll, ServerTryRead, ServerRead, ServerAccount, ServerWrite, ServerWrote,
         TryRead, read_from_pipe, write_to_pipe, startup
  <2>2. \/ pc'[p] = pc[p]
        \/ /\ pc[p] \in Running \ {"closeRead", "closeWrite"}
           /\ pc'[p] \in Running \ {"closeWrite"}
    BY <1>0, <1>7 DEF ClientPoll, ClientTryRead, ClientRead, ClientAccount, ClientWrite,
         ClientWrote, ServerPoll, ServerTryRead, ServerRead, ServerAccount, ServerWrite,
         ServerWrote, TryRead, read_from_pipe, write_to_pipe, Goto
  <2> QED
    BY <1>1, <1>2, <2>1, <2>2
<1>8. CASE ClientEvaluate
  <2>1. CASE p = "client"
    BY <1>0, <1>8, <2>1 DEF ClientEvaluate, Goto, Held, ReadsFrom, WritesTo, Fifos
  <2>2. CASE p # "client"
    BY <1>0, <1>1, <1>8, <2>2 DEF ClientEvaluate, Goto
  <2> QED
    BY <2>1, <2>2
<1>9. ASSUME NEW q \in Procs, Killed(q) PROVE Held(p)'
  <2>1. CASE q = p
    BY <1>0, <1>9, <2>1 DEF Killed, Goto, Held, Fifos
  <2>2. CASE q # p
    BY <1>0, <1>1, <1>9, <2>2 DEF Killed, Goto
  <2> QED
    BY <2>1, <2>2
<1>10. ASSUME NEW q \in Procs, quit_signal_handler(q) \/ SleepInterrupted(q) PROVE Held(p)'
  <2>1. fds' = fds /\ opened' = opened
    BY <1>10 DEF quit_signal_handler, SleepInterrupted, startup
  <2>2. \/ pc'[p] = pc[p]
        \/ /\ pc[p] \in Running \ {"closeRead", "closeWrite"}
           /\ pc'[p] \in Running \ {"closeWrite"}
    BY <1>0, <1>10 DEF quit_signal_handler, SleepInterrupted, Goto
  <2> QED
    BY <1>1, <1>2, <2>1, <2>2
<1>11. CASE UNCHANGED vars
  BY <1>1, <1>11 DEF vars
<1> QED
  BY <1>3, <1>4, <1>5, <1>6, <1>7, <1>8, <1>9, <1>10, <1>11
     DEF Next, Client, Server, Signal, Common, Procs

\* What a step leaves alone of a process and its counters
Kept(p) ==
    /\ pc'[p] = pc[p] /\ quit'[p] = quit[p]
    /\ moved'[p] = moved[p] /\ outstandingBytes'[p] = outstandingBytes[p]
    /\ total'[p] = total[p]
    /\ canRead'[p] = canRead[p] /\ canWrite'[p] = canWrite[p]

ReqsKept == UNCHANGED <<outstandingReqs, numReqsRead, numReqsSent, times>>

\* A step of one process but for open() leaves the other one alone.
LEMMA ClientKept ==
    ASSUME IInv, \/ ServerPoll \/ ServerTryRead \/ ServerRead \/ ServerAccount
                 \/ ServerWrite \/ ServerWrote
    PROVE  Kept("client") /\ ReqsKept
<1>0. /\ DOMAIN pc = Procs /\ DOMAIN quit = Procs /\ DOMAIN moved = Procs
      /\ DOMAIN outstandingBytes = Procs /\ DOMAIN total = Procs
      /\ DOMAIN canRead = Procs /\ DOMAIN canWrite = Procs
  BY DEF IInv, TypeOK
<1> QED
  BY <1>0 DEF ServerPoll, ServerTryRead, ServerRead, ServerAccount, ServerWrite,
     ServerWrote, TryRead, read_from_pipe, write_to_pipe,
     Kept, ReqsKept, Goto, startup, stats, polled, window, Procs

\* The same for the client's steps
LEMMA ServerKept ==
    ASSUME IInv, \/ ClientPoll \/ ClientTryRead \/ ClientRead \/ ClientAccount
                 \/ ClientWrite \/ ClientWrote \/ ClientEvaluate
    PROVE  Kept("server")
<1>0. /\ DOMAIN pc = Procs /\ DOMAIN quit = Procs /\ DOMAIN moved = Procs
      /\ DOMAIN outstandingBytes = Procs /\ DOMAIN total = Procs
      /\ DOMAIN canRead = Procs /\ DOMAIN canWrite = Procs
  BY DEF IInv, TypeOK
<1> QED
  BY <1>0 DEF ClientPoll, ClientTryRead, ClientRead, ClientAccount, ClientWrite,
     ClientWrote, ClientEvaluate, TryRead, read_from_pipe, write_to_pipe,
     Kept, Goto, startup, stats, polled, window, Procs

\* and for those both have, and the signals
LEMMA OtherKept ==
    ASSUME IInv, NEW p \in Procs,
           \/ SetPipeSize(p) \/ Loop(p) \/ CloseRead(p) \/ CloseWrite(p)
           \/ Killed(p) \/ quit_signal_handler(p) \/ SleepInterrupted(p)
    PROVE  Kept(Other(p)) /\ ReqsKept
<1>0. /\ DOMAIN pc = Procs /\ DOMAIN quit = Procs /\ DOMAIN moved = Procs
      /\ DOMAIN outstandingBytes = Procs /\ DOMAIN total = Procs
      /\ DOMAIN canRead = Procs /\ DOMAIN canWrite = Procs
      /\ Other(p) \in Procs /\ Other(p) # p
  BY DEF IInv, TypeOK, Other, Procs
<1> QED
  BY <1>0 DEF SetPipeSize, Loop, LoopExit, CloseRead, CloseWrite, Killed,
     quit_signal_handler, SleepInterrupted,
     Kept, ReqsKept, Goto, startup, stats, polled, window

\* open() moves processes that start, and nothing else of what is counted.
LEMMA OpenKept ==
    ASSUME IInv, NEW p \in Procs, Open(p)
    PROVE  /\ \A q \in Procs : pc'[q] = pc[q] \/ (pc[q] \in Starting /\ pc'[q] \in Starting)
           /\ UNCHANGED <<opened, bytes, capacity, quit, polled, window, stats>>
BY DEF IInv, TypeOK, Open, Starting

\* Nothing is counted before the loop.
LEMMA FreshStep ==
    ASSUME IInv, Fresh, [Next]_vars
    PROVE  Fresh'
<1> SUFFICES ASSUME NEW p \in Procs, pc'[p] \in Starting
             PROVE  /\ pc[p] \in Starting
                    /\ outstandingBytes'[p] = outstandingBytes[p] /\ total'[p] = total[p]
                    /\ p = "client" => ReqsKept
  BY DEF Fresh, ReqsKept, Procs
<1>0. /\ DOMAIN pc = Procs /\ DOMAIN outstandingBytes = Procs /\ DOMAIN total = Procs
      /\ pc[p] \in Starting \cup Running \cup Ended
  BY DEF IInv, TypeOK
<1>1. ASSUME NEW q \in Procs, Open(q)
      PROVE  /\ pc[p] \in Starting
             /\ UNCHANGED <<outstandingBytes, total>> /\ ReqsKept
  BY <1>1, OpenKept DEF window, stats, ReqsKept
<1>2. ASSUME NEW q \in Procs,
             \/ SetPipeSize(q) \/ Loop(q) \/ CloseRead(q) \/ CloseWrite(q)
             \/ Killed(q) \/ quit_signal_handler(q) \/ SleepInterrupted(q)
      PROVE  /\ pc[p] \in Starting
             /\ UNCHANGED <<outstandingBytes, total>> /\ ReqsKept
  BY <1>0, <1>2 DEF SetPipeSize, Loop, LoopExit, CloseRead, CloseWrite, Killed, Goto,
     quit_signal_handler, SleepInterrupted, window, stats, ReqsKept, Starting, Running, Procs
<1>3. CASE \/ ServerPoll \/ ServerTryRead \/ ServerRead \/ ServerAccount
           \/ ServerWrite \/ ServerWrote
  <2>1. pc'["server"] \notin Starting
    BY <1>0, <1>3 DEF ServerPoll, ServerTryRead, ServerRead, ServerAccount, ServerWrite,
       ServerWrote, TryRead, read_from_pipe, write_to_pipe, Goto, Starting, Procs
  <2> QED
    BY <1>3, <2>1, ClientKept DEF Kept, Procs
<1>4. CASE \/ ClientPoll \/ ClientTryRead \/ ClientRead \/ ClientAccount
           \/ ClientWrite \/ ClientWrote \/ ClientEvaluate
  <2>1. pc'["client"] \notin Starting
    BY <1>0, <1>4 DEF ClientPoll, ClientTryRead, ClientRead, ClientAccount, ClientWrite,
       ClientWrote, ClientEvaluate, TryRead, read_from_pipe, write_to_pipe, Goto, Starting, Procs
  <2> QED
    BY <1>4, <2>1, ServerKept DEF Kept, Procs
<1>5. CASE UNCHANGED vars
  BY <1>5 DEF vars, ReqsKept
<1> QED
  BY <1>1, <1>2, <1>3, <1>4, <1>5 DEF Next, Client, Server, Signal, Common, Procs
-----------------------------------------------------------------------------
\* The server's part survives what the client does but to take from REQUEST,
LEMMA ServerAside ==
    ASSUME IInv, ServerInTurn, Kept("server"),
           bytes'["REQUEST"] \in Nat, bytes'["REQUEST"] >= bytes["REQUEST"]
    PROVE  ServerInTurn'
<1>1. bytes["REQUEST"] \in Nat /\ (bytes["REQUEST"] > 0 => bytes'["REQUEST"] > 0)
  BY Facts
<1> QED
  BY <1>1 DEF ServerInTurn, Kept

\* and the client's what the server does but to write after it has left.
LEMMA ClientAside ==
    ASSUME IInv, ClientInTurn, Kept("client"), ReqsKept,
           bytes'["RESPONSE"] \in Nat, bytes'["RESPONSE"] >= bytes["RESPONSE"],
           pc["server"] \in Ended =>
              pc'["server"] \in Ended /\ bytes'["RESPONSE"] = bytes["RESPONSE"]
    PROVE  ClientInTurn'
<1>1. bytes["RESPONSE"] \in Nat /\ (bytes["RESPONSE"] > 0 => bytes'["RESPONSE"] > 0)
  BY Facts
<1> QED
  BY <1>1 DEF ClientInTurn, Full, Empty, Kept, ReqsKept

\* Whatever the client gets back at once leaves nothing with anyone else.
LEMMA NothingOut ==
    ASSUME IInv, InWrite("client") = 0, outstandingBytes["client"] = InRead("client")
    PROVE  /\ bytes["REQUEST"] = 0 /\ bytes["RESPONSE"] = 0
           /\ pc["server"] # "writing"
           /\ outstandingBytes["server"] + InRead("server") = InWrite("server")
<1> DEFINE rq == bytes["REQUEST"]
           rs == bytes["RESPONSE"]
           ob == outstandingBytes["server"]
           ri == InRead("server")
           wi == InWrite("server")
<1>1. rq \in Nat /\ rs \in Nat /\ ob \in Nat /\ ri \in Nat /\ wi \in Nat
  BY Facts DEF InRead, InWrite
<1>2. wi <= ob /\ (pc["server"] = "writing" => wi < ob)
  BY <1>1 DEF IInv, CallsBounded, InWrite
<1>3. 0 = rq + rs + ob + ri - wi
  BY Facts DEF IInv, WindowConserved
<1> HIDE DEF rq, rs, ob, ri, wi
<1>4. rq = 0 /\ rs = 0 /\ ob + ri = wi /\ ~(wi < ob)
  BY <1>1, <1>2, <1>3
<1> QED
  BY <1>2, <1>4 DEF rq, rs, ob, ri, wi

\* A window in the server's hands leaves nothing in the pipes and no room for
\* the client to write.
LEMMA AllAtServer ==
    ASSUME IInv,
           outstandingBytes["server"] + InRead("server") - InWrite("server") >= Window
    PROVE  /\ bytes["REQUEST"] = 0 /\ bytes["RESPONSE"] = 0
           /\ pc["client"] # "writing"
<1> DEFINE rq == bytes["REQUEST"]
           rs == bytes["RESPONSE"]
           ob == outstandingBytes["server"]
           oc == outstandingBytes["client"]
           ri == InRead("server")
           wi == InWrite("server")
           ci == InRead("client")
           co == InWrite("client")
<1>1. /\ rq \in Nat /\ rs \in Nat /\ ob \in Nat /\ oc \in Nat
      /\ ri \in Nat /\ wi \in Nat /\ ci \in Nat /\ co \in Nat /\ Window \in Nat
  BY Facts, WindowType DEF InRead, InWrite
<1>2. pc["client"] = "writing" => oc + co < Window
  BY <1>1 DEF IInv, CallsBounded, InWrite
<1>3. oc + co - ci = rq + rs + ob + ri - wi /\ oc + co <= Window /\ ob + ri - wi >= Window
  BY DEF IInv, WindowConserved
<1> HIDE DEF rq, rs, ob, oc, ri, wi, ci, co
<1>4. rq = 0 /\ rs = 0 /\ ~(oc + co < Window)
  BY <1>1, <1>3
<1> QED
  BY <1>2, <1>4 DEF rq, rs

\* The steps that move nothing: start-up, the loop's test and the end
LEMMA QuietTurn ==
    ASSUME IInv, TurnInv, InTurn, pc'["client"] \in Starting \cup Looping,
           NEW p \in Procs,
           Open(p) \/ SetPipeSize(p) \/ Loop(p) \/ CloseRead(p) \/ CloseWrite(p) \/ Killed(p)
    PROVE  InTurn'
<1> USE DEF Starting, Looping
<1>0. /\ DOMAIN pc = Procs /\ DOMAIN opened = Procs
      /\ \A q \in Procs : pc[q] \in Starting \cup Running \cup Ended
      /\ \A q \in Procs : pc[q] \in Starting => opened[q] \in {0, 1}
      /\ bytes["REQUEST"] \in Nat /\ bytes["RESPONSE"] \in Nat
  BY Entries, Facts
<1>1. bytes' = bytes
  BY DEF Open, SetPipeSize, Loop, CloseRead, CloseWrite, Killed
<1>2. CASE Open(p)
  <2>1. /\ \A q \in Procs : pc'[q] = pc[q] \/ (pc[q] \in Starting /\ pc'[q] \in Starting)
        /\ UNCHANGED <<bytes, quit, canRead, canWrite, moved, outstandingBytes, total>>
        /\ ReqsKept
    BY <1>2, OpenKept DEF polled, window, stats, ReqsKept
  <2>2. ServerInTurn'
    BY <2>1 DEF InTurn, ServerInTurn, Procs
  <2>3. AnswersLast'
    BY <2>1 DEF InTurn, AnswersLast, Procs
  <2>4. ClientInTurn'
    BY <2>1 DEF InTurn, ClientInTurn, Full, Empty, ReqsKept, Procs, Ended
  <2> QED
    BY <2>2, <2>3, <2>4 DEF InTurn
<1>3. CASE p = "server" /\ ~Open(p)
  <2>1. Kept("client") /\ ReqsKept
    BY <1>3, OtherKept DEF Other
  <2>2. ClientInTurn'
    BY <1>0, <1>1, <1>3, <2>1, ClientAside
       DEF InTurn, SetPipeSize, Loop, CloseRead, CloseWrite, Killed, Ended
  <2>3. /\ UNCHANGED <<quit, outstandingBytes, total>>
        /\ \/ pc'["server"] \notin Looping
           \/ pc'["server"] \in {"loop", "poll"} /\ pc["server"] \in {"size", "loop"}
    BY <1>0, <1>3 DEF SetPipeSize, Loop, LoopExit, CloseRead, CloseWrite, Killed, Goto,
       window, Procs
  <2>4. pc["server"] = "size" => outstandingBytes["server"] = 0
    BY DEF TurnInv, Fresh, Procs
  <2>5. ServerInTurn'
    BY <2>3, <2>4 DEF InTurn, ServerInTurn
  <2>6. AnswersLast'
    BY <1>1, <2>1, <2>3 DEF InTurn, AnswersLast, Kept
  <2> QED
    BY <2>2, <2>5, <2>6 DEF InTurn
<1>4. CASE p = "client" /\ ~Open(p)
  <2>1. Kept("server") /\ ReqsKept
    BY <1>4, OtherKept DEF Other
  <2>2. ServerInTurn'
    BY <1>0, <1>1, <2>1, ServerAside DEF InTurn
  <2>3. /\ UNCHANGED <<quit, outstandingBytes, total>>
        /\ \/ pc'["client"] = "open"
           \/ pc'["client"] \in {"loop", "poll"} /\ pc["client"] \in {"size", "loop"}
    BY <1>0, <1>4 DEF SetPipeSize, Loop, LoopExit, CloseRead, CloseWrite, Killed, Goto,
       window, Procs
  <2>4. pc["client"] = "size" => Empty
    BY DEF TurnInv, Fresh, Empty, Procs
  <2>5. ClientInTurn'
    BY <2>1, <2>3, <2>4 DEF InTurn, ClientInTurn, Full, Empty, ReqsKept
  <2>6. AnswersLast'
    BY <1>1, <2>1, <2>3 DEF InTurn, AnswersLast, Kept
  <2> QED
    BY <2>2, <2>5, <2>6 DEF InTurn
<1> QED
  BY <1>2, <1>3, <1>4 DEF Procs

\* The signals
LEMMA SignalTurn ==
    ASSUME IInv, InTurn, NEW p \in Procs, quit_signal_handler(p) \/ SleepInterrupted(p)
    PROVE  InTurn'
<1>0. /\ DOMAIN pc = Procs /\ DOMAIN quit = Procs
      /\ bytes["REQUEST"] \in Nat /\ bytes["RESPONSE"] \in Nat
  BY Entries, Facts
<1>1. UNCHANGED <<bytes, canRead, canWrite, moved, outstandingBytes, total>> /\ ReqsKept
  BY DEF quit_signal_handler, SleepInterrupted, polled, window, stats, ReqsKept
<1>2. /\ quit'[p] = TRUE
      /\ \/ pc'[p] = pc[p]
         \/ pc[p] = "reading" /\ pc'[p] = "account"
         \/ pc[p] = "writing" /\ pc'[p] = "wrote"
  BY <1>0 DEF quit_signal_handler, SleepInterrupted, Goto
<1>3. CASE p = "server"
  <2>1. Kept("client")
    BY <1>3, OtherKept DEF Other
  <2>2. ClientInTurn'
    BY <1>0, <1>1, <1>2, <1>3, <2>1, ClientAside DEF InTurn, Ended
  <2>3. ServerInTurn'
    BY <1>1, <1>2, <1>3 DEF InTurn, ServerInTurn
  <2>4. AnswersLast'
    BY <1>1, <1>2, <1>3, <2>1 DEF InTurn, AnswersLast, Kept
  <2> QED
    BY <2>2, <2>3, <2>4 DEF InTurn
<1>4. CASE p = "client"
  <2>1. Kept("server")
    BY <1>4, OtherKept DEF Other
  <2>2. ServerInTurn'
    BY <1>0, <1>1, <2>1, ServerAside DEF InTurn
  <2>3. ClientInTurn'
    BY <1>1, <1>2, <1>4, <2>1 DEF InTurn, ClientInTurn, Full, Empty, Kept, ReqsKept
  <2>4. AnswersLast'
    BY <1>1, <1>2, <1>4, <2>1 DEF InTurn, AnswersLast, Kept
  <2> QED
    BY <2>2, <2>3, <2>4 DEF InTurn
<1> QED
  BY <1>3, <1>4 DEF Procs
-----------------------------------------------------------------------------
\* A read() takes a byte at least, or finds the other end closed.
LEMMA ReadProgress ==
    ASSUME IInv, NEW p \in Procs, NEW f \in Fifos, NEW n \in Nat,
           pc[p] = "reading" => moved[p] < n,
           read_from_pipe(p, f, n)
    PROVE  \/ \E k \in 1..bytes[f] :
                /\ bytes' = [bytes EXCEPT ![f] = bytes[f] - k]
                /\ moved' = [moved EXCEPT ![p] = moved[p] + k]
                /\ \/ pc' = pc /\ moved[p] + k < n
                   \/ pc' = [pc EXCEPT ![p] = "account"] /\ moved[p] + k = n
           \/ /\ bytes[f] = 0 /\ Other(p) \notin fds[f]
              /\ pc' = [pc EXCEPT ![p] = "account"]
              /\ UNCHANGED <<bytes, moved>>
<1>0. moved[p] \in Nat /\ moved[p] < n /\ bytes[f] \in Nat
  BY DEF IInv, TypeOK, read_from_pipe
<1>1. CASE bytes[f] > 0
  <2> DEFINE k == Least(bytes[f], Least(Size, n - moved[p]))
  <2>1. k \in 1..bytes[f] /\ moved[p] + k <= n
    BY <1>0, <1>1, SizesAssumption DEF Least
  <2>2. /\ bytes' = [bytes EXCEPT ![f] = bytes[f] - k]
        /\ moved' = [moved EXCEPT ![p] = moved[p] + k]
        /\ IF moved[p] + k < n THEN pc' = pc
                               ELSE pc' = [pc EXCEPT ![p] = "account"]
    BY <1>1 DEF read_from_pipe, Goto
  <2> HIDE DEF k
  <2>3. \/ pc' = pc /\ moved[p] + k < n
        \/ pc' = [pc EXCEPT ![p] = "account"] /\ moved[p] + k = n
    <3>1. moved[p] + k < n \/ moved[p] + k = n
      BY <1>0, <2>1
    <3> QED
      BY <2>2, <3>1
  <2> QED
    BY <2>1, <2>2, <2>3
<1>2. CASE ~(bytes[f] > 0)
  BY <1>0, <1>2 DEF read_from_pipe, Goto
<1> QED
  BY <1>1, <1>2

\* A piece of a write() adds a byte at least, within the pipe, or meets EPIPE.
LEMMA WriteProgress ==
    ASSUME IInv, NEW p \in Procs, NEW f \in Fifos, NEW n \in Nat,
           pc[p] = "writing" => moved[p] < n,
           write_to_pipe(p, f, n)
    PROVE  \/ /\ Other(p) \in fds[f] /\ quit' = quit
              /\ \E k \in Nat \ {0} :
                   /\ bytes[f] + k <= capacity[f]
                   /\ bytes' = [bytes EXCEPT ![f] = bytes[f] + k]
                   /\ moved' = [moved EXCEPT ![p] = moved[p] + k]
                   /\ \/ pc' = pc /\ moved[p] + k < n
                      \/ pc' = [pc EXCEPT ![p] = "wrote"] /\ moved[p] + k = n
           \/ /\ Other(p) \notin fds[f]
              /\ quit' = [quit EXCEPT ![p] = TRUE]
              /\ pc' = [pc EXCEPT ![p] = "wrote"]
              /\ UNCHANGED <<bytes, moved>>
<1>0. moved[p] \in Nat /\ moved[p] < n /\ bytes[f] \in Nat /\ capacity[f] \in Nat
  BY DEF IInv, TypeOK, write_to_pipe
<1>1. CASE Other(p) \in fds[f]
  <2> DEFINE most == Least(capacity[f] - bytes[f], Least(Size, n - moved[p]))
  <2>1. PICK k \in 1..most :
          /\ bytes' = [bytes EXCEPT ![f] = bytes[f] + k]
          /\ moved' = [moved EXCEPT ![p] = moved[p] + k]
          /\ IF moved[p] + k < n THEN pc' = pc
                                 ELSE pc' = [pc EXCEPT ![p] = "wrote"]
    BY <1>1 DEF write_to_pipe, Goto
  <2>2. most \in Int /\ most <= n - moved[p] /\ most <= capacity[f] - bytes[f]
    BY <1>0, SizesAssumption DEF Least
  <2> HIDE DEF most
  <2>3. k \in Nat \ {0} /\ moved[p] + k <= n /\ bytes[f] + k <= capacity[f]
    BY <1>0, <2>2
  <2>4. \/ pc' = pc /\ moved[p] + k < n
        \/ pc' = [pc EXCEPT ![p] = "wrote"] /\ moved[p] + k = n
    <3>1. moved[p] + k < n \/ moved[p] + k = n
      BY <1>0, <2>3
    <3> QED
      BY <2>1, <3>1
  <2>5. quit' = quit
    BY <1>1 DEF write_to_pipe
  <2> QED
    BY <1>1, <2>1, <2>3, <2>4, <2>5
<1>2. CASE Other(p) \notin fds[f]
  BY <1>2 DEF write_to_pipe, Goto
<1> QED
  BY <1>1, <1>2

\* The server's poll sees what is in REQUEST, and only the server takes it out.
LEMMA ServerPollTurn ==
    ASSUME IInv, InTurn, ServerPoll \/ ServerTryRead
    PROVE  InTurn'
<1> USE DEF Procs
<1>0. /\ DOMAIN pc = Procs /\ DOMAIN canRead = Procs /\ DOMAIN moved = Procs
      /\ bytes["REQUEST"] \in Nat /\ bytes["RESPONSE"] \in Nat
  BY Entries, Facts DEF IInv, TypeOK
<1>1. /\ Kept("client") /\ ReqsKept
      /\ UNCHANGED <<bytes, quit, outstandingBytes>>
      /\ pc["server"] \in {"poll", "read"}
  BY ClientKept DEF ServerPoll, ServerTryRead, TryRead, window
<1>2. ClientInTurn'
  BY <1>0, <1>1, ClientAside DEF InTurn, Ended
<1>3. CASE ServerPoll
  <2>1. /\ pc["server"] = "poll" /\ pc'["server"] \in {"closeRead", "read"}
        /\ canRead'["server"] = (bytes["REQUEST"] > 0)
    BY <1>0, <1>3 DEF ServerPoll, Goto
  <2>2. ServerInTurn'
    BY <1>1, <2>1 DEF InTurn, ServerInTurn
  <2>3. AnswersLast'
    BY <1>1, <2>1 DEF InTurn, AnswersLast, Kept
  <2> QED
    BY <1>2, <2>2, <2>3 DEF InTurn
<1>4. CASE ServerTryRead
  <2>1. /\ pc["server"] = "read" /\ moved'["server"] = 0
        /\ \/ pc'["server"] = "reading" /\ canRead["server"] /\ ~quit["server"]
           \/ pc'["server"] = "account"
    BY <1>0, <1>4 DEF ServerTryRead, TryRead, Goto
  <2>2. ASSUME pc'["server"] = "reading"
        PROVE  outstandingBytes["server"] = 0 /\ bytes["REQUEST"] > 0
    <3>1. outstandingBytes["server"] \in {0, Window} /\ bytes["REQUEST"] > 0
      BY <2>1, <2>2 DEF InTurn, ServerInTurn
    <3>2. InRead("server") = 0 /\ InWrite("server") = 0
      BY <2>1 DEF InRead, InWrite
    <3>3. outstandingBytes["server"] # Window
      BY <3>1, <3>2, AllAtServer, WindowType
    <3> QED
      BY <3>1, <3>3
  <2>3. quit["server"] \/ outstandingBytes["server"] \in {0, Window}
    BY <2>1 DEF InTurn, ServerInTurn
  <2>4. ServerInTurn'
    BY <1>1, <2>1, <2>2, <2>3 DEF ServerInTurn
  <2>5. AnswersLast'
    BY <1>1, <2>1 DEF InTurn, AnswersLast, Kept
  <2> QED
    BY <1>2, <2>4, <2>5 DEF InTurn
<1> QED
  BY <1>3, <1>4

\* As long as the client has REQUEST open the server's read_from_pipe ends with
\* a whole window or by a signal.
LEMMA ServerReadTurn ==
    ASSUME IInv, TurnInv, InTurn, pc["client"] \in Starting \cup Looping, ServerRead
    PROVE  InTurn'
<1> USE DEF Procs, Fifos
<1>0. /\ pc \in [Procs -> Starting \cup Running \cup Ended]
      /\ bytes \in [Fifos -> Nat] /\ moved \in [Procs -> Nat]
      /\ Window \in Nat /\ toRead = Window
  BY ToReadIsWindow, WindowType DEF IInv, TypeOK
<1>1. /\ Kept("client") /\ ReqsKept
      /\ UNCHANGED <<quit, outstandingBytes>>
      /\ pc["server"] = "reading" /\ read_from_pipe("server", "REQUEST", Window)
      /\ moved["server"] < Window
  BY <1>0, ClientKept DEF ServerRead, read_from_pipe, IInv, CallsBounded
<1>2. /\ outstandingBytes["server"] = 0
      /\ moved["server"] > 0 \/ bytes["REQUEST"] > 0
  BY <1>1 DEF InTurn, ServerInTurn
<1>3. pc["client"] \notin Starting
  <2> SUFFICES ASSUME pc["client"] \in Starting PROVE FALSE
    OBVIOUS
  <2>1. InWrite("client") = 0 /\ InRead("client") = 0 /\ outstandingBytes["client"] = 0
    BY DEF TurnInv, Fresh, Starting, InRead, InWrite
  <2>2. bytes["REQUEST"] = 0 /\ outstandingBytes["server"] + InRead("server") = InWrite("server")
    BY <2>1, NothingOut
  <2>3. InRead("server") = moved["server"] /\ InWrite("server") = 0
    BY <1>1 DEF InRead, InWrite
  <2> QED
    BY <1>0, <1>2, <2>2, <2>3
<1>4. "client" \in fds["REQUEST"]
  BY <1>3 DEF TurnInv, Held, Looping, Running, WritesTo
<1>5. PICK k \in 1..bytes["REQUEST"] :
        /\ bytes' = [bytes EXCEPT !["REQUEST"] = bytes["REQUEST"] - k]
        /\ moved' = [moved EXCEPT !["server"] = moved["server"] + k]
        /\ \/ pc' = pc /\ moved["server"] + k < Window
           \/ pc' = [pc EXCEPT !["server"] = "account"] /\ moved["server"] + k = Window
  BY <1>0, <1>1, <1>4, ReadProgress DEF Other
<1>6. /\ bytes'["RESPONSE"] = bytes["RESPONSE"]
      /\ bytes["REQUEST"] > 0
      /\ moved'["server"] > 0
      /\ \/ pc'["server"] = "reading"
         \/ pc'["server"] = "account" /\ moved'["server"] = Window
  BY <1>0, <1>1, <1>5
<1>7. ClientInTurn'
  BY <1>0, <1>1, <1>6, ClientAside DEF InTurn, Ended
<1>8. ServerInTurn'
  BY <1>1, <1>2, <1>6 DEF ServerInTurn
<1>9. AnswersLast'
  BY <1>0, <1>1, <1>6 DEF InTurn, AnswersLast, Kept
<1> QED
  BY <1>7, <1>8, <1>9 DEF InTurn

\* The server echoes a whole window or nothing.
LEMMA ServerAccountTurn ==
    ASSUME IInv, InTurn, ServerAccount \/ ServerWrote
    PROVE  InTurn'
<1> USE DEF Procs
<1>0. /\ DOMAIN pc = Procs /\ DOMAIN moved = Procs /\ DOMAIN outstandingBytes = Procs
      /\ bytes["REQUEST"] \in Nat /\ bytes["RESPONSE"] \in Nat
      /\ moved["server"] \in Nat /\ outstandingBytes["server"] \in Nat /\ Window \in Nat \ {0}
  BY Facts, WindowType DEF IInv, TypeOK
<1>1. /\ Kept("client") /\ ReqsKept
      /\ UNCHANGED <<bytes, quit>>
      /\ pc["server"] \in {"account", "wrote"}
  BY ClientKept DEF ServerAccount, ServerWrote
<1>2. ClientInTurn'
  BY <1>0, <1>1, ClientAside DEF InTurn, Ended
<1>3. CASE ServerAccount
  <2> DEFINE b == outstandingBytes["server"] + moved["server"]
  <2>1. /\ pc["server"] = "account" /\ outstandingBytes'["server"] = b
        /\ \/ pc'["server"] = "writing" /\ ~quit["server"] /\ b > 0
           \/ pc'["server"] = "loop"
    BY <1>0, <1>3 DEF ServerAccount, Goto
  <2>2. quit["server"] \/ b \in {0, Window}
    <3>1. \/ quit["server"]
          \/ moved["server"] = 0 /\ outstandingBytes["server"] \in {0, Window}
          \/ moved["server"] = Window /\ outstandingBytes["server"] = 0
      BY <2>1 DEF InTurn, ServerInTurn
    <3> QED
      BY <1>0, <3>1
  <2>3. b = outstandingBytes["server"] + InRead("server") /\ InWrite("server") = 0 /\ b \in Nat
    BY <1>0, <2>1 DEF InRead, InWrite
  <2>4. b = Window => bytes["REQUEST"] = 0 /\ pc["client"] # "writing"
    <3> SUFFICES ASSUME b = Window PROVE bytes["REQUEST"] = 0 /\ pc["client"] # "writing"
      OBVIOUS
    <3>1. outstandingBytes["server"] + InRead("server") - InWrite("server") = Window
      BY <1>0, <2>3 DEF InRead
    <3>2. outstandingBytes["server"] + InRead("server") - InWrite("server") >= Window
      BY <1>0, <3>1
    <3> QED
      BY <3>2, AllAtServer
  <2> HIDE DEF b
  <2>5. ServerInTurn'
    BY <1>1, <2>1, <2>2, <2>3 DEF ServerInTurn
  <2>6. AnswersLast'
    BY <1>1, <2>1, <2>2, <2>3, <2>4 DEF InTurn, AnswersLast, Kept
  <2> QED
    BY <1>2, <2>5, <2>6 DEF InTurn
<1>4. CASE ServerWrote
  <2>1. /\ pc["server"] = "wrote" /\ pc'["server"] = "loop"
        /\ outstandingBytes'["server"] = outstandingBytes["server"] - moved["server"]
    BY <1>0, <1>4 DEF ServerWrote, Goto
  <2>2. quit["server"] \/ outstandingBytes'["server"] = 0
    <3>1. quit["server"] \/ (moved["server"] = Window /\ outstandingBytes["server"] = Window)
      BY <2>1 DEF InTurn, ServerInTurn
    <3> QED
      BY <1>0, <2>1, <3>1
  <2>3. ServerInTurn'
    BY <1>1, <2>1, <2>2 DEF ServerInTurn
  <2>4. AnswersLast'
    BY <1>1, <2>1 DEF InTurn, AnswersLast, Kept
  <2> QED
    BY <1>2, <2>3, <2>4 DEF InTurn
<1> QED
  BY <1>3, <1>4

\* The echo comes after the last byte of the requests.
LEMMA ServerWriteTurn ==
    ASSUME IInv, InTurn, ServerWrite
    PROVE  InTurn'
<1> USE DEF Procs, Fifos
<1>0. /\ pc \in [Procs -> Starting \cup Running \cup Ended] /\ DOMAIN quit = Procs
      /\ bytes \in [Fifos -> Nat] /\ moved \in [Procs -> Nat]
      /\ outstandingBytes["server"] \in Nat
  BY Entries, Facts DEF IInv, TypeOK
<1>1. /\ Kept("client") /\ ReqsKept
      /\ UNCHANGED outstandingBytes
      /\ pc["server"] = "writing"
      /\ write_to_pipe("server", "RESPONSE", outstandingBytes["server"])
      /\ moved["server"] < outstandingBytes["server"]
  BY <1>0, ClientKept DEF ServerWrite, write_to_pipe, IInv, CallsBounded
<1>2. /\ outstandingBytes["server"] = Window
      /\ bytes["REQUEST"] = 0 /\ pc["client"] # "writing"
  BY <1>1 DEF InTurn, ServerInTurn, AnswersLast
<1>3. /\ bytes'["REQUEST"] = bytes["REQUEST"]
      /\ bytes'["RESPONSE"] \in Nat /\ bytes'["RESPONSE"] >= bytes["RESPONSE"]
      /\ \/ pc'["server"] = "writing"
         \/ pc'["server"] = "wrote" /\ (moved'["server"] = Window \/ quit'["server"])
  <2>1. CASE Other("server") \in fds["RESPONSE"]
    <3>1. PICK k \in Nat \ {0} :
            /\ bytes' = [bytes EXCEPT !["RESPONSE"] = bytes["RESPONSE"] + k]
            /\ moved' = [moved EXCEPT !["server"] = moved["server"] + k]
            /\ \/ pc' = pc
               \/ pc' = [pc EXCEPT !["server"] = "wrote"]
                  /\ moved["server"] + k = outstandingBytes["server"]
      BY <1>0, <1>1, <2>1, WriteProgress
    <3> QED
      BY <1>0, <1>1, <1>2, <3>1
  <2>2. CASE Other("server") \notin fds["RESPONSE"]
    BY <1>0, <1>1, <2>2, WriteProgress
  <2> QED
    BY <2>1, <2>2
<1>4. ClientInTurn'
  BY <1>1, <1>3, ClientAside DEF InTurn, Ended
<1>5. ServerInTurn'
  BY <1>1, <1>2, <1>3 DEF ServerInTurn
<1>6. AnswersLast'
  BY <1>1, <1>2, <1>3 DEF AnswersLast, Kept
<1> QED
  BY <1>4, <1>5, <1>6 DEF InTurn
-----------------------------------------------------------------------------
\* A window is Rate whole requests, and less of it no more.
LEMMA WindowReqs ==
    /\ wholeReqs(Window) = Rate
    /\ \A k \in 0..Window : wholeReqs(k) \in 0..Rate
<1>1. ASSUME NEW k \in 0..Window PROVE wholeReqs(k) \in 0..Rate
  <2> DEFINE w == wholeReqs(k)
  <2>1. w \in Nat /\ Size * w <= k /\ k <= Window /\ k \in Nat
    BY DivBounds, WindowType
  <2> HIDE DEF w
  <2>2. Size * w <= Size * Rate
    BY <2>1, SizesAssumption DEF Window
  <2>3. w <= Rate
    BY <2>1, <2>2, SizesAssumption
  <2> QED
    BY <2>1, <2>3, SizesAssumption DEF w
<1>2. wholeReqs(Window) = Rate
  <2> DEFINE w == wholeReqs(Window)
  <2>1. w \in 0..Rate /\ Window < Size * w + Size
    BY <1>1, DivBounds, WindowType
  <2> HIDE DEF w
  <2>2. Size * Rate < Size * (w + 1)
    BY <2>1, SizesAssumption DEF Window
  <2>3. Rate < w + 1
    BY <2>1, <2>2, SizesAssumption
  <2> QED
    BY <2>1, <2>3, SizesAssumption DEF w
<1> QED
  BY <1>1, <1>2

\* An answer in RESPONSE, or nothing outstanding, is seen together with room in
\* REQUEST.
LEMMA ClientPollTurn ==
    ASSUME IInv, InTurn, pc'["client"] \in Starting \cup Looping, ClientPoll \/ ClientTryRead
    PROVE  InTurn'
<1> USE DEF Procs, Fifos
<1>0. /\ DOMAIN pc = Procs /\ DOMAIN canRead = Procs /\ DOMAIN canWrite = Procs
      /\ DOMAIN moved = Procs
      /\ bytes["REQUEST"] \in Nat /\ bytes["RESPONSE"] \in Nat
      /\ capacity["REQUEST"] \in Nat \ {0} /\ Window \in Nat \ {0}
      /\ outstandingBytes["client"] \in Nat
  BY Entries, Facts, WindowType DEF IInv, TypeOK
<1>1. /\ Kept("server") /\ ReqsKept
      /\ UNCHANGED <<bytes, quit, outstandingBytes>>
      /\ pc["client"] \in {"poll", "read"}
  BY ServerKept DEF ClientPoll, ClientTryRead, TryRead, window, stats, ReqsKept
<1>2. ServerInTurn'
  BY <1>0, <1>1, ServerAside DEF InTurn
<1>3. quit["client"] \/ Full \/ Empty
  BY <1>1 DEF InTurn, ClientInTurn
<1>4. CASE ClientPoll
  <2>1. /\ pc["client"] = "poll" /\ pc'["client"] = "read"
        /\ canRead'["client"] = (bytes["RESPONSE"] > 0)
        /\ canWrite'["client"] = (bytes["REQUEST"] < capacity["REQUEST"])
    BY <1>0, <1>4 DEF ClientPoll, Goto, Starting, Looping
  <2>2. Empty \/ bytes["RESPONSE"] > 0 => bytes["REQUEST"] = 0
    <3>1. CASE Empty
      <4>1. InRead("client") = 0 /\ InWrite("client") = 0
        BY <2>1 DEF InRead, InWrite
      <4> QED
        BY <3>1, <4>1, NothingOut DEF Empty
    <3>2. CASE bytes["RESPONSE"] > 0
      BY <3>2 DEF InTurn, AnswersLast
    <3> QED
      BY <3>1, <3>2
  <2>3. bytes["REQUEST"] = 0 => canWrite'["client"]
    <3>1. bytes["REQUEST"] = 0 => bytes["REQUEST"] < capacity["REQUEST"]
      BY <1>0
    <3> QED
      BY <2>1, <3>1, Zenon
  <2>4. Full' <=> Full
    BY <1>1 DEF Full, ReqsKept
  <2>5. Empty' <=> Empty
    BY <1>1 DEF Empty, ReqsKept
  <2>6. ClientInTurn'
    BY <1>1, <1>3, <2>1, <2>2, <2>3, <2>4, <2>5 DEF ClientInTurn
  <2>7. AnswersLast'
    BY <1>1, <2>1 DEF InTurn, AnswersLast, Kept
  <2> QED
    BY <1>2, <2>6, <2>7 DEF InTurn
<1>5. CASE ClientTryRead
  <2>1. /\ pc["client"] = "read" /\ moved'["client"] = 0
        /\ canRead' = canRead /\ canWrite' = canWrite
        /\ \/ /\ pc'["client"] = "reading" /\ canRead["client"] /\ ~quit["client"]
              /\ outstandingBytes["client"] > 0
           \/ pc'["client"] = "account"
    BY <1>0, <1>5 DEF ClientTryRead, TryRead, Goto, polled
  <2>2. ~quit["client"] =>
          /\ canRead["client"] => bytes["RESPONSE"] > 0
          /\ Empty \/ canRead["client"] => canWrite["client"]
    BY <2>1 DEF InTurn, ClientInTurn
  <2>3. outstandingBytes["client"] > 0 => ~Empty
    BY DEF Empty
  <2>4. Full' <=> Full
    BY <1>1 DEF Full, ReqsKept
  <2>5. Empty' <=> Empty
    BY <1>1 DEF Empty, ReqsKept
  <2>6. ClientInTurn'
    <3>1. CASE pc'["client"] = "reading"
      BY <1>1, <1>3, <2>1, <2>2, <2>3, <2>4, <3>1 DEF ClientInTurn
    <3>2. CASE pc'["client"] = "account"
      BY <1>1, <1>3, <2>1, <2>2, <2>4, <2>5, <3>2 DEF ClientInTurn
    <3> QED
      BY <2>1, <3>1, <3>2
  <2>7. AnswersLast'
    BY <1>1, <2>1 DEF InTurn, AnswersLast, Kept
  <2> QED
    BY <1>2, <2>6, <2>7 DEF InTurn
<1> QED
  BY <1>4, <1>5

\* The client's read_from_pipe ends with a whole window, by a signal, or because
\* the server is gone and has left nothing behind.
LEMMA ClientReadTurn ==
    ASSUME IInv, PipesAgree, TurnInv, InTurn, ClientRead
    PROVE  InTurn'
<1> USE DEF Procs, Fifos
<1>0. /\ pc \in [Procs -> Starting \cup Running \cup Ended]
      /\ bytes \in [Fifos -> Nat] /\ moved \in [Procs -> Nat]
      /\ Window \in Nat
  BY WindowType DEF IInv, TypeOK
<1>1. /\ Kept("server") /\ ReqsKept
      /\ UNCHANGED <<quit, outstandingBytes, canWrite>>
      /\ pc["client"] = "reading"
      /\ moved["client"] < outstandingBytes["client"]
  BY ServerKept DEF ClientRead, read_from_pipe, IInv, CallsBounded, stats, ReqsKept, polled
<1>2. /\ Full /\ canWrite["client"]
      /\ moved["client"] > 0 \/ bytes["RESPONSE"] > 0
  BY <1>1 DEF InTurn, ClientInTurn
<1>3. outstandingBytes["client"] = Window /\ read_from_pipe("client", "RESPONSE", Window)
  BY <1>2 DEF Full, ClientRead
<1>4. bytes["RESPONSE"] = 0 /\ "server" \notin fds["RESPONSE"] => pc["server"] \in Ended
  <2> SUFFICES ASSUME bytes["RESPONSE"] = 0, "server" \notin fds["RESPONSE"],
                      pc["server"] \in Starting
               PROVE  FALSE
    BY <1>0 DEF TurnInv, Held, WritesTo
  <2>1. InWrite("server") = 0 /\ total["server"] = 0
    BY DEF InWrite, Starting, TurnInv, Fresh
  <2>2. InRead("client") = moved["client"] /\ total["client"] \in Nat /\ moved["client"] \in Nat
    BY <1>1, Facts DEF InRead
  <2>3. 0 = (0 + 0) - (total["client"] + moved["client"])
    BY <2>1, <2>2 DEF PipesAgree
  <2> QED
    BY <1>2, <2>2, <2>3
<1>5. /\ bytes'["REQUEST"] = bytes["REQUEST"]
      /\ bytes'["RESPONSE"] \in Nat /\ bytes'["RESPONSE"] <= bytes["RESPONSE"]
      /\ \/ pc'["client"] = "reading" /\ moved'["client"] > 0
         \/ pc'["client"] = "account" /\ moved'["client"] = Window
         \/ /\ pc'["client"] = "account" /\ pc["server"] \in Ended
            /\ bytes'["RESPONSE"] = 0
  <2>1. CASE \E k \in 1..bytes["RESPONSE"] :
               /\ bytes' = [bytes EXCEPT !["RESPONSE"] = bytes["RESPONSE"] - k]
               /\ moved' = [moved EXCEPT !["client"] = moved["client"] + k]
               /\ \/ pc' = pc /\ moved["client"] + k < Window
                  \/ pc' = [pc EXCEPT !["client"] = "account"] /\ moved["client"] + k = Window
    BY <1>0, <1>1, <2>1
  <2>2. CASE /\ bytes["RESPONSE"] = 0 /\ "server" \notin fds["RESPONSE"]
             /\ pc' = [pc EXCEPT !["client"] = "account"]
             /\ UNCHANGED <<bytes, moved>>
    BY <1>0, <1>4, <2>2
  <2> QED
    BY <1>0, <1>1, <1>3, <2>1, <2>2, ReadProgress DEF Other
<1>6. ServerInTurn'
  BY <1>0, <1>1, <1>5, ServerAside DEF InTurn
<1>7. Full' /\ canWrite'["client"] /\ pc'["server"] = pc["server"]
  BY <1>1, <1>2 DEF Full, ReqsKept, Kept
<1>8. ClientInTurn'
  BY <1>5, <1>7 DEF ClientInTurn
<1>9. AnswersLast'
  BY <1>0, <1>5, <1>7 DEF InTurn, AnswersLast
<1> QED
  BY <1>6, <1>8, <1>9 DEF InTurn

\* The client fills the window only when it is empty or the server is gone.
LEMMA ClientWriteTurn ==
    ASSUME IInv, TurnInv, InTurn, ClientWrite
    PROVE  InTurn'
<1> USE DEF Procs, Fifos
<1>0. /\ pc \in [Procs -> Starting \cup Running \cup Ended] /\ DOMAIN quit = Procs
      /\ bytes \in [Fifos -> Nat] /\ moved \in [Procs -> Nat]
      /\ Window \in Nat /\ outstandingBytes["client"] \in Nat
  BY Entries, Facts, WindowType DEF IInv, TypeOK
<1>1. /\ Kept("server") /\ ReqsKept
      /\ UNCHANGED outstandingBytes
      /\ pc["client"] = "writing"
      /\ write_to_pipe("client", "REQUEST", Window - outstandingBytes["client"])
  BY ServerKept DEF ClientWrite, ClientFill, write_to_pipe, stats, ReqsKept
<1>2. /\ numReqsSent = numReqsRead + Rate
      /\ \/ outstandingBytes["client"] = 0 /\ outstandingReqs = 0
         \/ moved["client"] = 0 /\ pc["server"] \in Ended
  BY <1>1 DEF InTurn, ClientInTurn
<1>3. /\ bytes["RESPONSE"] = 0 /\ pc["server"] # "writing"
  BY <1>0, <1>1 DEF InTurn, AnswersLast
<1>4. /\ Window - outstandingBytes["client"] \in Nat
      /\ moved["client"] < Window - outstandingBytes["client"]
  BY <1>0, <1>1 DEF IInv, CallsBounded
<1>5. CASE "server" \in fds["REQUEST"]
  <2>1. PICK k \in Nat \ {0} :
          /\ bytes' = [bytes EXCEPT !["REQUEST"] = bytes["REQUEST"] + k]
          /\ moved' = [moved EXCEPT !["client"] = moved["client"] + k]
          /\ \/ pc' = pc
             \/ /\ pc' = [pc EXCEPT !["client"] = "wrote"]
                /\ moved["client"] + k = Window - outstandingBytes["client"]
          /\ quit' = quit
    BY <1>1, <1>4, <1>5, WriteProgress DEF Other
  <2>2. pc["server"] \notin Ended
    BY <1>5 DEF TurnInv, Held
  <2>3. /\ bytes'["RESPONSE"] = bytes["RESPONSE"]
        /\ bytes'["REQUEST"] \in Nat /\ bytes'["REQUEST"] >= bytes["REQUEST"]
        /\ \/ pc'["client"] = "writing"
           \/ pc'["client"] = "wrote" /\ moved'["client"] = Window
    BY <1>0, <1>1, <1>2, <2>1, <2>2
  <2>4. ServerInTurn'
    BY <1>1, <2>3, ServerAside DEF InTurn
  <2>5. ClientInTurn'
    BY <1>1, <1>2, <2>2, <2>3 DEF ClientInTurn, ReqsKept
  <2>6. AnswersLast'
    BY <1>1, <1>3, <2>3 DEF AnswersLast, Kept
  <2> QED
    BY <2>4, <2>5, <2>6 DEF InTurn
<1>6. CASE "server" \notin fds["REQUEST"]
  <2>1. /\ UNCHANGED <<bytes, moved>>
        /\ pc'["client"] = "wrote" /\ quit'["client"]
    BY <1>0, <1>1, <1>4, <1>6, WriteProgress DEF Other
  <2>2. ServerInTurn'
    BY <1>0, <1>1, <2>1, ServerAside DEF InTurn
  <2>3. ClientInTurn'
    BY <1>1, <1>2, <2>1 DEF ClientInTurn, ReqsKept, Kept
  <2>4. AnswersLast'
    BY <1>1, <1>3, <2>1 DEF AnswersLast, Kept
  <2> QED
    BY <2>2, <2>3, <2>4 DEF InTurn
<1> QED
  BY <1>5, <1>6

\* A window written is a window outstanding.
LEMMA ClientWroteTurn ==
    ASSUME IInv, InTurn, ClientWrote
    PROVE  InTurn'
<1> USE DEF Procs
<1>0. /\ DOMAIN pc = Procs /\ DOMAIN moved = Procs /\ DOMAIN outstandingBytes = Procs
      /\ bytes["REQUEST"] \in Nat /\ bytes["RESPONSE"] \in Nat
      /\ outstandingReqs \in Nat /\ outstandingBytes["client"] \in Nat
      /\ moved["client"] \in Nat /\ Window \in Nat /\ Rate \in Nat
  BY Facts, WindowType, SizesAssumption DEF IInv, TypeOK
<1>1. /\ Kept("server")
      /\ UNCHANGED <<bytes, quit, numReqsRead, numReqsSent>>
      /\ pc["client"] = "wrote" /\ pc'["client"] = "loop"
      /\ outstandingBytes'["client"] = outstandingBytes["client"] + moved["client"]
      /\ outstandingReqs' = outstandingReqs + wholeReqs(moved["client"])
  BY <1>0, ServerKept DEF ClientWrote, Goto
<1>2. quit["client"] \/ Full'
  <2> SUFFICES ASSUME ~quit["client"] PROVE Full'
    OBVIOUS
  <2>1. /\ outstandingBytes["client"] = 0 /\ outstandingReqs = 0
        /\ moved["client"] = Window /\ numReqsSent = numReqsRead + Rate
    BY <1>1 DEF InTurn, ClientInTurn
  <2> QED
    BY <1>0, <1>1, <2>1, WindowReqs DEF Full
<1>3. ServerInTurn'
  BY <1>0, <1>1, ServerAside DEF InTurn
<1>4. ClientInTurn'
  BY <1>1, <1>2 DEF ClientInTurn
<1>5. AnswersLast'
  BY <1>1 DEF InTurn, AnswersLast, Kept
<1> QED
  BY <1>3, <1>4, <1>5 DEF InTurn

\* What the client counts and stamps after a read, in its four cases
LEMMA ClientAccountEffect ==
    ASSUME IInv, ClientAccount
    PROVE  LET done == moved["client"]
               left == outstandingBytes["client"] - done
               reqs == outstandingReqs - wholeReqs(done)
               fill == IF reqs < Rate THEN Rate - reqs ELSE 0
           IN /\ Kept("server") /\ UNCHANGED <<bytes, quit>>
              /\ pc["client"] = "account"
              /\ outstandingBytes'["client"] = left
              /\ total'["client"] = total["client"] + done
              /\ outstandingReqs' = reqs
              /\ numReqsRead' = numReqsRead + wholeReqs(done)
              /\ numReqsSent' = numReqsSent + fill
              /\ times' = updateWriteTimes(
                            updateReadWriteTimes(times, numReqsRead, wholeReqs(done)),
                            numReqsSent, fill)
              /\ moved'["client"] = 0
              /\ \/ /\ pc'["client"] = "writing"
                    /\ canWrite["client"] /\ left < Window /\ ~quit["client"]
                 \/ /\ pc'["client"] = "loop"
                    /\ ~(canWrite["client"] /\ left < Window /\ ~quit["client"])
<1>0. /\ DOMAIN pc = Procs /\ DOMAIN moved = Procs /\ DOMAIN outstandingBytes = Procs
      /\ DOMAIN total = Procs
  BY DEF IInv, TypeOK
<1> QED
  BY <1>0, ServerKept DEF ClientAccount, Goto, Procs

\* Every request the client stamps it writes, or is told to quit.
LEMMA ClientAccountTurn ==
    ASSUME IInv, InTurn, ClientAccount
    PROVE  InTurn'
<1> DEFINE done == moved["client"]
           w == wholeReqs(done)
           left == outstandingBytes["client"] - done
           reqs == outstandingReqs - w
           fill == IF reqs < Rate THEN Rate - reqs ELSE 0
<1>0. /\ bytes["REQUEST"] \in Nat /\ bytes["RESPONSE"] \in Nat
      /\ outstandingReqs \in Nat /\ outstandingBytes["client"] \in Nat
      /\ numReqsRead \in Nat /\ numReqsSent \in Nat
      /\ done \in Nat /\ Window \in Nat \ {0} /\ Rate \in Nat \ {0}
  BY Facts, WindowType, SizesAssumption DEF IInv, TypeOK
<1>1. /\ Kept("server") /\ UNCHANGED <<bytes, quit>>
      /\ pc["client"] = "account"
      /\ outstandingBytes'["client"] = left
      /\ outstandingReqs' = reqs
      /\ numReqsRead' = numReqsRead + w
      /\ numReqsSent' = numReqsSent + fill
      /\ moved'["client"] = 0
      /\ \/ /\ pc'["client"] = "writing"
            /\ canWrite["client"] /\ left < Window /\ ~quit["client"]
         \/ /\ pc'["client"] = "loop"
            /\ ~(canWrite["client"] /\ left < Window /\ ~quit["client"])
  BY ClientAccountEffect
<1>2. done <= outstandingBytes["client"]
  BY <1>1 DEF IInv, CallsBounded
<1>3. ServerInTurn'
  BY <1>0, <1>1, ServerAside DEF InTurn
<1>4. InRead("client") = done /\ InWrite("client") = 0
  BY <1>1 DEF InRead, InWrite
<1>5. CASE quit["client"]
  <2>1. pc'["client"] = "loop"
    BY <1>1, <1>5
  <2>2. ClientInTurn'
    BY <1>1, <1>5, <2>1 DEF ClientInTurn
  <2>3. AnswersLast'
    BY <1>1, <2>1 DEF InTurn, AnswersLast, Kept
  <2> QED
    BY <1>3, <2>2, <2>3 DEF InTurn
<1>6. CASE ~quit["client"] /\ Empty /\ done = 0 /\ canWrite["client"]
  <2>1. outstandingBytes["client"] = 0 /\ outstandingReqs = 0 /\ numReqsSent = numReqsRead
    BY <1>6 DEF Empty
  <2>2. w = 0 /\ left = 0 /\ reqs = 0 /\ fill = Rate
    BY <1>0, <1>6, <2>1, Whole0
  <2>3. bytes["RESPONSE"] = 0 /\ pc["server"] # "writing"
    BY <1>4, <1>6, <2>1, NothingOut
  <2> HIDE DEF w, left, reqs, fill, done
  <2>4. /\ pc'["client"] = "writing" /\ numReqsSent' = numReqsRead' + Rate
        /\ outstandingBytes'["client"] = 0 /\ outstandingReqs' = 0
    BY <1>0, <1>1, <1>6, <2>1, <2>2
  <2>5. ClientInTurn'
    BY <2>4 DEF ClientInTurn
  <2>6. AnswersLast'
    BY <1>1, <2>3 DEF AnswersLast, Kept
  <2> QED
    BY <1>3, <2>5, <2>6 DEF InTurn
<1>7. CASE ~quit["client"] /\ Full /\ done = 0
  <2>1. /\ outstandingBytes["client"] = Window /\ outstandingReqs = Rate
        /\ numReqsSent = numReqsRead + Rate
    BY <1>7 DEF Full
  <2>2. w = 0 /\ left = Window /\ reqs = Rate /\ fill = 0
    BY <1>0, <1>7, <2>1, Whole0
  <2> HIDE DEF w, left, reqs, fill, done
  <2>3. /\ pc'["client"] = "loop"
        /\ outstandingBytes'["client"] = Window /\ outstandingReqs' = Rate
        /\ numReqsSent' = numReqsRead' + Rate
    BY <1>0, <1>1, <2>1, <2>2
  <2>4. ClientInTurn'
    BY <2>3 DEF ClientInTurn, Full
  <2>5. AnswersLast'
    BY <1>1, <2>3 DEF InTurn, AnswersLast, Kept
  <2> QED
    BY <1>3, <2>4, <2>5 DEF InTurn
<1>8. CASE ~quit["client"] /\ Full /\ done = Window /\ canWrite["client"]
  <2>1. /\ outstandingBytes["client"] = Window /\ outstandingReqs = Rate
        /\ numReqsSent = numReqsRead + Rate
    BY <1>8 DEF Full
  <2>2. w = Rate /\ left = 0 /\ reqs = 0 /\ fill = Rate
    BY <1>0, <1>8, <2>1, WindowReqs
  <2>3. bytes["RESPONSE"] = 0 /\ pc["server"] # "writing"
    BY <1>4, <1>8, <2>1, NothingOut
  <2> HIDE DEF w, left, reqs, fill, done
  <2>4. /\ pc'["client"] = "writing" /\ numReqsSent' = numReqsRead' + Rate
        /\ outstandingBytes'["client"] = 0 /\ outstandingReqs' = 0
    BY <1>0, <1>1, <1>8, <2>1, <2>2
  <2>5. ClientInTurn'
    BY <2>4 DEF ClientInTurn
  <2>6. AnswersLast'
    BY <1>1, <2>3 DEF AnswersLast, Kept
  <2> QED
    BY <1>3, <2>5, <2>6 DEF InTurn
<1>9. CASE /\ ~quit["client"] /\ Full /\ done # 0 /\ canWrite["client"]
           /\ pc["server"] \in Ended /\ bytes["RESPONSE"] = 0
  <2>1. /\ outstandingBytes["client"] = Window /\ outstandingReqs = Rate
        /\ numReqsSent = numReqsRead + Rate
    BY <1>9 DEF Full
  <2>2. w \in 0..Rate
    BY <1>0, <1>2, <2>1, WindowReqs
  <2>3. left < Window /\ fill = w
    <3> HIDE DEF w
    <3> QED
      BY <1>0, <1>2, <1>9, <2>1, <2>2
  <2>4. pc["server"] # "writing"
    BY <1>9 DEF Ended
  <2> HIDE DEF w, left, reqs, fill, done
  <2>5. /\ pc'["client"] = "writing" /\ numReqsSent' = numReqsRead' + Rate
    BY <1>0, <1>1, <1>9, <2>1, <2>2, <2>3
  <2>6. ClientInTurn'
    BY <1>1, <1>9, <2>5 DEF ClientInTurn, Kept
  <2>7. AnswersLast'
    BY <1>1, <1>9, <2>4 DEF AnswersLast, Kept
  <2> QED
    BY <1>3, <2>6, <2>7 DEF InTurn
<1> QED
  BY <1>1, <1>5, <1>6, <1>7, <1>8, <1>9 DEF InTurn, ClientInTurn

\* Every step keeps the turns.
LEMMA TurnStep ==
    ASSUME IInv, PipesAgree, TurnInv, [Next]_vars
    PROVE  TurnInv'
<1>1. (\A p \in Procs : Held(p)) /\ Fresh
  BY DEF TurnInv
<1>2. (\A p \in Procs : Held(p)') /\ Fresh'
  BY <1>1, HeldStep, FreshStep
<1> SUFFICES ASSUME pc'["client"] \in Starting \cup Looping PROVE InTurn'
  BY <1>2 DEF TurnInv
<1>3. pc["client"] \in Starting \cup Looping
  <2>0. DOMAIN pc = Procs
    BY Entries
  <2>1. ASSUME NEW p \in Procs, Open(p) PROVE pc["client"] \in Starting \cup Looping
    BY <2>1, OpenKept DEF Procs
  <2>2. ASSUME NEW p \in Procs,
               \/ SetPipeSize(p) \/ Loop(p) \/ CloseRead(p) \/ CloseWrite(p)
               \/ Killed(p) \/ quit_signal_handler(p) \/ SleepInterrupted(p)
        PROVE  pc["client"] \in Starting \cup Looping
    BY <2>0, <2>2 DEF SetPipeSize, Loop, LoopExit, CloseRead, CloseWrite, Killed, Goto,
       quit_signal_handler, SleepInterrupted, Starting, Looping, Procs
  <2>3. CASE \/ ServerPoll \/ ServerTryRead \/ ServerRead \/ ServerAccount
             \/ ServerWrite \/ ServerWrote
    BY <2>3, ClientKept DEF Kept
  <2>4. CASE \/ ClientPoll \/ ClientTryRead \/ ClientRead \/ ClientAccount
             \/ ClientWrite \/ ClientWrote \/ ClientEvaluate
    BY <2>0, <2>4 DEF ClientPoll, ClientTryRead, ClientRead, ClientAccount, ClientWrite,
       ClientWrote, ClientEvaluate, TryRead, read_from_pipe, write_to_pipe, Goto,
       Starting, Looping, Procs
  <2>5. CASE UNCHANGED vars
    BY <2>5 DEF vars
  <2> QED
    BY <2>1, <2>2, <2>3, <2>4, <2>5 DEF Next, Client, Server, Signal, Common, Procs
<1>4. InTurn
  BY <1>3 DEF TurnInv
<1>5. CASE ClientEvaluate
  <2>1. DOMAIN pc = Procs
    BY Entries
  <2> QED
    BY <1>5, <2>1 DEF ClientEvaluate, Goto, Starting, Looping, Procs
<1>6. CASE UNCHANGED vars
  BY <1>4, <1>6 DEF vars, InTurn, ServerInTurn, AnswersLast, ClientInTurn, Full, Empty
<1> QED
  BY <1>3, <1>4, <1>5, <1>6, QuietTurn, SignalTurn, ServerPollTurn, ServerReadTurn,
     ServerAccountTurn, ServerWriteTurn, ClientPollTurn, ClientReadTurn, ClientAccountTurn,
     ClientWriteTurn, ClientWroteTurn DEF Next, Client, Server, Signal, Common, Procs

\* Before anything happens nothing is out of turn.
LEMMA InitTurns ==
    ASSUME Init
    PROVE  IInv /\ PipesAgree /\ TurnInv
<1>1. IInv
  BY InitIInv
<1>2. PipesAgree
  BY DEF Init, PipesAgree, InRead, InWrite, Procs, Fifos
<1>3. \A p \in Procs : Held(p)
  BY DEF Init, Held, Starting, Running, Ended, Procs, Fifos
<1>4. Fresh
  BY DEF Init, Fresh, Procs
<1>5. InTurn
  BY DEF Init, InTurn, ServerInTurn, AnswersLast, ClientInTurn, Procs, Fifos
<1> QED
  BY <1>1, <1>2, <1>3, <1>4, <1>5 DEF TurnInv

\* The client waits for none or for all of a window, so whatever cuts its calls
\* short, the requests it has stamped are the ones it has written.
LEMMA Turns == Spec => [](IInv /\ PipesAgree /\ TurnInv)
<1>1. Init => IInv /\ PipesAgree /\ TurnInv
  BY InitTurns
<1>2. IInv /\ PipesAgree /\ TurnInv /\ [Next]_vars => IInv' /\ PipesAgree' /\ TurnInv'
  BY NextIInv, NextFlow, TurnStep
<1> QED
  BY <1>1, <1>2, PTL DEF Spec

\* As long as the client is not told to quit, at the top of its loop exactly
\* the requests that are outstanding have a write time, although
\* updateWriteTimes is called before write_to_pipe is known to send anything.
THEOREM RequestsAreTracked == Spec => []RequestsTracked
<1>1. ASSUME IInv, TurnInv PROVE RequestsTracked
  <2> SUFFICES ASSUME pc["client"] \in {"loop", "poll"}, ~quit["client"]
               PROVE  /\ outstandingBytes["client"] = Size * outstandingReqs
                      /\ numReqsSent = numReqsRead + outstandingReqs
    BY DEF RequestsTracked
  <2>1. Full \/ Empty
    BY <1>1 DEF TurnInv, InTurn, ClientInTurn, Looping
  <2>2. numReqsRead \in Nat
    BY <1>1 DEF IInv, TypeOK
  <2> QED
    BY <2>1, <2>2, SizesAssumption DEF Full, Empty, Window
<1> QED
  BY <1>1, Turns, PTL
-----------------------------------------------------------------------------
\* The pass that takes q whole answers and stamps f requests more.
LEMMA StampStep ==
    ASSUME NEW r \in Nat, NEW s \in Nat, NEW q \in Nat, NEW f \in Nat, r + q <= s,
           times = [i \in 0..(Count - 1) |->
                      IF i < r THEN "rtt" ELSE IF i < s THEN "sent" ELSE "unset"]
    PROVE  updateWriteTimes(updateReadWriteTimes(times, r, q), s, f)
             = [i \in 0..(Count - 1) |->
                  IF i < r + q THEN "rtt" ELSE IF i < s + f THEN "sent" ELSE "unset"]
<1> DEFINE m == updateReadWriteTimes(times, r, q)
           w == updateWriteTimes(m, s, f)
<1>1. m = [i \in 0..(Count - 1) |->
             IF i < r + q THEN "rtt" ELSE IF i < s THEN "sent" ELSE "unset"]
  <2>1. DOMAIN times = 0..(Count - 1)
    OBVIOUS
  <2>2. m = [i \in 0..(Count - 1) |->
               IF r <= i /\ i < r + q THEN IF times[i] = "sent" THEN "rtt" ELSE "bad"
                                      ELSE times[i]]
    BY <2>1 DEF updateReadWriteTimes
  <2>3. ASSUME NEW i \in 0..(Count - 1)
        PROVE  (IF r <= i /\ i < r + q THEN IF times[i] = "sent" THEN "rtt" ELSE "bad"
                                      ELSE times[i])
                 = (IF i < r + q THEN "rtt" ELSE IF i < s THEN "sent" ELSE "unset")
    <3>1. times[i] = IF i < r THEN "rtt" ELSE IF i < s THEN "sent" ELSE "unset"
      OBVIOUS
    <3> QED
      BY <3>1, SizesAssumption
  <2> QED
    BY <2>2, <2>3
<1>2. w = [i \in 0..(Count - 1) |->
             IF i < r + q THEN "rtt" ELSE IF i < s + f THEN "sent" ELSE "unset"]
  <2> HIDE DEF m
  <2>1. DOMAIN m = 0..(Count - 1)
    BY <1>1
  <2>2. w = [i \in 0..(Count - 1) |-> IF s <= i /\ i < s + f THEN "sent" ELSE m[i]]
    BY <2>1 DEF updateWriteTimes
  <2>3. ASSUME NEW i \in 0..(Count - 1)
        PROVE  (IF s <= i /\ i < s + f THEN "sent" ELSE m[i])
                 = (IF i < r + q THEN "rtt" ELSE IF i < s + f THEN "sent" ELSE "unset")
    <3>1. m[i] = IF i < r + q THEN "rtt" ELSE IF i < s THEN "sent" ELSE "unset"
      BY <1>1
    <3> QED
      BY <3>1, SizesAssumption
  <2> QED
    BY <2>2, <2>3
<1> QED
  BY <1>2

\* A read never takes more whole answers than there are requests stamped.
LEMMA AccountStamps ==
    ASSUME IInv, InTurn, Stamping, ClientAccount
    PROVE  Stamping'
<1> DEFINE n == moved["client"]   q == wholeReqs(n)   r == numReqsRead   s == numReqsSent
           reqs == outstandingReqs - q
           f == IF reqs < Rate THEN Rate - reqs ELSE 0
           t == total["client"]
<1>1. /\ n \in Nat /\ r \in Nat /\ s \in Nat /\ t \in Nat /\ outstandingReqs \in Nat
      /\ r <= s /\ Size * r <= t /\ Rate \in Nat /\ Size \in Nat /\ Window \in Nat
  BY Facts, SizesAssumption, WindowType DEF IInv, TypeOK, Stamping
<1>2. /\ pc["client"] = "account"
      /\ total'["client"] = t + n
      /\ numReqsRead' = r + q
      /\ numReqsSent' = s + f
      /\ times' = updateWriteTimes(updateReadWriteTimes(times, r, q), s, f)
  BY ClientAccountEffect
<1>3. q \in Nat /\ Size * q <= n
  BY <1>1, DivBounds
<1>4. f \in Nat
  <2> HIDE DEF q
  <2> QED
    BY <1>1, <1>3
<1>5. r + q <= s
  <2>1. CASE n = 0
    <3>1. q = 0
      BY <2>1, Whole0
    <3> HIDE DEF q
    <3> QED
      BY <1>1, <3>1
  <2>2. CASE Full
    <3>1. n <= Window /\ s = r + Rate
      BY <1>2, <2>2 DEF Full, IInv, CallsBounded
    <3>2. q <= Rate
      BY <1>1, <3>1, WindowReqs
    <3> HIDE DEF q, n
    <3> QED
      BY <1>1, <1>3, <3>1, <3>2
  <2> QED
    BY <1>2, <2>1, <2>2 DEF InTurn, ClientInTurn
<1>6. times' = [i \in 0..(Count - 1) |-> Stamp(i)']
  <2>1. times = [i \in 0..(Count - 1) |->
                   IF i < r THEN "rtt" ELSE IF i < s THEN "sent" ELSE "unset"]
    BY DEF Stamping, Stamp
  <2>2. times' = [i \in 0..(Count - 1) |->
                   IF i < r + q THEN "rtt" ELSE IF i < s + f THEN "sent" ELSE "unset"]
    <3> HIDE DEF q, f
    <3> QED
      BY <1>1, <1>2, <1>3, <1>4, <1>5, <2>1, StampStep
  <2> QED
    BY <1>2, <2>2 DEF Stamp
<1> HIDE DEF n, q, f, t
<1>7. Size * (r + q) <= t + n /\ r + q <= s + f
  <2>1. Size * (r + q) = Size * r + Size * q /\ Size * r \in Nat /\ Size * q \in Nat
    BY <1>1, <1>3
  <2> QED
    BY <1>1, <1>3, <1>4, <1>5, <2>1
<1> QED
  BY <1>2, <1>6, <1>7 DEF Stamping

\* Nothing else touches times[] or what it is compared with.
LEMMA StampsKept ==
    ASSUME IInv, Stamping, [Next]_vars, ~ClientAccount
    PROVE  Stamping'
<1> SUFFICES UNCHANGED <<numReqsRead, numReqsSent, times>> /\ total'["client"] = total["client"]
  <2>1. \A i \in 0..(Count - 1) :
          UNCHANGED <<numReqsRead, numReqsSent>> => Stamp(i)' = Stamp(i)
    BY DEF Stamp
  <2> QED
    BY <2>1 DEF Stamping
<1>1. CASE \E p \in Procs : \/ Common(p) \/ Killed(p)
                            \/ quit_signal_handler(p) \/ SleepInterrupted(p)
  BY <1>1 DEF Common, Open, SetPipeSize, Loop, CloseRead, CloseWrite, Killed,
     quit_signal_handler, SleepInterrupted, window, stats
<1>2. CASE ClientPoll \/ ClientTryRead \/ ClientRead \/ ClientWrite \/ ClientWrote \/ ClientEvaluate
  BY <1>2 DEF ClientPoll, ClientTryRead, ClientRead, ClientWrite, ClientWrote, ClientEvaluate,
     TryRead, read_from_pipe, write_to_pipe, window, stats
<1>3. CASE \/ ServerPoll \/ ServerTryRead \/ ServerRead \/ ServerAccount
           \/ ServerWrite \/ ServerWrote
  BY <1>3, ClientKept DEF Kept, ReqsKept
<1>4. CASE UNCHANGED vars
  BY <1>4 DEF vars
<1> QED
  BY <1>1, <1>2, <1>3, <1>4 DEF Next, Client, Server, Signal, Procs

\* Every time the client reports is the time from the write of a request to
\* the arrival of its whole answer, also when a signal or a server that leaves
\* cuts a read or a write short inside a request.
THEOREM StampsAreExact == Spec => []StampsExact
<1>1. Init => Stamping
  <2> SUFFICES ASSUME Init PROVE Stamping
    OBVIOUS
  <2>1. /\ numReqsRead = 0 /\ numReqsSent = 0 /\ total["client"] = 0
        /\ times = [i \in 0..(Count - 1) |-> "unset"]
    BY DEF Init, Procs
  <2>2. \A i \in 0..(Count - 1) : Stamp(i) = "unset"
    BY <2>1, SizesAssumption DEF Stamp
  <2> QED
    BY <2>1, <2>2, SizesAssumption DEF Stamping
<1>2. IInv /\ TurnInv /\ Stamping /\ [Next]_vars => Stamping'
  <2>1. ASSUME IInv, TurnInv, ClientAccount PROVE InTurn
    BY <2>1 DEF TurnInv, ClientAccount, Looping
  <2> QED
    BY <2>1, AccountStamps, StampsKept
<1>3. IInv /\ Stamping => StampsExact
  <2> SUFFICES ASSUME IInv, Stamping PROVE StampsExact
    OBVIOUS
  <2>0. numReqsRead \in Nat /\ total["client"] \in Nat
    BY Facts DEF IInv, TypeOK
  <2>1. ASSUME NEW i \in 0..(ReportedCount - 1) PROVE times[i] = "rtt"
    <3>1. i \in 0..(Count - 1) /\ i < numReqsRead
      BY <2>0, SizesAssumption DEF ReportedCount, Least
    <3> QED
      BY <3>1 DEF Stamping, Stamp
  <2>2. Size * ReportedCount <= total["client"]
    <3>1. /\ ReportedCount \in Nat /\ ReportedCount <= numReqsRead
          /\ Size * numReqsRead <= total["client"]
      BY <2>0, SizesAssumption DEF Stamping, ReportedCount, Least
    <3> HIDE DEF ReportedCount
    <3>2. Size * ReportedCount <= Size * numReqsRead
      BY <2>0, <3>1, SizesAssumption
    <3> QED
      BY <2>0, <3>1, <3>2, SizesAssumption
  <2> QED
    BY <2>1, <2>2 DEF StampsExact
<1> QED
  BY <1>1, <1>2, <1>3, Turns, PTL DEF Spec
-----------------------------------------------------------------------------
(***************************************************************************)
(* Runs that nobody interrupts: client and server exchange whole windows   *)
(* until both have counted count requests.                                 *)
(***************************************************************************)

mcvars == <<vars, signalled>>

Closing == {"evaluate", "closeRead", "closeWrite", "done", "aborted"}

\* Counted, or in a call that has moved all it was asked to move.
ReadByClient == total["client"] + (IF pc["client"] = "account" THEN moved["client"] ELSE 0)
SentByServer == total["server"] + (IF pc["server"] = "wrote" THEN moved["server"] ELSE 0)

\* The client passes the open of REQUEST only when the server has come to it,
\* and until the server has set its size the pipe holds what the client's
\* smaller size admits.
Openings ==
    /\ pc["client"] \in Running \/ (pc["client"] = "size" /\ opened["client"] = 1) =>
          pc["server"] \notin {"open", "wait"} /\ (pc["server"] = "size" => opened["server"] = 1)
    /\ pc["server"] \in Starting =>
          /\ bytes["REQUEST"] <= ClientPipeSize
          /\ pc["client"] \in Running => capacity["REQUEST"] = ClientPipeSize

\* Only the client is ever told to quit, by the SIGPIPE of a write to the
\* server that has left, and then it has all its answers.
Ending ==
    /\ \A p \in Procs : pc[p] # "dead"
    /\ ~quit["server"]
    /\ quit["client"] =>
          /\ pc["server"] \in {"closeWrite"} \cup Ended
          /\ pc["client"] \in {"wrote", "loop"} \cup Closing
          /\ total["client"] >= MaxBytes

\* A pass of a loop begins before maxBytes are counted, and the loop ends after.
Passes ==
    /\ pc["client"] \in {"poll", "read", "reading", "account"} => total["client"] < MaxBytes
    /\ pc["server"] \in {"poll", "read", "reading", "account", "writing", "wrote"} =>
          total["server"] < MaxBytes
    /\ \A p \in Procs : pc[p] \in Closing => total[p] >= MaxBytes
    /\ total["server"] < MaxBytes + Window

\* The client's calls move a whole window or nothing.
ClientWindows ==
    /\ quit["client"] \/ outstandingBytes["client"] \in {0, Window}
    /\ pc["client"] = "account" => moved["client"] \in {0, outstandingBytes["client"]}
    /\ pc["client"] \in {"writing", "wrote"} => outstandingBytes["client"] = 0
    /\ pc["client"] = "wrote" => quit["client"] \/ moved["client"] = Window

\* So do the server's, which reads only what it has room for.
ServerWindows ==
    /\ outstandingBytes["server"] \in {0, Window}
    /\ pc["server"] = "read" /\ canRead["server"] => bytes["REQUEST"] > 0
    /\ pc["server"] = "reading" => outstandingBytes["server"] = 0
    /\ pc["server"] = "account" =>
          moved["server"] = 0 \/ (moved["server"] = Window /\ outstandingBytes["server"] = 0)
    /\ pc["server"] \in {"writing", "wrote"} => outstandingBytes["server"] = Window
    /\ pc["server"] = "wrote" => moved["server"] = Window

\* The server is at most one window of answers ahead of the client.
Exchange == SentByServer - ReadByClient \in {0, Window}

\* All the client has read is whole answers, and counted.
Answered == total["client"] = Size * numReqsRead

Undisturbed ==
    Ending /\ Passes /\ ClientWindows /\ ServerWindows /\ Exchange /\ Answered

\* maxBytes is a number of bytes.
LEMMA MaxBytesType == MaxBytes \in Nat
BY SizesAssumption DEF MaxBytes

\* Request sizes cancel.
LEMMA Cancel ==
    ASSUME NEW a \in Nat, NEW b \in Nat, Size * a <= Size * b
    PROVE  a <= b
BY SizesAssumption

\* The counts of FlowControl: each is at least the next, and the differences
\* are what the pipes and the server hold.
Sent == total["client"] + outstandingBytes["client"] + InWrite("client")
Accepted == total["server"] + outstandingBytes["server"] + InRead("server")
Echoed == total["server"] + InWrite("server")
Received == total["client"] + InRead("client")

\* What they say about one another
LEMMA Books ==
    ASSUME IInv, PipesAgree
    PROVE  /\ Sent \in Nat /\ Accepted \in Nat /\ Echoed \in Nat /\ Received \in Nat
           /\ bytes["REQUEST"] = Sent - Accepted /\ bytes["RESPONSE"] = Echoed - Received
           /\ Received <= Echoed /\ Echoed <= Accepted /\ Accepted <= Sent
           /\ Sent <= total["client"] + Window
<1>1. /\ InRead("client") \in Nat /\ InRead("server") \in Nat
      /\ InWrite("client") \in Nat /\ InWrite("server") \in Nat
  BY Facts DEF InRead, InWrite
<1>2. InWrite("server") <= outstandingBytes["server"]
  BY Facts DEF IInv, CallsBounded, InWrite
<1>3. outstandingBytes["client"] + InWrite("client") <= Window
  BY DEF IInv, WindowConserved
<1>4. bytes["REQUEST"] = Sent - Accepted /\ bytes["RESPONSE"] = Echoed - Received
  BY DEF PipesAgree, Sent, Accepted, Echoed, Received
<1>5. Sent \in Nat /\ Accepted \in Nat /\ Echoed \in Nat /\ Received \in Nat
  BY <1>1, Facts DEF Sent, Accepted, Echoed, Received
<1>6. Echoed <= Accepted /\ Sent <= total["client"] + Window
  BY <1>1, <1>2, <1>3, Facts, WindowType DEF Sent, Accepted, Echoed
<1>7. Received <= Echoed /\ Accepted <= Sent
  BY <1>4, <1>5, Facts
<1> QED
  BY <1>4, <1>5, <1>6, <1>7

\* A client that starts has sent nothing.
LEMMA NothingYet ==
    ASSUME IInv, TurnInv, pc["client"] \in Starting
    PROVE  /\ bytes["REQUEST"] = 0 /\ bytes["RESPONSE"] = 0
           /\ outstandingBytes["server"] + InRead("server") = InWrite("server")
           /\ pc["server"] # "writing"
           /\ pc["server"] # "reading"
<1>1. InWrite("client") = 0 /\ InRead("client") = 0 /\ outstandingBytes["client"] = 0
  BY DEF TurnInv, Fresh, Starting, InRead, InWrite, Procs
<1>2. /\ bytes["REQUEST"] = 0 /\ bytes["RESPONSE"] = 0
      /\ outstandingBytes["server"] + InRead("server") = InWrite("server")
      /\ pc["server"] # "writing"
  BY <1>1, NothingOut
<1>3. pc["server"] # "reading"
  <2> SUFFICES ASSUME pc["server"] = "reading" PROVE FALSE
    OBVIOUS
  <2>1. outstandingBytes["server"] = 0 /\ (moved["server"] > 0 \/ bytes["REQUEST"] > 0)
    BY DEF TurnInv, InTurn, ServerInTurn
  <2>2. InRead("server") = moved["server"] /\ InWrite("server") = 0
    BY DEF InRead, InWrite
  <2> QED
    BY <1>2, <2>1, <2>2, Facts
<1> QED
  BY <1>2, <1>3

\* The server in a pass has a client to talk to.
LEMMA ClientStays ==
    ASSUME IInv, Undisturbed, pc["server"] \in {"reading", "writing"},
           pc["client"] \in Closing
    PROVE  FALSE
<1>1. total["client"] >= MaxBytes /\ total["server"] < MaxBytes
  BY DEF Undisturbed, Passes, Procs
<1>2. ReadByClient = total["client"] /\ SentByServer = total["server"]
  BY Facts DEF ReadByClient, SentByServer, Closing
<1> QED
  BY <1>1, <1>2, Facts, MaxBytesType, WindowType DEF Undisturbed, Exchange

\* so its read() and its write() meet an open pipe.
LEMMA ServerHasPeer ==
    ASSUME IInv, TurnInv, Undisturbed
    PROVE  /\ pc["server"] = "reading" => "client" \in fds["REQUEST"]
           /\ pc["server"] = "writing" => "client" \in fds["RESPONSE"]
<1> SUFFICES ASSUME pc["server"] \in {"reading", "writing"}
             PROVE  "client" \in fds["REQUEST"] /\ "client" \in fds["RESPONSE"]
  OBVIOUS
<1>1. pc["client"] \notin Starting
  BY NothingYet
<1>2. pc["client"] \notin Closing /\ pc["client"] # "dead"
  BY ClientStays DEF Undisturbed, Ending, Procs
<1>3. pc["client"] \in Running \ {"closeWrite"}
  BY <1>1, <1>2, Entries DEF Running, Ended, Closing, Procs
<1> QED
  BY <1>3 DEF TurnInv, Held, WritesTo, ReadsFrom, Procs

\* A window in the server's hands leaves none in REQUEST.
LEMMA OneWindow ==
    ASSUME IInv, Undisturbed, pc["server"] = "read", bytes["REQUEST"] > 0
    PROVE  outstandingBytes["server"] = 0
<1>1. InRead("server") = 0 /\ InWrite("server") = 0
  BY DEF InRead, InWrite
<1>2. outstandingBytes["server"] = 0 \/ outstandingBytes["server"] = Window
  BY DEF Undisturbed, ServerWindows
<1>3. outstandingBytes["server"] = Window => bytes["REQUEST"] = 0
  BY <1>1, AllAtServer, WindowType
<1> QED
  BY <1>2, <1>3

\* The server echoes a window only after the client has counted the last one.
LEMMA EchoInTurn ==
    ASSUME IInv, PipesAgree, Undisturbed, pc["server"] = "writing"
    PROVE  SentByServer = ReadByClient
<1>1. SentByServer = total["server"] /\ Accepted = total["server"] + Window
  BY Facts, WindowType DEF Accepted, SentByServer, InRead, Undisturbed, ServerWindows
<1>2. Sent <= ReadByClient + Window /\ ReadByClient \in Nat
  BY Books, Facts, WindowType DEF ReadByClient
<1> QED
  BY <1>1, <1>2, Books, Facts, WindowType DEF Undisturbed, Exchange

\* A client that reads has an answer to wait for, even if the server has left.
LEMMA AnswersLeft ==
    ASSUME IInv, PipesAgree, Undisturbed, pc["client"] = "reading", pc["server"] \in Closing
    PROVE  bytes["RESPONSE"] > 0
<1>1. total["server"] >= MaxBytes /\ total["client"] < MaxBytes
  BY DEF Undisturbed, Passes, Procs
<1>2. /\ ReadByClient = total["client"] /\ SentByServer = total["server"]
      /\ Echoed = total["server"] /\ Received = total["client"] + moved["client"]
  BY Facts DEF ReadByClient, SentByServer, Echoed, Received, InRead, InWrite, Closing
<1>3. moved["client"] < Window
  BY Facts, WindowType DEF IInv, CallsBounded, Undisturbed, ClientWindows, Ending, Closing
<1>4. total["server"] = total["client"] + Window
  BY <1>1, <1>2, Facts, MaxBytesType, WindowType DEF Undisturbed, Exchange
<1> QED
  BY <1>2, <1>3, <1>4, Books, Facts, WindowType

\* A client that writes to a server that has left has all its answers.
LEMMA AllAnswered ==
    ASSUME IInv, PipesAgree, Undisturbed, pc["client"] = "writing", pc["server"] \in Closing
    PROVE  total["client"] >= MaxBytes
<1>1. total["server"] >= MaxBytes
  BY DEF Undisturbed, Passes, Procs
<1>2. /\ ReadByClient = total["client"] /\ SentByServer = total["server"]
      /\ Echoed = total["server"]
  BY Facts DEF ReadByClient, SentByServer, Echoed, InWrite, Closing
<1>3. /\ outstandingBytes["client"] = 0 /\ moved["client"] < Window
      /\ InWrite("client") = moved["client"]
  BY Facts, WindowType DEF IInv, CallsBounded, Undisturbed, ClientWindows, InWrite
<1>4. Sent < total["client"] + Window
  BY <1>3, Facts, WindowType DEF Sent
<1> QED
  BY <1>1, <1>2, <1>4, Books, Facts, MaxBytesType, WindowType DEF Undisturbed, Exchange

\* The client's calls meet the server, or one that has left after its last answer.
LEMMA ClientHasPeer ==
    ASSUME IInv, PipesAgree, TurnInv, Openings, Undisturbed
    PROVE  /\ pc["client"] = "reading" /\ "server" \notin fds["RESPONSE"] =>
                 bytes["RESPONSE"] > 0
           /\ pc["client"] = "writing" /\ "server" \notin fds["REQUEST"] =>
                 /\ pc["server"] \in {"closeWrite"} \cup Ended
                 /\ total["client"] >= MaxBytes
<1>1. pc["client"] \in {"reading", "writing"} /\ pc["server"] \in Starting =>
        "server" \in fds["RESPONSE"] /\ "server" \in fds["REQUEST"]
  <2> SUFFICES ASSUME pc["client"] \in {"reading", "writing"}, pc["server"] \in Starting
               PROVE  "server" \in fds["RESPONSE"] /\ "server" \in fds["REQUEST"]
    OBVIOUS
  <2>1. pc["server"] = "size" /\ opened["server"] = 1
    BY DEF Openings, Running, Starting
  <2> QED
    BY <2>1 DEF TurnInv, Held, Starting, Procs
<1>2. pc["server"] \in Running /\ "server" \notin fds["RESPONSE"] => FALSE
  BY DEF TurnInv, Held, WritesTo, Procs
<1>3. pc["server"] \in Running /\ "server" \notin fds["REQUEST"] => pc["server"] = "closeWrite"
  BY DEF TurnInv, Held, ReadsFrom, Procs
<1>4. pc["server"] \in {"closeWrite"} \cup Ended => pc["server"] \in Closing
  BY DEF Undisturbed, Ending, Ended, Closing, Procs
<1>5. pc["server"] \in Starting \cup Running \cup Ended
  BY Entries DEF Procs
<1> QED
  BY <1>1, <1>2, <1>3, <1>4, <1>5, AnswersLeft, AllAnswered

\* A client that has read a whole window was one window behind.
LEMMA AnswersInTurn ==
    ASSUME IInv, PipesAgree, Undisturbed, pc["client"] = "reading",
           NEW k \in 1..bytes["RESPONSE"], moved["client"] + k = Window
    PROVE  SentByServer = ReadByClient + Window
<1>1. ReadByClient = total["client"] /\ Received = total["client"] + moved["client"]
  BY Facts DEF ReadByClient, Received, InRead
<1>2. Echoed >= total["client"] + Window
  BY <1>1, Books, Facts, WindowType
<1>3. SentByServer \in Nat /\ (Echoed = SentByServer \/ Echoed < SentByServer + Window)
  <2>1. CASE pc["server"] = "writing"
    <3>1. Echoed = total["server"] + moved["server"] /\ SentByServer = total["server"]
      BY <2>1, Facts DEF Echoed, SentByServer, InWrite
    <3>2. moved["server"] < Window
      BY <2>1 DEF IInv, CallsBounded, Undisturbed, ServerWindows
    <3> QED
      BY <3>1, <3>2, Facts, WindowType
  <2>2. CASE pc["server"] # "writing"
    BY <2>2, Facts DEF Echoed, SentByServer, InWrite
  <2> QED
    BY <2>1, <2>2
<1> QED
  BY <1>1, <1>2, <1>3, Books, Facts, WindowType DEF Undisturbed, Exchange
-----------------------------------------------------------------------------
\* Process p goes to l and the other one stays.
Steps(p, l) == pc'[p] = l /\ \A q \in Procs : q # p => pc'[q] = pc[q]

\* The steps that leave the counters and the pipes alone.
UndisturbedLabels ==
    /\ UNCHANGED <<bytes, outstandingBytes, total, numReqsRead, quit>>
    /\ \/ /\ \A q \in Procs : \/ pc'[q] = pc[q]
                              \/ pc[q] \in Starting /\ pc'[q] \in Starting \cup {"loop"}
          /\ UNCHANGED <<moved, canRead>>
       \/ /\ \E p \in Procs : \/ /\ pc[p] = "loop" /\ Steps(p, LoopExit(p))
                                 /\ total[p] >= MaxBytes \/ quit[p]
                              \/ /\ pc[p] = "loop" /\ Steps(p, "poll")
                                 /\ total[p] < MaxBytes /\ ~quit[p]
                              \/ pc[p] = "evaluate" /\ Steps(p, "closeRead")
                              \/ pc[p] = "evaluate" /\ Steps(p, "aborted")
                              \/ pc[p] = "closeRead" /\ Steps(p, "closeWrite")
                              \/ pc[p] = "closeWrite" /\ Steps(p, "done")
          /\ UNCHANGED <<moved, canRead>>
       \/ /\ pc["client"] = "poll" /\ Steps("client", "read")
          /\ canRead'["server"] = canRead["server"]
          /\ UNCHANGED moved
       \/ /\ pc["server"] = "poll" /\ Steps("server", "read")
          /\ canRead'["server"] => bytes["REQUEST"] > 0
          /\ UNCHANGED moved
       \/ /\ pc["client"] = "read" /\ \E l \in {"reading", "account"} : Steps("client", l)
          /\ moved'["client"] = 0 /\ moved'["server"] = moved["server"]
          /\ UNCHANGED canRead
       \/ /\ pc["server"] = "read"
          /\ \/ Steps("server", "reading") /\ outstandingBytes["server"] = 0
             \/ Steps("server", "account")
          /\ moved'["server"] = 0 /\ moved'["client"] = moved["client"]
          /\ UNCHANGED canRead

\* They change nothing of the argument.
LEMMA UndisturbedQuiet ==
    ASSUME IInv, Undisturbed, UndisturbedLabels
    PROVE  Undisturbed'
<1> USE DEF UndisturbedLabels, Steps, Procs
<1>1. Ending'
  BY DEF Undisturbed, Ending, Closing, Starting, Ended, LoopExit
<1>2. Passes'
  BY DEF Undisturbed, Ending, Passes, Closing, Starting, LoopExit
<1>3. ClientWindows'
  BY DEF Undisturbed, ClientWindows, Starting, LoopExit
<1>4. ServerWindows'
  BY DEF Undisturbed, ServerWindows, Starting, LoopExit
<1>5. Exchange'
  <2>1. ReadByClient' = ReadByClient /\ SentByServer' = SentByServer
    BY Facts DEF ReadByClient, SentByServer, Starting, LoopExit
  <2> QED
    BY <2>1 DEF Undisturbed, Exchange
<1>6. Answered'
  BY DEF Undisturbed, Answered
<1> QED
  BY <1>1, <1>2, <1>3, <1>4, <1>5, <1>6 DEF Undisturbed

\* F_SETPIPE_SZ never fails: RESPONSE is empty until the client's second open
\* returns, and REQUEST holds what the client's size admits.
LEMMA PipeSizeSet ==
    ASSUME IInv, PipesAgree, TurnInv, Openings, NEW p \in Procs, SetPipeSize(p)
    PROVE  /\ bytes[Opening(p)] <= PipeSizeOf(p)
           /\ capacity' = [capacity EXCEPT ![Opening(p)] = PipeSizeOf(p)]
           /\ opened' = [opened EXCEPT ![p] = @ + 1]
           /\ pc' = [pc EXCEPT ![p] = IF opened[p] = 1 THEN "loop" ELSE "open"]
           /\ UNCHANGED <<bytes, fds>>
<1>1. pc[p] = "size" /\ pc[p] \in Starting
  BY DEF SetPipeSize, Starting
<1>2. Opening(p) \in Fifos
  BY <1>1, NextOpened, Entries DEF Fifos
<1>3. bytes[Opening(p)] <= PipeSizeOf(p)
  <2>1. CASE p = "client"
    <3>1. \A f \in Fifos : bytes[f] = 0
      BY <1>1, <2>1, NothingYet DEF Fifos
    <3> QED
      BY <1>2, <2>1, <3>1, PipesAssumption DEF PipeSizeOf
  <2>2. CASE p = "server"
    <3>1. bytes["REQUEST"] <= ClientPipeSize
      BY <1>1, <2>2 DEF Openings
    <3>2. total["server"] = 0 /\ InWrite("server") = 0
      BY <1>1, <2>2 DEF TurnInv, Fresh, InWrite, Procs
    <3>3. bytes["RESPONSE"] = 0
      <4>1. Echoed = 0
        BY <3>2 DEF Echoed
      <4> QED
        BY <4>1, Books, Facts
    <3> QED
      BY <1>2, <2>2, <3>1, <3>3, Facts, PipesAssumption DEF PipeSizeOf, Fifos
  <2> QED
    BY <2>1, <2>2 DEF Procs
<1> QED
  BY <1>3 DEF SetPipeSize, Goto

\* Start-up, the loop's test, polling, the decision to read and closing.
LEMMA UndisturbedQuietSteps ==
    ASSUME IInv, PipesAgree, TurnInv, Openings, Undisturbed,
           \/ Common("client") \/ Common("server")
           \/ ClientPoll \/ ServerPoll \/ ClientTryRead \/ ServerTryRead
           \/ ClientEvaluate \/ UNCHANGED vars
    PROVE  Undisturbed'
<1> SUFFICES UndisturbedLabels
  BY UndisturbedQuiet
<1>0. /\ DOMAIN pc = Procs /\ DOMAIN canRead = Procs /\ DOMAIN moved = Procs
      /\ total["client"] \in Nat /\ total["server"] \in Nat
  BY Entries, Facts DEF IInv, TypeOK
<1> USE DEF UndisturbedLabels, Steps, Procs
<1>1. ASSUME NEW p \in Procs, Open(p) PROVE UndisturbedLabels
  BY <1>1, OpenKept DEF polled, window, stats
<1>2. ASSUME NEW p \in Procs, SetPipeSize(p) PROVE UndisturbedLabels
  <2>1. /\ pc[p] = "size" /\ pc' = [pc EXCEPT ![p] = IF opened[p] = 1 THEN "loop" ELSE "open"]
        /\ UNCHANGED <<bytes, quit, polled, window, stats>>
    BY <1>2, PipeSizeSet DEF SetPipeSize
  <2> QED
    BY <1>0, <2>1 DEF polled, window, stats, Starting
<1>3. ASSUME NEW p \in Procs, Loop(p) PROVE UndisturbedLabels
  <2>1. /\ pc[p] = "loop" /\ UNCHANGED <<bytes, quit, polled, window, stats>>
        /\ \/ Steps(p, LoopExit(p)) /\ LoopOver(p)
           \/ Steps(p, "poll") /\ ~LoopOver(p)
    BY <1>0, <1>3 DEF Loop, Goto
  <2>2. ~LoopOver(p) => total[p] < MaxBytes /\ ~quit[p]
    BY <1>0, MaxBytesType DEF LoopOver
  <2> QED
    BY <2>1, <2>2 DEF LoopOver, polled, window, stats
<1>4. ASSUME NEW p \in Procs, CloseRead(p) \/ CloseWrite(p) PROVE UndisturbedLabels
  BY <1>0, <1>4 DEF CloseRead, CloseWrite, Goto, polled, window, stats
<1>5. CASE ClientPoll
  <2>1. ~quit["client"] /\ pc["client"] = "poll"
    BY <1>5 DEF ClientPoll, Undisturbed, Ending, Closing
  <2> QED
    BY <1>0, <1>5, <2>1 DEF ClientPoll, Goto, window, stats
<1>6. CASE ServerPoll
  <2>1. ~quit["server"]
    BY DEF Undisturbed, Ending
  <2> QED
    BY <1>0, <1>6, <2>1 DEF ServerPoll, Goto, window, stats
<1>7. CASE ClientTryRead
  BY <1>0, <1>7 DEF ClientTryRead, TryRead, Goto, polled, stats
<1>8. CASE ServerTryRead
  <2>1. pc["server"] = "read" /\ canRead["server"] => outstandingBytes["server"] = 0
    BY OneWindow DEF Undisturbed, ServerWindows
  <2> QED
    BY <1>0, <1>8, <2>1 DEF ServerTryRead, TryRead, Goto, polled, stats
<1>9. CASE ClientEvaluate
  BY <1>0, <1>9 DEF ClientEvaluate, Goto, polled, window, stats
<1>10. CASE UNCHANGED vars
  BY <1>10 DEF vars
<1> QED
  BY <1>1, <1>2, <1>3, <1>4, <1>5, <1>6, <1>7, <1>8, <1>9, <1>10 DEF Common

\* The client's read() takes a byte at least, and the last of a window ends the
\* call.
LEMMA UndisturbedClientRead ==
    ASSUME IInv, PipesAgree, TurnInv, Openings, Undisturbed, ClientRead
    PROVE  Undisturbed'
<1> USE DEF Procs, Fifos
<1>0. /\ pc \in [Procs -> Starting \cup Running \cup Ended]
      /\ bytes \in [Fifos -> Nat] /\ moved \in [Procs -> Nat] /\ Window \in Nat \ {0}
      /\ total["client"] \in Nat
  BY Facts, WindowType DEF IInv, TypeOK
<1>1. /\ pc["client"] = "reading"
      /\ moved["client"] < outstandingBytes["client"]
      /\ UNCHANGED <<quit, outstandingBytes, total, numReqsRead, canRead>>
  BY DEF ClientRead, read_from_pipe, IInv, CallsBounded, stats, polled
<1>2. outstandingBytes["client"] = Window /\ ~quit["client"]
  BY <1>0, <1>1, Facts DEF Undisturbed, Ending, ClientWindows, Closing
<1>3. read_from_pipe("client", "RESPONSE", Window)
  BY <1>2 DEF ClientRead
<1>4. ~(bytes["RESPONSE"] = 0 /\ "server" \notin fds["RESPONSE"])
  BY <1>1, ClientHasPeer
<1>5. PICK k \in 1..bytes["RESPONSE"] :
        /\ bytes' = [bytes EXCEPT !["RESPONSE"] = bytes["RESPONSE"] - k]
        /\ moved' = [moved EXCEPT !["client"] = moved["client"] + k]
        /\ \/ pc' = pc /\ moved["client"] + k < Window
           \/ pc' = [pc EXCEPT !["client"] = "account"] /\ moved["client"] + k = Window
  BY <1>0, <1>1, <1>2, <1>3, <1>4, ReadProgress DEF Other
<1>6. /\ bytes'["REQUEST"] = bytes["REQUEST"] /\ moved'["server"] = moved["server"]
      /\ pc'["server"] = pc["server"]
      /\ \/ pc'["client"] = "reading"
         \/ pc'["client"] = "account" /\ moved'["client"] = Window /\ moved["client"] + k = Window
  BY <1>0, <1>1, <1>5
<1>7. Ending'
  BY <1>1, <1>2, <1>6 DEF Undisturbed, Ending
<1>8. Passes'
  BY <1>1, <1>6 DEF Undisturbed, Passes, Closing
<1>9. ClientWindows'
  BY <1>1, <1>2, <1>6 DEF Undisturbed, ClientWindows
<1>10. ServerWindows'
  BY <1>1, <1>6 DEF Undisturbed, ServerWindows
<1>11. Exchange'
  <2>1. SentByServer' = SentByServer /\ ReadByClient = total["client"] /\ SentByServer \in Nat
    BY <1>0, <1>1, <1>6, Facts DEF SentByServer, ReadByClient
  <2>2. CASE pc'["client"] = "reading"
    <3>1. ReadByClient' = ReadByClient
      BY <1>0, <1>1, <2>1, <2>2 DEF ReadByClient
    <3> QED
      BY <2>1, <3>1 DEF Undisturbed, Exchange
  <2>3. CASE pc'["client"] = "account" /\ moved'["client"] = Window /\ moved["client"] + k = Window
    <3>1. ReadByClient' = total["client"] + Window
      BY <1>1, <2>3 DEF ReadByClient
    <3>2. SentByServer = ReadByClient + Window
      BY <1>1, <2>3, AnswersInTurn
    <3> QED
      BY <1>0, <2>1, <3>1, <3>2 DEF Exchange
  <2> QED
    BY <1>6, <2>2, <2>3
<1>12. Answered'
  BY <1>1 DEF Undisturbed, Answered
<1> QED
  BY <1>7, <1>8, <1>9, <1>10, <1>11, <1>12 DEF Undisturbed

\* So does the server's.
LEMMA UndisturbedServerRead ==
    ASSUME IInv, TurnInv, Undisturbed, ServerRead
    PROVE  Undisturbed'
<1> USE DEF Procs, Fifos
<1>0. /\ pc \in [Procs -> Starting \cup Running \cup Ended]
      /\ bytes \in [Fifos -> Nat] /\ moved \in [Procs -> Nat] /\ Window \in Nat
      /\ toRead = Window
  BY ToReadIsWindow, WindowType DEF IInv, TypeOK
<1>1. /\ pc["server"] = "reading" /\ moved["server"] < Window
      /\ UNCHANGED <<quit, outstandingBytes, total, numReqsRead, canRead>>
      /\ read_from_pipe("server", "REQUEST", Window)
  BY <1>0 DEF ServerRead, read_from_pipe, IInv, CallsBounded, stats, polled
<1>2. "client" \in fds["REQUEST"] /\ outstandingBytes["server"] = 0
  BY <1>1, ServerHasPeer DEF Undisturbed, ServerWindows
<1>3. PICK k \in 1..bytes["REQUEST"] :
        /\ bytes' = [bytes EXCEPT !["REQUEST"] = bytes["REQUEST"] - k]
        /\ moved' = [moved EXCEPT !["server"] = moved["server"] + k]
        /\ \/ pc' = pc /\ moved["server"] + k < Window
           \/ pc' = [pc EXCEPT !["server"] = "account"] /\ moved["server"] + k = Window
  BY <1>0, <1>1, <1>2, ReadProgress DEF Other
<1>4. /\ moved'["client"] = moved["client"] /\ pc'["client"] = pc["client"]
      /\ \/ pc'["server"] = "reading"
         \/ pc'["server"] = "account" /\ moved'["server"] = Window
  BY <1>0, <1>1, <1>3
<1>5. Ending'
  BY <1>1, <1>4 DEF Undisturbed, Ending, Ended
<1>6. Passes'
  BY <1>1, <1>4 DEF Undisturbed, Passes, Closing
<1>7. ClientWindows'
  BY <1>1, <1>4 DEF Undisturbed, ClientWindows
<1>8. ServerWindows'
  BY <1>1, <1>2, <1>4 DEF Undisturbed, ServerWindows
<1>9. Exchange'
  <2>1. ReadByClient' = ReadByClient /\ SentByServer' = SentByServer
    BY <1>1, <1>4 DEF SentByServer, ReadByClient
  <2> QED
    BY <2>1 DEF Undisturbed, Exchange
<1>10. Answered'
  BY <1>1 DEF Undisturbed, Answered
<1> QED
  BY <1>5, <1>6, <1>7, <1>8, <1>9, <1>10 DEF Undisturbed

\* A piece of the client's write(): the last of a window ends the call, and so
\* does a server that has left.
LEMMA UndisturbedClientWrite ==
    ASSUME IInv, PipesAgree, TurnInv, Openings, Undisturbed, ClientWrite
    PROVE  Undisturbed'
<1> USE DEF Procs, Fifos
<1>0. /\ pc \in [Procs -> Starting \cup Running \cup Ended] /\ DOMAIN quit = Procs
      /\ bytes \in [Fifos -> Nat] /\ moved \in [Procs -> Nat] /\ Window \in Nat
  BY Entries, WindowType DEF IInv, TypeOK
<1>1. /\ pc["client"] = "writing" /\ outstandingBytes["client"] = 0 /\ ~quit["client"]
      /\ moved["client"] < Window
      /\ UNCHANGED <<outstandingBytes, total, numReqsRead, canRead>>
  BY <1>0 DEF ClientWrite, write_to_pipe, IInv, CallsBounded, stats, polled, Undisturbed,
     Ending, ClientWindows, Closing
<1>2. write_to_pipe("client", "REQUEST", Window)
  BY <1>0, <1>1 DEF ClientWrite, ClientFill
<1>3. /\ pc'["server"] = pc["server"] /\ moved'["server"] = moved["server"]
      /\ quit'["server"] = quit["server"]
      /\ bytes["REQUEST"] > 0 => bytes'["REQUEST"] > 0
      /\ pc'["client"] \in {"writing", "wrote"}
      /\ \/ quit' = quit /\ (pc'["client"] = "wrote" => moved'["client"] = Window)
         \/ "server" \notin fds["REQUEST"] /\ quit'["client"] /\ pc'["client"] = "wrote"
  <2>1. CASE "server" \in fds["REQUEST"]
    <3>1. PICK k \in Nat \ {0} :
            /\ bytes' = [bytes EXCEPT !["REQUEST"] = bytes["REQUEST"] + k]
            /\ moved' = [moved EXCEPT !["client"] = moved["client"] + k]
            /\ \/ pc' = pc
               \/ pc' = [pc EXCEPT !["client"] = "wrote"] /\ moved["client"] + k = Window
            /\ quit' = quit
      BY <1>0, <1>1, <1>2, <2>1, WriteProgress DEF Other
    <3> QED
      BY <1>0, <1>1, <3>1
  <2>2. CASE "server" \notin fds["REQUEST"]
    <3>1. /\ quit' = [quit EXCEPT !["client"] = TRUE]
          /\ pc' = [pc EXCEPT !["client"] = "wrote"]
          /\ UNCHANGED <<bytes, moved>>
      BY <1>0, <1>1, <1>2, <2>2, WriteProgress DEF Other
    <3> QED
      BY <1>0, <2>2, <3>1
  <2> QED
    BY <2>1, <2>2
<1>4. "server" \notin fds["REQUEST"] =>
        pc["server"] \in {"closeWrite"} \cup Ended /\ total["client"] >= MaxBytes
  BY <1>1, ClientHasPeer
<1>5. Ending'
  BY <1>1, <1>3, <1>4 DEF Undisturbed, Ending
<1>6. Passes'
  BY <1>1, <1>3 DEF Undisturbed, Passes, Closing
<1>7. ClientWindows'
  BY <1>1, <1>3 DEF ClientWindows
<1>8. ServerWindows'
  BY <1>1, <1>3 DEF Undisturbed, ServerWindows
<1>9. Exchange'
  <2>1. ReadByClient' = ReadByClient /\ SentByServer' = SentByServer
    BY <1>1, <1>3 DEF SentByServer, ReadByClient
  <2> QED
    BY <2>1 DEF Undisturbed, Exchange
<1>10. Answered'
  BY <1>1 DEF Undisturbed, Answered
<1> QED
  BY <1>5, <1>6, <1>7, <1>8, <1>9, <1>10 DEF Undisturbed

\* A piece of the server's write().
LEMMA UndisturbedServerWrite ==
    ASSUME IInv, PipesAgree, TurnInv, Undisturbed, ServerWrite
    PROVE  Undisturbed'
<1> USE DEF Procs, Fifos
<1>0. /\ pc \in [Procs -> Starting \cup Running \cup Ended]
      /\ bytes \in [Fifos -> Nat] /\ moved \in [Procs -> Nat] /\ Window \in Nat
      /\ total["server"] \in Nat
  BY Facts, WindowType DEF IInv, TypeOK
<1>1. /\ pc["server"] = "writing" /\ outstandingBytes["server"] = Window
      /\ moved["server"] < Window
      /\ UNCHANGED <<outstandingBytes, total, numReqsRead, canRead>>
  BY DEF ServerWrite, write_to_pipe, IInv, CallsBounded, stats, polled, Undisturbed, ServerWindows
<1>2. "client" \in fds["RESPONSE"] /\ write_to_pipe("server", "RESPONSE", Window)
  BY <1>1, ServerHasPeer DEF ServerWrite
<1>3. PICK k \in Nat \ {0} :
        /\ bytes' = [bytes EXCEPT !["RESPONSE"] = bytes["RESPONSE"] + k]
        /\ moved' = [moved EXCEPT !["server"] = moved["server"] + k]
        /\ \/ pc' = pc
           \/ pc' = [pc EXCEPT !["server"] = "wrote"] /\ moved["server"] + k = Window
        /\ quit' = quit
  BY <1>0, <1>1, <1>2, WriteProgress DEF Other
<1>4. /\ pc'["client"] = pc["client"] /\ moved'["client"] = moved["client"]
      /\ \/ pc'["server"] = "writing"
         \/ pc'["server"] = "wrote" /\ moved'["server"] = Window
  BY <1>0, <1>1, <1>3
<1>5. Ending'
  BY <1>1, <1>3, <1>4 DEF Undisturbed, Ending, Ended
<1>6. Passes'
  BY <1>1, <1>4 DEF Undisturbed, Passes, Closing
<1>7. ClientWindows'
  BY <1>1, <1>3, <1>4 DEF Undisturbed, ClientWindows
<1>8. ServerWindows'
  BY <1>1, <1>4 DEF ServerWindows
<1>9. Exchange'
  <2>1. ReadByClient' = ReadByClient /\ SentByServer = total["server"]
    BY <1>0, <1>1, <1>4 DEF SentByServer, ReadByClient
  <2>2. SentByServer = ReadByClient
    BY <1>1, EchoInTurn
  <2>3. SentByServer' = total["server"] \/ SentByServer' = total["server"] + Window
    BY <1>0, <1>1, <1>4 DEF SentByServer
  <2> QED
    BY <1>0, <2>1, <2>2, <2>3 DEF Exchange
<1>10. Answered'
  BY <1>1 DEF Undisturbed, Answered
<1> QED
  BY <1>5, <1>6, <1>7, <1>8, <1>9, <1>10 DEF Undisturbed

\* The client counts a whole window of answers, or nothing.
LEMMA UndisturbedClientAccount ==
    ASSUME IInv, Undisturbed, ClientAccount
    PROVE  Undisturbed'
<1> DEFINE n == moved["client"]
           b == outstandingBytes["client"]
<1>0. /\ n \in Nat /\ b \in Nat /\ total["client"] \in Nat /\ Window \in Nat \ {0}
      /\ numReqsRead \in Nat /\ Size \in Nat /\ Rate \in Nat
  BY Facts, WindowType, SizesAssumption DEF IInv, TypeOK
<1>1. /\ Kept("server") /\ UNCHANGED <<bytes, quit, canRead>>
      /\ pc["client"] = "account"
      /\ outstandingBytes'["client"] = b - n
      /\ total'["client"] = total["client"] + n
      /\ numReqsRead' = numReqsRead + wholeReqs(n)
      /\ pc'["client"] = "loop" \/ (pc'["client"] = "writing" /\ b - n < Window)
  BY ClientAccountEffect DEF ClientAccount, polled
<1>2. ~quit["client"] /\ (n = 0 \/ (n = Window /\ b = Window)) /\ (b = 0 \/ b = Window)
  BY <1>1 DEF Undisturbed, Ending, Closing, ClientWindows
<1>3. Ending'
  BY <1>1, <1>2 DEF Undisturbed, Ending, Kept, Procs
<1>4. Passes'
  BY <1>1 DEF Undisturbed, Passes, Closing, Kept, Procs
<1>5. ClientWindows'
  <2>1. b - n = 0 \/ b - n = Window
    BY <1>0, <1>2
  <2> HIDE DEF b, n
  <2> QED
    BY <1>0, <1>1, <2>1 DEF ClientWindows
<1>6. ServerWindows'
  BY <1>1 DEF Undisturbed, ServerWindows, Kept
<1>7. Exchange'
  <2>1. ReadByClient' = ReadByClient /\ SentByServer' = SentByServer
    BY <1>0, <1>1 DEF SentByServer, ReadByClient, Kept
  <2> QED
    BY <2>1 DEF Undisturbed, Exchange
<1>8. Answered'
  <2>1. (n = 0 /\ wholeReqs(n) = 0) \/ (n = Size * Rate /\ wholeReqs(n) = Rate)
    BY <1>2, Whole0, WindowReqs DEF Window
  <2>2. total["client"] = Size * numReqsRead
    BY DEF Undisturbed, Answered
  <2> HIDE DEF n
  <2>3. Size * (numReqsRead + wholeReqs(n)) = Size * numReqsRead + n
    <3>1. CASE n = 0 /\ wholeReqs(n) = 0
      BY <1>0, <3>1
    <3>2. CASE n = Size * Rate /\ wholeReqs(n) = Rate
      <4>1. Size * (numReqsRead + Rate) = Size * numReqsRead + Size * Rate
        BY <1>0
      <4> QED
        BY <3>2, <4>1
    <3> QED
      BY <2>1, <3>1, <3>2
  <2> QED
    BY <1>1, <2>2, <2>3 DEF Answered
<1> QED
  BY <1>3, <1>4, <1>5, <1>6, <1>7, <1>8 DEF Undisturbed

\* The other accounts.
LEMMA UndisturbedAccounts ==
    ASSUME IInv, Undisturbed, ClientWrote \/ ServerAccount \/ ServerWrote
    PROVE  Undisturbed'
<1> USE DEF Procs
<1>0. /\ DOMAIN pc = Procs /\ DOMAIN moved = Procs /\ DOMAIN outstandingBytes = Procs
      /\ DOMAIN total = Procs /\ Window \in Nat \ {0} /\ MaxBytes \in Nat
  BY WindowType, MaxBytesType DEF IInv, TypeOK
<1>a. UNCHANGED <<bytes, quit, canRead, numReqsRead>>
  BY DEF ClientWrote, ServerAccount, ServerWrote, polled, stats
<1>1. CASE ClientWrote
  <2>1. /\ Kept("server") /\ UNCHANGED total
        /\ pc["client"] = "wrote" /\ pc'["client"] = "loop"
        /\ outstandingBytes'["client"] = outstandingBytes["client"] + moved["client"]
    BY <1>0, <1>1, ServerKept DEF ClientWrote, Goto
  <2>2. outstandingBytes["client"] = 0 /\ (quit["client"] \/ moved["client"] = Window)
    BY <2>1 DEF Undisturbed, ClientWindows
  <2>3. quit'["client"] \/ outstandingBytes'["client"] = Window
    BY <1>0, <1>a, <2>1, <2>2
  <2>4. Ending' /\ Passes'
    BY <1>a, <2>1 DEF Undisturbed, Ending, Passes, Closing, Kept
  <2>5. ClientWindows'
    BY <2>1, <2>3 DEF ClientWindows
  <2>6. ServerWindows'
    BY <1>a, <2>1 DEF Undisturbed, ServerWindows, Kept
  <2>7. ReadByClient' = ReadByClient /\ SentByServer' = SentByServer
    BY <2>1 DEF SentByServer, ReadByClient, Kept
  <2>8. Exchange' /\ Answered'
    BY <1>a, <2>1, <2>7 DEF Undisturbed, Exchange, Answered
  <2> QED
    BY <2>4, <2>5, <2>6, <2>8 DEF Undisturbed
<1>2. CASE ServerAccount
  <2>1. /\ Kept("client") /\ UNCHANGED total
        /\ pc["server"] = "account"
        /\ outstandingBytes'["server"] = outstandingBytes["server"] + moved["server"]
        /\ \/ pc'["server"] = "loop"
           \/ pc'["server"] = "writing" /\ outstandingBytes'["server"] > 0
    BY <1>0, <1>2, ClientKept DEF ServerAccount, Goto
  <2>2. outstandingBytes'["server"] = 0 \/ outstandingBytes'["server"] = Window
    BY <1>0, <2>1 DEF Undisturbed, ServerWindows
  <2>3. Ending' /\ Passes'
    BY <1>a, <2>1 DEF Undisturbed, Ending, Passes, Closing, Kept, Ended
  <2>4. ClientWindows'
    BY <1>a, <2>1 DEF Undisturbed, ClientWindows, Kept
  <2>5. ServerWindows'
    BY <1>0, <2>1, <2>2 DEF ServerWindows
  <2>6. ReadByClient' = ReadByClient /\ SentByServer' = SentByServer
    BY <2>1 DEF SentByServer, ReadByClient, Kept
  <2>7. Exchange' /\ Answered'
    BY <1>a, <2>1, <2>6 DEF Undisturbed, Exchange, Answered
  <2> QED
    BY <2>3, <2>4, <2>5, <2>7 DEF Undisturbed
<1>3. CASE ServerWrote
  <2>1. /\ Kept("client")
        /\ pc["server"] = "wrote" /\ pc'["server"] = "loop"
        /\ outstandingBytes'["server"] = outstandingBytes["server"] - moved["server"]
        /\ total'["server"] = total["server"] + moved["server"]
    BY <1>0, <1>3, ClientKept DEF ServerWrote, Goto
  <2>2. /\ outstandingBytes["server"] = Window /\ moved["server"] = Window
        /\ total["server"] < MaxBytes
    BY <2>1 DEF Undisturbed, ServerWindows, Passes
  <2>3. /\ outstandingBytes'["server"] = 0 /\ total'["server"] < MaxBytes + Window
    BY <1>0, <2>1, <2>2, Facts
  <2>4. Ending'
    BY <1>a, <2>1 DEF Undisturbed, Ending, Ended, Kept
  <2>5. Passes'
    BY <2>1, <2>3 DEF Undisturbed, Passes, Closing, Kept
  <2>6. ClientWindows'
    BY <1>a, <2>1 DEF Undisturbed, ClientWindows, Kept
  <2>7. ServerWindows'
    BY <2>1, <2>3 DEF ServerWindows
  <2>8. ReadByClient' = ReadByClient /\ SentByServer' = SentByServer
    BY <2>1, Facts DEF SentByServer, ReadByClient, Kept
  <2>9. Exchange' /\ Answered'
    BY <1>a, <2>1, <2>8 DEF Undisturbed, Exchange, Answered, Kept
  <2> QED
    BY <2>4, <2>5, <2>6, <2>7, <2>9 DEF Undisturbed
<1> QED
  BY <1>1, <1>2, <1>3

\* A step of the programs without a signal.
LEMMA UndisturbedStep ==
    ASSUME IInv, PipesAgree, TurnInv, Openings, Undisturbed, [Client \/ Server]_vars
    PROVE  Undisturbed'
<1>1. CASE \/ Common("client") \/ Common("server")
           \/ ClientPoll \/ ServerPoll \/ ClientTryRead \/ ServerTryRead
           \/ ClientEvaluate \/ UNCHANGED vars
  BY <1>1, UndisturbedQuietSteps
<1>2. CASE ClientRead \/ ServerRead \/ ClientWrite \/ ServerWrite
  BY <1>2, UndisturbedClientRead, UndisturbedServerRead, UndisturbedClientWrite,
     UndisturbedServerWrite
<1>3. CASE ClientAccount \/ ClientWrote \/ ServerAccount \/ ServerWrote
  BY <1>3, UndisturbedClientAccount, UndisturbedAccounts
<1> QED
  BY <1>1, <1>2, <1>3 DEF Client, Server

\* The second open of either process returns only when both have come to it.
LEMMA OpenOpenings ==
    ASSUME IInv, TurnInv, Openings, NEW p \in Procs, Open(p)
    PROVE  Openings'
<1> USE DEF Procs, Starting
<1>0. /\ DOMAIN pc = Procs /\ DOMAIN fds = Fifos
      /\ \A q \in Procs : pc[q] \in Starting \cup Running \cup Ended
      /\ \A q \in Procs : pc[q] \in Starting =>
            /\ opened[q] \in {0, 1}
            /\ opened[q] = 0 => Opening(q) = "RESPONSE"
            /\ opened[q] = 1 => Opening(q) = "REQUEST"
  BY Entries, NextOpened
<1>1. /\ UNCHANGED <<opened, bytes, capacity>>
      /\ \A q \in Procs : pc'[q] = pc[q] \/ (pc[q] \in Starting /\ pc'[q] \in Starting)
  BY OpenKept
<1>2. /\ pc[p] = "open"
      /\ Other(p) \in fds[Opening(p)] =>
            /\ pc'[p] = "size"
            /\ pc'[Other(p)] =
                 IF pc[Other(p)] = "wait" /\ Opening(Other(p)) = Opening(p)
                 THEN "size" ELSE pc[Other(p)]
      /\ Other(p) \notin fds[Opening(p)] => pc'[p] = "wait" /\ pc'[Other(p)] = pc[Other(p)]
  BY <1>0 DEF Open, Other
<1>3. ASSUME pc'["client"] \in Running \/ (pc'["client"] = "size" /\ opened["client"] = 1)
      PROVE  pc'["server"] \notin {"open", "wait"} /\ (pc'["server"] = "size" => opened["server"] = 1)
  <2>1. CASE pc["client"] \in Running \/ (pc["client"] = "size" /\ opened["client"] = 1)
    <3>1. /\ pc["server"] \notin {"open", "wait"} /\ (pc["server"] = "size" => opened["server"] = 1)
          /\ pc["client"] # "open"
      BY <2>1 DEF Openings, Running
    <3> QED
      BY <1>2, <3>1
  <2>2. CASE /\ ~(pc["client"] \in Running \/ (pc["client"] = "size" /\ opened["client"] = 1))
             /\ p = "client"
    <3>1. /\ pc'["client"] = "size" /\ opened["client"] = 1
      BY <1>1, <1>3, <2>2 DEF Running
    <3>2. "server" \in fds["REQUEST"]
      BY <1>0, <1>2, <2>2, <3>1 DEF Other
    <3>3. pc["server"] \in Starting => opened["server"] = 1 /\ pc["server"] # "open"
      BY <3>2 DEF TurnInv, Held
    <3>4. pc["server"] \in Starting => pc'["server"] = "size"
      BY <1>0, <1>2, <2>2, <3>1, <3>2, <3>3 DEF Other
    <3> QED
      BY <1>1, <3>3, <3>4
  <2>3. CASE /\ ~(pc["client"] \in Running \/ (pc["client"] = "size" /\ opened["client"] = 1))
             /\ p = "server"
    <3>1. /\ pc'["client"] = "size" /\ opened["client"] = 1 /\ pc["client"] \in Starting
          /\ pc'["client"] # pc["client"]
      BY <1>1, <1>3, <2>3 DEF Running
    <3>2. "client" \in fds[Opening("server")] /\ Opening("client") = Opening("server")
      BY <1>2, <2>3, <3>1 DEF Other
    <3>3. opened["server"] = 1 /\ pc'["server"] = "size"
      BY <1>0, <1>2, <2>3, <3>1, <3>2 DEF Other
    <3> QED
      BY <3>3
  <2> QED
    BY <2>1, <2>2, <2>3
<1>4. ASSUME pc'["server"] \in Starting
      PROVE  /\ bytes["REQUEST"] <= ClientPipeSize
             /\ pc'["client"] \in Running => capacity["REQUEST"] = ClientPipeSize
  <2>1. pc["server"] \in Starting /\ (pc'["client"] \in Running => pc["client"] \in Running)
    BY <1>1, <1>4 DEF Running
  <2> QED
    BY <2>1 DEF Openings
<1> QED
  BY <1>1, <1>3, <1>4 DEF Openings

\* What the client writes before the server has set its size fits the smaller
\* pipe.
LEMMA OpeningsStep ==
    ASSUME IInv, PipesAgree, TurnInv, Openings, [Client \/ Server]_vars
    PROVE  Openings'
<1>0. /\ DOMAIN pc = Procs /\ DOMAIN opened = Procs /\ DOMAIN capacity = Fifos
      /\ bytes \in [Fifos -> Nat]
      /\ \A q \in Procs : pc[q] \in Starting \cup Running \cup Ended
  BY Entries DEF IInv, TypeOK
<1>1. ASSUME NEW p \in Procs, Open(p) PROVE Openings'
  BY <1>1, OpenOpenings
<1>2. ASSUME NEW p \in Procs, SetPipeSize(p) PROVE Openings'
  <2>1. /\ pc[p] = "size" /\ opened[p] \in {0, 1}
        /\ opened[p] = 0 => Opening(p) = "RESPONSE"
        /\ opened[p] = 1 => Opening(p) = "REQUEST"
    BY <1>2, Entries, NextOpened DEF SetPipeSize, Starting
  <2>2. /\ capacity' = [capacity EXCEPT ![Opening(p)] = PipeSizeOf(p)]
        /\ opened' = [opened EXCEPT ![p] = @ + 1]
        /\ pc' = [pc EXCEPT ![p] = IF opened[p] = 1 THEN "loop" ELSE "open"]
        /\ UNCHANGED bytes
    BY <1>2, PipeSizeSet
  <2>3. CASE opened[p] = 1
    <3>1. /\ pc'[p] = "loop" /\ capacity'["REQUEST"] = PipeSizeOf(p)
          /\ \A q \in Procs : q # p => pc'[q] = pc[q] /\ opened'[q] = opened[q]
      BY <1>0, <2>1, <2>2, <2>3 DEF Fifos
    <3> QED
      BY <2>1, <2>2, <2>3, <3>1 DEF Openings, PipeSizeOf, Procs, Starting, Running
  <2>4. CASE opened[p] = 0
    <3>1. /\ pc'[p] = "open" /\ capacity'["REQUEST"] = capacity["REQUEST"]
          /\ \A q \in Procs : q # p => pc'[q] = pc[q] /\ opened'[q] = opened[q]
      BY <1>0, <2>1, <2>2, <2>4 DEF Fifos
    <3> QED
      BY <2>1, <2>2, <2>4, <3>1 DEF Openings, Procs, Starting, Running
  <2> QED
    BY <2>1, <2>3, <2>4
<1>3. ASSUME UNCHANGED <<opened, capacity>>,
             pc'["client"] \in Running => pc["client"] \in Running,
             pc'["client"] \notin Starting \/ pc'["client"] = pc["client"],
             pc'["server"] \notin Starting \/ pc'["server"] = pc["server"],
             pc'["server"] \in Starting => bytes'["REQUEST"] <= ClientPipeSize
      PROVE  Openings'
  BY <1>3 DEF Openings, Starting
<1>4. ASSUME NEW p \in Procs, Loop(p) \/ CloseRead(p) \/ CloseWrite(p) PROVE Openings'
  BY <1>0, <1>3, <1>4 DEF Loop, CloseRead, CloseWrite, LoopExit, Goto, startup, Openings,
     Procs, Starting, Running
<1>5. CASE \/ ServerPoll \/ ServerTryRead \/ ServerRead \/ ServerAccount
           \/ ServerWrite \/ ServerWrote
  <2>1. UNCHANGED <<opened, capacity>> /\ pc'["client"] = pc["client"]
    BY <1>5, ClientKept DEF Kept, ServerPoll, ServerTryRead, ServerRead, ServerAccount,
       ServerWrite, ServerWrote, TryRead, read_from_pipe, write_to_pipe, startup
  <2>2. pc'["server"] \notin Starting
    BY <1>0, <1>5 DEF ServerPoll, ServerTryRead, ServerRead, ServerAccount, ServerWrite,
       ServerWrote, TryRead, read_from_pipe, write_to_pipe, Goto, Starting, Procs
  <2> QED
    BY <1>3, <2>1, <2>2
<1>6. CASE \/ ClientPoll \/ ClientTryRead \/ ClientRead \/ ClientAccount
           \/ ClientWrite \/ ClientWrote \/ ClientEvaluate
  <2>1. UNCHANGED <<opened, capacity>> /\ pc'["server"] = pc["server"]
    BY <1>6, ServerKept DEF Kept, ClientPoll, ClientTryRead, ClientRead, ClientAccount,
       ClientWrite, ClientWrote, ClientEvaluate, TryRead, read_from_pipe, write_to_pipe, startup
  <2>2. pc["client"] \in Running /\ pc'["client"] \notin Starting
    BY <1>0, <1>6 DEF ClientPoll, ClientTryRead, ClientRead, ClientAccount, ClientWrite,
       ClientWrote, ClientEvaluate, TryRead, read_from_pipe, write_to_pipe, Goto, Starting,
       Running, Procs
  <2>3. pc["server"] \in Starting =>
          bytes["REQUEST"] <= ClientPipeSize /\ capacity["REQUEST"] = ClientPipeSize
    BY <2>2 DEF Openings
  <2>4. \/ bytes'["REQUEST"] = bytes["REQUEST"]
        \/ bytes'["REQUEST"] <= capacity["REQUEST"]
    <3>1. CASE ClientWrite
      <4>1. \/ \E k \in Nat : /\ bytes["REQUEST"] + k <= capacity["REQUEST"]
                             /\ bytes' = [bytes EXCEPT !["REQUEST"] = bytes["REQUEST"] + k]
            \/ UNCHANGED bytes
        <5>1. ClientFill \in Nat /\ pc["client"] = "writing" /\ moved["client"] < ClientFill
              /\ write_to_pipe("client", "REQUEST", ClientFill)
          BY <3>1, Facts, WindowType DEF ClientWrite, ClientFill, write_to_pipe, IInv, CallsBounded
        <5> HIDE DEF ClientFill
        <5> QED
          BY <5>1, WriteProgress DEF Procs, Fifos
      <4> QED
        BY <1>0, <4>1 DEF Fifos
    <3>2. CASE ClientRead
      BY <1>0, <3>2 DEF ClientRead, read_from_pipe, Fifos
    <3>3. CASE ClientPoll \/ ClientTryRead \/ ClientAccount \/ ClientWrote \/ ClientEvaluate
      BY <3>3 DEF ClientPoll, ClientTryRead, ClientAccount, ClientWrote, ClientEvaluate, TryRead
    <3> QED
      BY <1>6, <3>1, <3>2, <3>3
  <2> QED
    BY <1>3, <2>1, <2>2, <2>3, <2>4
<1>7. CASE UNCHANGED vars
  BY <1>7 DEF vars, Openings
<1> QED
  BY <1>1, <1>2, <1>4, <1>5, <1>6, <1>7 DEF Client, Server, Common, Procs

\* evaluateClient's assertion holds: the client evaluates after MaxBytes, so it
\* has read Count requests and the count is positive.
NoAbort == \A p \in Procs : pc[p] # "aborted"

\* No step of either program breaks it.
LEMMA NoAbortStep ==
    ASSUME IInv, Undisturbed, NoAbort, [Client \/ Server]_vars
    PROVE  NoAbort'
<1> USE DEF NoAbort, Goto
<1>0. DOMAIN pc = Procs
  BY Entries
<1>1. CASE ClientEvaluate
  <2>1. /\ numReqsRead \in Nat /\ total["client"] >= MaxBytes
        /\ total["client"] = Size * numReqsRead
    BY <1>1 DEF ClientEvaluate, Undisturbed, Passes, Closing, Answered, Procs, IInv, TypeOK
  <2>2. Count <= numReqsRead
    BY <2>1, Cancel, SizesAssumption DEF MaxBytes
  <2>3. ReportedCount > 0
    BY <2>1, <2>2, SizesAssumption DEF ReportedCount, Least
  <2> QED
    BY <1>0, <1>1, <2>3 DEF ClientEvaluate
<1>2. CASE \E p \in Procs : Open(p) \/ SetPipeSize(p)
  BY <1>0, <1>2 DEF Open, SetPipeSize
<1>3. CASE \E p \in Procs : Loop(p) \/ CloseRead(p) \/ CloseWrite(p)
  BY <1>0, <1>3 DEF Loop, LoopExit, CloseRead, CloseWrite
<1>4. CASE ClientPoll \/ ClientTryRead \/ ServerPoll \/ ServerTryRead
  BY <1>0, <1>4 DEF ClientPoll, ClientTryRead, ServerPoll, ServerTryRead, TryRead
<1>5. CASE ClientRead \/ ServerRead
  BY <1>0, <1>5 DEF ClientRead, ServerRead, read_from_pipe
<1>6. CASE ClientWrite \/ ServerWrite
  BY <1>0, <1>6 DEF ClientWrite, ServerWrite, write_to_pipe
<1>7. CASE ClientAccount \/ ClientWrote \/ ServerAccount \/ ServerWrote
  BY <1>0, <1>7 DEF ClientAccount, ClientWrote, ServerAccount, ServerWrote
<1>8. CASE UNCHANGED vars
  BY <1>8 DEF vars
<1> QED
  BY <1>1, <1>2, <1>3, <1>4, <1>5, <1>6, <1>7, <1>8 DEF Client, Server, Common, Procs

\* The state of a run that nobody has interrupted
MCInv ==
    /\ IInv /\ PipesAgree /\ TurnInv
    /\ ~signalled => Openings /\ Undisturbed /\ NoAbort

\* The run keeps it.
LEMMA MCInvariance == MCSpec => []MCInv
<1>1. MCInit => MCInv
  <2> SUFFICES ASSUME Init PROVE MCInv
    BY DEF MCInit
  <2>1. IInv /\ PipesAgree /\ TurnInv
    BY InitTurns
  <2>2. /\ \A p \in Procs : pc[p] = "open" /\ quit[p] = FALSE
        /\ total["client"] = 0 /\ total["server"] = 0
        /\ outstandingBytes["client"] = 0 /\ outstandingBytes["server"] = 0
        /\ numReqsRead = 0 /\ bytes["REQUEST"] = 0
    BY DEF Init, Procs, Fifos
  <2>3. Openings
    BY <2>2, PipesAssumption DEF Openings, Running, Procs
  <2>4. Ending
    BY <2>2 DEF Ending, Procs
  <2>5. Passes
    BY <2>2, WindowType, MaxBytesType DEF Passes, Closing, Procs
  <2>6. ClientWindows /\ ServerWindows
    BY <2>2 DEF ClientWindows, ServerWindows, Procs
  <2>7. Exchange /\ Answered
    BY <2>2, SizesAssumption DEF Exchange, Answered, ReadByClient, SentByServer, Procs
  <2>8. NoAbort
    BY <2>2 DEF NoAbort
  <2> QED
    BY <2>1, <2>3, <2>4, <2>5, <2>6, <2>7, <2>8 DEF MCInv, Undisturbed
<1>2. MCInv /\ [MCNext]_mcvars => MCInv'
  <2> SUFFICES ASSUME MCInv, [MCNext]_mcvars PROVE MCInv'
    OBVIOUS
  <2>1. [Next]_vars
    BY DEF MCNext, mcvars, Next
  <2>2. IInv' /\ PipesAgree' /\ TurnInv'
    BY <2>1, NextIInv, NextFlow, TurnStep DEF MCInv
  <2>3. ASSUME ~signalled' PROVE Openings' /\ Undisturbed' /\ NoAbort'
    <3>1. ~signalled /\ [Client \/ Server]_vars
      BY <2>3 DEF MCNext, mcvars
    <3> QED
      BY <3>1, OpeningsStep, UndisturbedStep, NoAbortStep DEF MCInv
  <2> QED
    BY <2>2, <2>3 DEF MCInv
<1> QED
  BY <1>1, <1>2, PTL DEF MCSpec, mcvars

\* A run that nobody interrupts never fails in F_SETPIPE_SZ, in whichever order
\* the opens return, nor in evaluateClient's assertion, and when it is over every request has been answered, read
\* and counted, for every request size, rate, count and pipe size.
THEOREM RunIsComplete == MCSpec => []Complete
<1>1. MCInv => Complete
  <2> SUFFICES ASSUME MCInv, ~signalled PROVE Complete
    BY DEF Complete
  <2>1. IInv /\ PipesAgree /\ Undisturbed /\ NoAbort
    BY DEF MCInv
  <2>2. \A p \in Procs : pc[p] \notin {"dead", "aborted"}
    BY <2>1 DEF NoAbort, Undisturbed, Ending
  <2>3. ASSUME \A p \in Procs : pc[p] = "done"
        PROVE  /\ ReportedCount = Count
               /\ total["client"] = total["server"]
               /\ bytes["RESPONSE"] = 0
    <3>1. /\ pc["client"] = "done" /\ pc["server"] = "done"
          /\ total["client"] >= MaxBytes /\ total["server"] < MaxBytes + Window
      BY <2>1, <2>3 DEF Undisturbed, Passes, Closing, Procs
    <3>2. /\ ReadByClient = total["client"] /\ SentByServer = total["server"]
          /\ Received = total["client"] /\ Echoed = total["server"]
      BY <2>1, <3>1, Facts DEF ReadByClient, SentByServer, Received, Echoed, InRead, InWrite
    <3>3. total["client"] = total["server"]
      BY <2>1, <3>1, <3>2, Facts, MaxBytesType, WindowType DEF Undisturbed, Exchange
    <3>4. bytes["RESPONSE"] = 0
      BY <2>1, <3>2, <3>3, Books
    <3>5. numReqsRead \in Nat /\ Size * Count <= Size * numReqsRead
      BY <2>1, <3>1 DEF Undisturbed, Answered, MaxBytes, IInv, TypeOK
    <3>6. Count <= numReqsRead
      BY <3>5, Cancel, SizesAssumption
    <3>7. ReportedCount = Count
      BY <3>5, <3>6, SizesAssumption DEF ReportedCount, Least
    <3> QED
      BY <3>3, <3>4, <3>7
  <2> QED
    BY <2>2, <2>3 DEF Complete
<1> QED
  BY <1>1, MCInvariance, PTL
=============================================================================
