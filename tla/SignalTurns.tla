---------------------------- MODULE SignalTurns ----------------------------
(***************************************************************************)
(* source/signal and source/pipe/pipe.c: both take turns by SIGUSR1 and    *)
(* SIGUSR2.  signal's programs are started by the launcher and exchange    *)
(* nothing else.  pipe is one program that forks its client; its server    *)
(* writes a message into the pipe before each signal.                      *)
(***************************************************************************)
EXTENDS Signals, FiniteSetsExt

CONSTANTS
    Count,         \* args->count
    MaxSize,       \* args->size is at most this
    PipeCapacity   \* bytes the pipe holds

ASSUME CountAssumption == Count \in Nat \ {0}
ASSUME SizeAssumption == MaxSize \in Nat \ {0}
ASSUME CapacityAssumption == PipeCapacity \in Nat \ {0}

VARIABLES
    bench,    \* which of the two programs runs
    size,     \* args->size
    count,    \* args->count of the client, which counts down in pipe
    message,  \* message of the server, which counts up
    written,  \* bytes of the current message fwrite and fflush have written
    bytes     \* bytes in the pipe

args == <<bench, size>>
stream == <<written, bytes>>
vars == <<pc, signals, args, count, message, stream>>

TypeOK ==
    /\ SignalsTypeOK
    /\ bench \in {"pipe", "signal"}
    /\ size \in 1..MaxSize
    /\ count \in 0..Count
    /\ message \in 0..Count
    /\ written \in 0..MaxSize
    /\ bytes \in 0..PipeCapacity

Init ==
    /\ SignalsInit
    /\ bench \in {"pipe", "signal"}
    /\ size \in 1..MaxSize
    /\ pc = IF bench = "pipe"
            THEN [launcher |-> "unborn", server |-> "fork", client |-> "unborn"]
            ELSE [launcher |-> "setup", server |-> "unborn", client |-> "unborn"]
    /\ count = Count
    /\ message = 0
    /\ written = 0
    /\ bytes = 0
-----------------------------------------------------------------------------
(***************************************************************************)
(* Start: fork() in pipe.c, execv in signal; then setup_..._signals.       *)
(***************************************************************************)

communicate ==
    /\ pc["server"] = "fork"
    /\ Fork("server", "client", "ignore", "ignore")
    /\ UNCHANGED <<args, count, message, stream>>

Setup(p, first) ==
    /\ \/ start_process(p, "ignore")
       \/ setup_ignored_signals(p, "ignore", "block")
       \/ setup_blocked_signals(p, "block", first)
    /\ UNCHANGED <<args, count, message, stream>>
-----------------------------------------------------------------------------
(***************************************************************************)
(* The server: server_communicate of pipe.c, communicate of signal         *)
(***************************************************************************)
Round == IF bench = "pipe" THEN "write" ELSE "notify"

\* Mutant: the wait before the loop is left out.
ServerStartsAtOnce ==
    /\ pc["server"] = "first"
    /\ Goto("server", Round)
    /\ UNCHANGED <<signals, args, count, message, stream>>

\* The wait before the loop
ServerFirstWait ==
    /\ wait_for_signal("server", "first", Round)
    /\ UNCHANGED <<args, count, message, stream>>

\* fwrite and fflush write what fits and wait for room for the rest.
ServerWrite ==
    LET piece == Min({size - written, PipeCapacity - bytes})
    IN /\ pc["server"] = "write"
       /\ piece > 0
       /\ bytes' = bytes + piece
       /\ IF written + piece = size
          THEN written' = 0 /\ Goto("server", "notify")
          ELSE written' = written + piece /\ UNCHANGED pc
       /\ UNCHANGED <<signals, args, count, message>>

ServerNotify ==
    /\ notify("server", "notify", "wait")
    /\ UNCHANGED <<args, count, message, stream>>

\* Mutant: the server goes on without its answer.
ServerWaitsNot ==
    /\ pc["server"] = "wait"
    /\ message' = message + 1
    /\ Goto("server", IF message' < Count THEN Round ELSE "done")
    /\ UNCHANGED <<signals, args, count, stream>>

\* The wait and the end of the round; after the last one, evaluate
ServerWait ==
    /\ message' = message + 1
    /\ wait_for_signal("server", "wait", IF message' < Count THEN Round ELSE "done")
    /\ UNCHANGED <<args, count, stream>>
-----------------------------------------------------------------------------
(***************************************************************************)
(* The client: client_communicate of pipe.c, communicate of signal         *)
(***************************************************************************)

\* "Set things in motion", "Tell the sever we can go"
ClientHello ==
    /\ notify("client", "hello", "wait")
    /\ UNCHANGED <<args, count, message, stream>>

ClientWait ==
    /\ wait_for_signal("client", "wait", IF bench = "pipe" THEN "read" ELSE "notify")
    /\ UNCHANGED <<args, count, message, stream>>

\* fread of a whole message, or of what is left when the server has closed
ClientRead ==
    /\ pc["client"] = "read"
    /\ bytes >= size \/ pc["server"] \in Ended
    /\ bytes' = bytes - Min({size, bytes})
    /\ Goto("client", "notify")
    /\ UNCHANGED <<signals, args, count, message, written>>

\* Mutant: pipe's client makes a round less.
ClientNotifyOneLess ==
    /\ count' = count - 1
    /\ notify("client", "notify", IF count > 2 \/ bench = "signal" THEN "wait" ELSE "done")
    /\ UNCHANGED <<args, message, stream>>

\* The signal and the end of the round.  signal's loop tests count and counts
\* down size, which nothing else reads: it has no last round.
ClientNotify ==
    /\ count' = IF bench = "pipe" THEN count - 1 ELSE count
    /\ notify("client", "notify", IF count' > 0 THEN "wait" ELSE "done")
    /\ UNCHANGED <<args, message, stream>>
-----------------------------------------------------------------------------
Server ==
    \/ communicate \/ Setup("server", "first")
    \/ ServerFirstWait \/ ServerWrite \/ ServerNotify \/ ServerWait

Client ==
    \/ Setup("client", "hello")
    \/ ClientHello \/ ClientWait \/ ClientRead \/ ClientNotify

Start == Launcher /\ UNCHANGED <<args, count, message, stream>>

Next == Start \/ Server \/ Client

\* Nothing stops a process but the calls it waits in.
Fairness == WF_vars(Start) /\ WF_vars(Server) /\ WF_vars(Client)

Spec == Init /\ [][Next]_vars /\ Fairness
-----------------------------------------------------------------------------
Peer(p) == CHOOSE q \in Children : q # p

\* Every signal counts: from the server's first one on, a process signals its
\* peer only when that one blocks the signal and has none pending, so that
\* no signal kills, is ignored or merges with an earlier one, although signals
\* do not queue.
EverySignalCounts ==
    [][\A p \in Children :
          pc[p] = "notify" /\ pc'[p] # "notify" =>
              /\ Exists(Peer(p))
              /\ Sent(p) \in blocked[Peer(p)] \ pending[Peer(p)]]_vars

\* A signal of the server starts a round.  pipe's client counts its answers;
\* signal's does not, and its answer is the signal the server takes.
pings == message + (IF pc["server"] = "wait" THEN 1 ELSE 0)
pongs == IF bench = "pipe"
         THEN Count - count
         ELSE message + (IF pc["server"] = "wait" /\ Own("server") \in pending["server"]
                         THEN 1 ELSE 0)

Turns == INSTANCE PingPong WITH Rounds <- Count

\* The processes take turns and never drift apart in their rounds, although
\* each counts its own and the client's first signal is one more than its
\* answers.
TakeTurns == Turns!Spec

\* The client's first signal finds the server waiting for it or about to.
ServerReady ==
    pc["client"] \in {"wait", "read", "notify", "done"} =>
        Own("server") \in blocked["server"]

\* The benchmark ends unless the client's first signal came before the server
\* had blocked it, or pipe's message does not fit into the pipe: its client
\* reads nothing before the signal that follows the whole message.  Of signal
\* this is said of the server; its client and with it the launcher never end.
OnlyEarlyHelloHangs ==
    [](ServerReady /\ (bench = "pipe" => size <= PipeCapacity)) =>
        <>(pc["server"] = "done" /\ (bench = "pipe" => pc["client"] = "done"))
=============================================================================
