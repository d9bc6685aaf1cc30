------------------------------ MODULE Signals ------------------------------
(***************************************************************************)
(* common/signals.c, common/parent.c and common/process.c: a launcher that *)
(* starts a server and a client in its own process group, and the SIGUSR1  *)
(* and SIGUSR2 they send to the whole group.  The launcher is taken to     *)
(* lead its process group, as a shell's job does; fork, setpgid and execv  *)
(* then succeed.                                                           *)
(***************************************************************************)
EXTENDS Naturals

Children == {"server", "client"}
Processes == Children \cup {"launcher"}
UserSignals == {"SIGUSR1", "SIGUSR2"}

VARIABLES
    pc,
    handled,  \* signals with a handler that does nothing
    blocked,  \* the signal mask
    pending   \* blocked signals that have arrived; a signal is pending once

signals == <<handled, blocked, pending>>

\* The labels that are over; a process that died of a signal is "killed", one
\* that called throw() is "failed".
Ended == {"done", "failed", "killed"}

SignalsTypeOK ==
    /\ DOMAIN pc = Processes
    /\ handled \in [Processes -> SUBSET UserSignals]
    /\ blocked \in [Processes -> SUBSET UserSignals]
    /\ \A p \in Processes : pending[p] \subseteq blocked[p]

SignalsInit ==
    /\ handled = [p \in Processes |-> {}]
    /\ blocked = [p \in Processes |-> {}]
    /\ pending = [p \in Processes |-> {}]

Goto(p, label) == pc' = [pc EXCEPT ![p] = label]

\* The signal p blocks and waits for, and which the other one sends.
Own(p) == IF p = "server" THEN "SIGUSR1" ELSE "SIGUSR2"
-----------------------------------------------------------------------------
(***************************************************************************)
(* signals.c                                                               *)
(***************************************************************************)

\* The other one's signal, which kill(0, ...) sends to the sender too, gets the
\* empty handler.
setup_ignored_signals(p, from, to) ==
    /\ pc[p] = from
    /\ handled' = [handled EXCEPT ![p] = @ \cup (UserSignals \ {Own(p)})]
    /\ Goto(p, to)
    /\ UNCHANGED <<blocked, pending>>

setup_blocked_signals(p, from, to) ==
    /\ pc[p] = from
    /\ blocked' = [blocked EXCEPT ![p] = @ \cup {Own(p)}]
    /\ Goto(p, to)
    /\ UNCHANGED <<handled, pending>>

\* What kill(0, sig) does to q: nothing if there is no q (any more) or it
\* handles sig, else q dies unless it blocks sig.
Exists(q) == pc[q] \notin Ended \cup {"unborn"}
Reached(q, sig) == Exists(q) /\ sig \in blocked[q]
DiesOf(q, sig) == Exists(q) /\ sig \notin blocked[q] \cup handled[q]

\* notify_server and notify_client: p sends the other one's signal to the group.
Sent(p) == CHOOSE sig \in UserSignals : sig # Own(p)

notify(p, from, to) ==
    /\ pc[p] = from
    /\ pending' = [q \in Processes |->
                     IF Reached(q, Sent(p)) THEN pending[q] \cup {Sent(p)}
                                            ELSE pending[q]]
    /\ pc' = [q \in Processes |->
                IF DiesOf(q, Sent(p)) THEN "killed"
                ELSE IF q = p THEN to ELSE pc[q]]
    /\ UNCHANGED <<handled, blocked>>

\* sigwait on the mask that setup_blocked_signals has left in sa_mask
wait_for_signal(p, from, to) ==
    /\ pc[p] = from
    /\ Own(p) \in pending[p]
    /\ pending' = [pending EXCEPT ![p] = @ \ {Own(p)}]
    /\ Goto(p, to)
    /\ UNCHANGED <<handled, blocked>>
-----------------------------------------------------------------------------
(***************************************************************************)
(* parent.c and process.c                                                  *)
(***************************************************************************)

setup_parent ==
    /\ pc["launcher"] = "setup"
    /\ handled' = [handled EXCEPT !["launcher"] = UserSignals]
    /\ Goto("launcher", "fork server")
    /\ UNCHANGED <<blocked, pending>>

\* fork(): the child has its parent's handlers and mask, and nothing pending.
Fork(parent, child, next, first) ==
    /\ handled' = [handled EXCEPT ![child] = handled[parent]]
    /\ blocked' = [blocked EXCEPT ![child] = blocked[parent]]
    /\ pending' = [pending EXCEPT ![child] = {}]
    /\ pc' = [pc EXCEPT ![parent] = next, ![child] = first]

\* start_children: the server first, then the client.
start_server ==
    /\ pc["launcher"] = "fork server"
    /\ Fork("launcher", "server", "fork client", "exec")

start_client ==
    /\ pc["launcher"] = "fork client"
    /\ Fork("launcher", "client", "wait server", "exec")

\* setpgid and execv of start_process: handlers do not survive an execv.
start_process(p, to) ==
    /\ pc[p] = "exec"
    /\ handled' = [handled EXCEPT ![p] = {}]
    /\ Goto(p, to)
    /\ UNCHANGED <<blocked, pending>>

\* The two waitpid calls, restarted when a signal is handled (SA_RESTART).
waitpid_server ==
    /\ pc["launcher"] = "wait server"
    /\ pc["server"] \in Ended
    /\ Goto("launcher", "wait client")
    /\ UNCHANGED signals

waitpid_client ==
    /\ pc["launcher"] = "wait client"
    /\ pc["client"] \in Ended
    /\ Goto("launcher", "done")
    /\ UNCHANGED signals

Launcher ==
    \/ setup_parent \/ start_server \/ start_client
    \/ waitpid_server \/ waitpid_client
=============================================================================
