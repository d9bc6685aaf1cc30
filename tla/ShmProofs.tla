----------------------------- MODULE ShmProofs -----------------------------
(***************************************************************************)
(* Mutual exclusion of Shm for every Count and any number of killed runs,  *)
(* and the round trip of every message on a new segment.                   *)
(***************************************************************************)
EXTENDS Shm, TLAPS

\* A process inside its turn owns the guard: only it changes the guard next.
\* The client's atomic_init is the exception, and harmless to exclusion because
\* it writes the value the server's turn needs.
IInv ==
    /\ pc \in [Procs -> ClientLabels \cup ServerLabels]
    /\ pc["server"] \in {"write", "read", "notify"} => guard = "s"
    /\ pc["client"] \in {"read", "write", "notify"} => guard = "c"

USE DEF Procs, ClientLabels, ServerLabels

\* No step of either loop, and no restart, breaks the ownership of the guard.
LEMMA NextIInv == IInv /\ [Next]_vars => IInv'
<1> SUFFICES ASSUME IInv, [Next]_vars PROVE IInv'
  OBVIOUS
<1> USE DEF IInv, Goto
<1>1. CASE Client
  BY <1>1 DEF Client, ClientInit, ClientWait, ClientRead, ClientWrite, ClientNotify
<1>2. CASE Server
  BY <1>2 DEF Server, ServerFirstWait, ServerWrite, ServerNotify, ServerWait,
              ServerRead, ServerCleanup
<1>3. CASE KillAndRestart
  BY <1>3 DEF KillAndRestart
<1>4. CASE UNCHANGED vars
  BY <1>4 DEF vars
<1> QED
  BY <1>1, <1>2, <1>3, <1>4 DEF Next

\* The server's and the client's accesses to the segment exclude each other.
THEOREM AccessIsExclusive == Spec => []Exclusive
<1>1. Init => IInv
  BY DEF Init, IInv
<1>2. IInv => Exclusive
  BY DEF IInv, Exclusive, Touching
<1> QED
  BY <1>1, <1>2, NextIInv, PTL DEF Spec
-----------------------------------------------------------------------------
(***************************************************************************)
(* The round trip.  On a new segment a round is at one place at a time:    *)
(* with the server (r messages exchanged, the client waits), with the      *)
(* client (guard 'c'), or on its way back (guard 's', the answer written). *)
(***************************************************************************)
Counted ==
    /\ count \in 0..Count
    /\ message \in 0..Count
    /\ data \in Messages
    /\ got \in [Procs -> Messages]

\* Both loops have done r rounds.
Rounds(r) == count = Count - r /\ message = r

WithServer ==
    /\ pc["server"] \in {"write", "notify"}
    /\ guard = "s"
    /\ pc["client"] = "wait"
    /\ Rounds(message)
    /\ message < Count
    /\ message > 0 => got["server"] = <<"client", message>>
    /\ pc["server"] = "notify" => data = <<"server", message + 1>>

WithClient ==
    /\ pc["server"] = "wait"
    /\ guard = "c"
    /\ Rounds(message)
    /\ message < Count
    /\ message > 0 => got["server"] = <<"client", message>>
    /\ \/ pc["client"] \in {"wait", "read"} /\ data = <<"server", message + 1>>
       \/ pc["client"] = "write" /\ got["client"] = <<"server", message + 1>>
       \/ /\ pc["client"] = "notify"
          /\ got["client"] = <<"server", message + 1>>
          /\ data = <<"client", message + 1>>

Answered ==
    /\ pc["server"] \in {"wait", "read"}
    /\ guard = "s"
    /\ message < Count
    /\ count = Count - (message + 1)
    /\ data = <<"client", message + 1>>
    /\ message > 0 => got["server"] = <<"client", message>>
    /\ pc["client"] = IF count > 0 THEN "wait" ELSE "done"

Starting ==
    /\ pc["server"] = "first"
    /\ Rounds(0)
    /\ \/ pc["client"] = "init" /\ guard = "0"
       \/ pc["client"] = "wait" /\ guard = "s"

Over ==
    /\ pc["server"] \in {"cleanup", "done"}
    /\ pc["client"] = "done"
    /\ Rounds(Count)
    /\ got["server"] = <<"client", Count>>

RInv ==
    /\ IInv
    /\ kills \in Nat
    /\ kills = 0 =>
          Counted /\ (Starting \/ WithServer \/ WithClient \/ Answered \/ Over)

\* A new segment holds neither value of the guard that a process waits for.
LEMMA InitRInv == Init => RInv
BY CountAssumption DEF Init, RInv, IInv, Counted, Messages, Nothing, Starting, Rounds

\* Every step on a new segment moves the round on to its next place.
LEMMA NextRInv == RInv /\ [Next]_vars => RInv'
<1> SUFFICES ASSUME RInv, [Next]_vars PROVE RInv'
  OBVIOUS
<1> USE CountAssumption, KillsAssumption DEF RInv, Counted, Messages, Nothing, Rounds, Goto
<1>0. IInv'
  BY NextIInv
<1>p. pc \in [Procs -> ClientLabels \cup ServerLabels]
  BY DEF IInv
<1>1. CASE ClientInit
  <2> SUFFICES ASSUME kills' = 0 PROVE Counted' /\ Starting'
    BY <1>0, <1>1 DEF ClientInit
  <2>1. Counted /\ Starting
    BY <1>1 DEF ClientInit, Starting, WithServer, WithClient, Answered, Over
  <2> QED
    BY <1>p, <1>1, <2>1 DEF ClientInit, Starting
<1>2. CASE ClientWait
  <2> SUFFICES ASSUME kills' = 0 PROVE Counted' /\ WithClient'
    BY <1>0, <1>2 DEF ClientWait
  <2>1. Counted /\ WithClient
    BY <1>2 DEF ClientWait, Starting, WithServer, WithClient, Answered, Over
  <2> QED
    BY <1>p, <1>2, <2>1 DEF ClientWait, WithClient
<1>3. CASE ClientRead
  <2> SUFFICES ASSUME kills' = 0 PROVE Counted' /\ WithClient'
    BY <1>0, <1>3 DEF ClientRead
  <2>1. Counted /\ WithClient
    BY <1>3 DEF ClientRead, Starting, WithServer, WithClient, Answered, Over
  <2> QED
    BY <1>p, <1>3, <2>1 DEF ClientRead, WithClient
<1>4. CASE ClientWrite
  <2> SUFFICES ASSUME kills' = 0 PROVE Counted' /\ WithClient'
    BY <1>0, <1>4 DEF ClientWrite
  <2>1. Counted /\ WithClient
    BY <1>4 DEF ClientWrite, Starting, WithServer, WithClient, Answered, Over
  <2> QED
    BY <1>p, <1>4, <2>1 DEF ClientWrite, WithClient
<1>5. CASE ClientNotify
  <2> SUFFICES ASSUME kills' = 0 PROVE Counted' /\ Answered'
    BY <1>0, <1>5 DEF ClientNotify
  <2>1. Counted /\ WithClient
    BY <1>5 DEF ClientNotify, Starting, WithServer, WithClient, Answered, Over
  <2> QED
    BY <1>p, <1>5, <2>1 DEF ClientNotify, WithClient, Answered
<1>6. CASE ServerFirstWait
  <2> SUFFICES ASSUME kills' = 0 PROVE Counted' /\ WithServer'
    BY <1>0, <1>6 DEF ServerFirstWait
  <2>1. Counted /\ Starting
    BY <1>6 DEF ServerFirstWait, Starting, WithServer, WithClient, Answered, Over
  <2> QED
    BY <1>p, <1>6, <2>1 DEF ServerFirstWait, Starting, WithServer
<1>7. CASE ServerWrite
  <2> SUFFICES ASSUME kills' = 0 PROVE Counted' /\ WithServer'
    BY <1>0, <1>7 DEF ServerWrite
  <2>1. Counted /\ WithServer
    BY <1>7 DEF ServerWrite, Starting, WithServer, WithClient, Answered, Over
  <2> QED
    BY <1>p, <1>7, <2>1 DEF ServerWrite, WithServer
<1>8. CASE ServerNotify
  <2> SUFFICES ASSUME kills' = 0 PROVE Counted' /\ WithClient'
    BY <1>0, <1>8 DEF ServerNotify
  <2>1. Counted /\ WithServer
    BY <1>8 DEF ServerNotify, Starting, WithServer, WithClient, Answered, Over
  <2> QED
    BY <1>p, <1>8, <2>1 DEF ServerNotify, WithServer, WithClient
<1>9. CASE ServerWait
  <2> SUFFICES ASSUME kills' = 0 PROVE Counted' /\ Answered'
    BY <1>0, <1>9 DEF ServerWait
  <2>1. Counted /\ Answered
    BY <1>9 DEF ServerWait, Starting, WithServer, WithClient, Answered, Over
  <2> QED
    BY <1>p, <1>9, <2>1 DEF ServerWait, Answered
<1>10. CASE ServerRead
  <2> SUFFICES ASSUME kills' = 0 PROVE Counted' /\ (WithServer' \/ Over')
    BY <1>0, <1>10 DEF ServerRead
  <2>1. Counted /\ Answered
    BY <1>10 DEF ServerRead, Starting, WithServer, WithClient, Answered, Over
  <2> QED
    BY <1>p, <1>10, <2>1 DEF ServerRead, Answered, WithServer, Over
<1>11. CASE ServerCleanup
  <2> SUFFICES ASSUME kills' = 0 PROVE Counted' /\ Over'
    BY <1>0, <1>11 DEF ServerCleanup
  <2>1. Counted /\ Over
    BY <1>11 DEF ServerCleanup, Starting, WithServer, WithClient, Answered, Over
  <2> QED
    BY <1>p, <1>11, <2>1 DEF ServerCleanup, Over
<1>12. CASE KillAndRestart
  BY <1>0, <1>12 DEF KillAndRestart
<1>13. CASE UNCHANGED vars
  BY <1>0, <1>13 DEF vars, Starting, WithServer, WithClient, Answered, Over
<1> QED
  BY <1>1, <1>2, <1>3, <1>4, <1>5, <1>6, <1>7, <1>8, <1>9, <1>10, <1>11, <1>12, <1>13
     DEF Next, Client, Server

\* On a new segment what a process of shm has copied when its turn ends is the
\* other one's message of the same round, for any number of rounds.
THEOREM MessagesRoundTrip == Spec => []RoundTrip
<1>1. RInv => RoundTrip
  BY CountAssumption DEF RInv, RoundTrip, Counted, Rounds, Starting, WithServer,
     WithClient, Answered, Over
<1> QED
  BY <1>1, InitRInv, NextRInv, PTL DEF Spec

\* As long as no run was killed the server never passes its first wait
\* before the client of the same run has set the guard, so the condition under
\* which every run ends (OnlyEarlyStartHangs) holds on a new segment.
THEOREM NewRunWaitsForClient == Spec => [](kills = 0 => WaitsForClient)
<1>1. RInv => (kills = 0 => WaitsForClient)
  BY DEF RInv, WaitsForClient, Starting, WithServer, WithClient, Answered, Over
<1> QED
  BY <1>1, InitRInv, NextRInv, PTL DEF Spec
=============================================================================
