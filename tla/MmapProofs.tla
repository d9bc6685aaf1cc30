----------------------------- MODULE MmapProofs -----------------------------
(***************************************************************************)
(* Mutual exclusion of Mmap for every Count and any number of killed runs, *)
(* and the round trip of every message through a new file.                 *)
(***************************************************************************)
EXTENDS Mmap, TLAPS

Turn == {"read", "write", "fill", "notify"}

\* A process inside its turn finds its own letter in the guard, or what its
\* memset has left there.  '*' belongs to either, so the turns exclude each
\* other by a conjunct of its own; the client's first mmap_notify is harmless
\* because it writes the letter of the only process that can be in a turn.
IInv ==
    /\ pc \in [Procs -> ClientLabels \cup ServerLabels]
    /\ pc["server"] \in {"read", "write"} => guard = "s"
    /\ pc["server"] \in {"fill", "notify"} => guard \in {"s", "*"}
    /\ pc["client"] \in {"read", "write"} => guard = "c"
    /\ pc["client"] \in {"fill", "notify"} => guard \in {"c", "*"}
    /\ ~(pc["server"] \in Turn /\ pc["client"] \in Turn)

USE DEF Procs, ClientLabels, ServerLabels, Turn

\* No step of either loop, and no restart, breaks the ownership of the guard.
LEMMA NextIInv == IInv /\ [Next]_vars => IInv'
<1> SUFFICES ASSUME IInv, [Next]_vars PROVE IInv'
  OBVIOUS
<1> USE DEF IInv, Goto
<1>1. CASE Client
  <2>1. CASE ClientWrite
    BY <2>1 DEF ClientWrite, Fill
  <2>2. CASE ClientFirstNotify
    BY <2>2 DEF ClientFirstNotify
  <2>3. CASE ClientOpen \/ ClientWait \/ ClientRead \/ ClientRemove
    BY <2>3 DEF ClientOpen, ClientWait, ClientRead, ClientRemove
  <2>4. CASE ClientNotify
    BY <2>4 DEF ClientNotify
  <2> QED
    BY <1>1, <2>1, <2>2, <2>3, <2>4 DEF Client
<1>2. CASE Server
  <2>1. CASE ServerWrite
    BY <2>1 DEF ServerWrite, Fill
  <2>2. CASE ServerOpen \/ ServerFirstWait \/ ServerWait
    BY <2>2 DEF ServerOpen, ServerFirstWait, ServerWait
  <2>3. CASE ServerRead
    BY <2>3 DEF ServerRead
  <2>4. CASE ServerNotify
    BY <2>4 DEF ServerNotify
  <2> QED
    BY <1>2, <2>1, <2>2, <2>3, <2>4 DEF Server
<1>3. CASE KillAndRestart
  BY <1>3 DEF KillAndRestart
<1>4. CASE UNCHANGED vars
  BY <1>4 DEF vars
<1> QED
  BY <1>1, <1>2, <1>3, <1>4 DEF Next

\* The server's and the client's accesses to the file exclude each other, for
\* any number of rounds and of killed runs, although each memset of
\* communicate destroys the guard.
THEOREM AccessIsExclusive == Spec => []Exclusive
<1>1. Init => IInv
  BY DEF Init, IInv
<1>2. IInv => Exclusive
  BY DEF IInv, Exclusive, Touching
<1> QED
  BY <1>1, <1>2, NextIInv, PTL DEF Spec
-----------------------------------------------------------------------------
(***************************************************************************)
(* The round trip.  On a new file a round is at one place at a time: with  *)
(* the server, with the client, or on its way back.  The guard alone does  *)
(* not tell which, for a memset leaves the same '*' in it on either side.  *)
(***************************************************************************)
Counted ==
    /\ count \in 0..Count
    /\ message \in 0..Count
    /\ data \in Messages
    /\ got \in [Procs -> Messages]

\* Both loops have done r rounds.
Rounds(r) == count = Count - r /\ message = r

\* The client writes the guard only once the server has made space for it.
Starting ==
    /\ pc["server"] \in {"open", "first"}
    /\ space => pc["server"] = "first"
    /\ Rounds(0)
    /\ \/ pc["client"] \in {"open", "first", "SIGBUS"} /\ guard = "0"
       \/ pc["client"] = "wait" /\ guard = "s" /\ pc["server"] = "first"

WithServer ==
    /\ pc["server"] \in {"write", "fill", "notify"}
    /\ pc["client"] = "wait"
    /\ Rounds(message)
    /\ message < Count
    /\ message > 0 => got["server"] = <<"client", message>>
    /\ pc["server"] = "notify" => data = <<"server", message + 1>>

WithClient ==
    /\ pc["server"] = "wait"
    /\ guard # "s"
    /\ Rounds(message)
    /\ message < Count
    /\ message > 0 => got["server"] = <<"client", message>>
    /\ \/ pc["client"] \in {"wait", "read"} /\ data = <<"server", message + 1>>
       \/ /\ pc["client"] \in {"write", "fill"}
          /\ got["client"] = <<"server", message + 1>>
       \/ /\ pc["client"] = "notify"
          /\ got["client"] = <<"server", message + 1>>
          /\ data = <<"client", message + 1>>

Answered ==
    /\ pc["server"] \in {"wait", "read"}
    /\ guard = "s"
    /\ message < Count
    /\ count = Count - (message + 1)
    /\ data = <<"client", message + 1>>
    /\ message > 0 => got["server"] = <<"client", message>>
    /\ IF count > 0 THEN pc["client"] = "wait" ELSE pc["client"] \in {"remove", "done"}

Over ==
    /\ pc["server"] = "done"
    /\ pc["client"] \in {"remove", "done"}
    /\ Rounds(Count)
    /\ got["server"] = <<"client", Count>>

RInv ==
    /\ IInv
    /\ kills \in Nat
    /\ kills = 0 =>
          Counted /\ (Starting \/ WithServer \/ WithClient \/ Answered \/ Over)

\* A new file holds neither value of the guard that a process waits for.
LEMMA InitRInv == Init => RInv
BY CountAssumption DEF Init, RInv, IInv, Counted, Messages, Nothing, Starting, Rounds

\* Every step on a new file moves the round on to its next place.
LEMMA NextRInv == RInv /\ [Next]_vars => RInv'
<1> SUFFICES ASSUME RInv, [Next]_vars PROVE RInv'
  OBVIOUS
<1> USE CountAssumption, KillsAssumption DEF RInv, Counted, Messages, Nothing, Rounds, Goto
<1>0. IInv'
  BY NextIInv
<1>p. pc \in [Procs -> ClientLabels \cup ServerLabels]
  BY DEF IInv
<1>1. CASE ClientOpen
  <2> SUFFICES ASSUME kills' = 0 PROVE Counted' /\ Starting'
    BY <1>0, <1>1 DEF ClientOpen
  <2>1. Counted /\ Starting
    BY <1>1 DEF ClientOpen, IInv, Starting, WithServer, WithClient, Answered, Over
  <2> QED
    BY <1>p, <1>1, <2>1 DEF ClientOpen, IInv, Starting
<1>2. CASE ClientFirstNotify
  <2> SUFFICES ASSUME kills' = 0 PROVE Counted' /\ Starting'
    BY <1>0, <1>2 DEF ClientFirstNotify
  <2>1. Counted /\ Starting
    BY <1>2 DEF ClientFirstNotify, IInv, Starting, WithServer, WithClient, Answered, Over
  <2> QED
    BY <1>p, <1>2, <2>1 DEF ClientFirstNotify, IInv, Starting
<1>3. CASE ClientWait
  <2> SUFFICES ASSUME kills' = 0 PROVE Counted' /\ WithClient'
    BY <1>0, <1>3 DEF ClientWait
  <2>1. Counted /\ WithClient
    BY <1>3 DEF ClientWait, IInv, Starting, WithServer, WithClient, Answered, Over
  <2> QED
    BY <1>p, <1>3, <2>1 DEF ClientWait, IInv, WithClient
<1>4. CASE ClientRead
  <2> SUFFICES ASSUME kills' = 0 PROVE Counted' /\ WithClient'
    BY <1>0, <1>4 DEF ClientRead
  <2>1. Counted /\ WithClient
    BY <1>4 DEF ClientRead, IInv, Starting, WithServer, WithClient, Answered, Over
  <2> QED
    BY <1>p, <1>4, <2>1 DEF ClientRead, IInv, WithClient
<1>5. CASE ClientWrite
  <2> SUFFICES ASSUME kills' = 0 PROVE Counted' /\ WithClient'
    BY <1>0, <1>5 DEF ClientWrite
  <2>1. Counted /\ WithClient
    BY <1>5 DEF ClientWrite, Fill, IInv, Starting, WithServer, WithClient, Answered, Over
  <2> QED
    BY <1>p, <1>5, <2>1 DEF ClientWrite, Fill, IInv, WithClient
<1>6. CASE ClientNotify
  <2> SUFFICES ASSUME kills' = 0 PROVE Counted' /\ Answered'
    BY <1>0, <1>6 DEF ClientNotify
  <2>1. Counted /\ WithClient
    BY <1>6 DEF ClientNotify, IInv, Starting, WithServer, WithClient, Answered, Over
  <2> QED
    BY <1>p, <1>6, <2>1 DEF ClientNotify, IInv, WithClient, Answered
<1>7. CASE ClientRemove
  <2> SUFFICES ASSUME kills' = 0 PROVE Counted' /\ (Answered' \/ Over')
    BY <1>0, <1>7 DEF ClientRemove
  <2>1. Counted /\ (Answered \/ Over)
    BY <1>7 DEF ClientRemove, IInv, Starting, WithServer, WithClient, Answered, Over
  <2> QED
    BY <1>p, <1>7, <2>1 DEF ClientRemove, IInv, Answered, Over
<1>8. CASE ServerOpen
  <2> SUFFICES ASSUME kills' = 0 PROVE Counted' /\ Starting'
    BY <1>0, <1>8 DEF ServerOpen
  <2>1. Counted /\ Starting
    BY <1>8 DEF ServerOpen, IInv, Starting, WithServer, WithClient, Answered, Over
  <2> QED
    BY <1>p, <1>8, <2>1 DEF ServerOpen, IInv, Starting
<1>9. CASE ServerFirstWait
  <2> SUFFICES ASSUME kills' = 0 PROVE Counted' /\ WithServer'
    BY <1>0, <1>9 DEF ServerFirstWait
  <2>1. Counted /\ Starting
    BY <1>9 DEF ServerFirstWait, IInv, Starting, WithServer, WithClient, Answered, Over
  <2> QED
    BY <1>p, <1>9, <2>1 DEF ServerFirstWait, IInv, Starting, WithServer
<1>10. CASE ServerWrite
  <2> SUFFICES ASSUME kills' = 0 PROVE Counted' /\ WithServer'
    BY <1>0, <1>10 DEF ServerWrite
  <2>1. Counted /\ WithServer
    BY <1>10 DEF ServerWrite, Fill, IInv, Starting, WithServer, WithClient, Answered, Over
  <2> QED
    BY <1>p, <1>10, <2>1 DEF ServerWrite, Fill, IInv, WithServer
<1>11. CASE ServerNotify
  <2> SUFFICES ASSUME kills' = 0 PROVE Counted' /\ WithClient'
    BY <1>0, <1>11 DEF ServerNotify
  <2>1. Counted /\ WithServer
    BY <1>11 DEF ServerNotify, IInv, Starting, WithServer, WithClient, Answered, Over
  <2> QED
    BY <1>p, <1>11, <2>1 DEF ServerNotify, IInv, WithServer, WithClient
<1>12. CASE ServerWait
  <2> SUFFICES ASSUME kills' = 0 PROVE Counted' /\ Answered'
    BY <1>0, <1>12 DEF ServerWait
  <2>1. Counted /\ Answered
    BY <1>12 DEF ServerWait, IInv, Starting, WithServer, WithClient, Answered, Over
  <2> QED
    BY <1>p, <1>12, <2>1 DEF ServerWait, IInv, Answered
<1>13. CASE ServerRead
  <2> SUFFICES ASSUME kills' = 0 PROVE Counted' /\ (WithServer' \/ Over')
    BY <1>0, <1>13 DEF ServerRead
  <2>1. Counted /\ Answered
    BY <1>13 DEF ServerRead, IInv, Starting, WithServer, WithClient, Answered, Over
  <2> QED
    BY <1>p, <1>13, <2>1 DEF ServerRead, IInv, WithServer, Answered, Over
<1>14. CASE KillAndRestart
  BY <1>0, <1>14 DEF KillAndRestart
<1>15. CASE UNCHANGED vars
  BY <1>0, <1>15 DEF vars, Starting, WithServer, WithClient, Answered, Over
<1> QED
  BY <1>1, <1>2, <1>3, <1>4, <1>5, <1>6, <1>7, <1>8, <1>9, <1>10,
     <1>11, <1>12, <1>13, <1>14, <1>15
     DEF Next, Client, Server

\* On a new file what a process of mmap has copied when its turn ends is the
\* other one's message of the same round, for any number of rounds and whatever
\* each memset does to the guard: a client too early for make_space ends the run
\* before the first round.
THEOREM MessagesRoundTrip == Spec => []RoundTrip
<1>1. RInv => RoundTrip
  BY CountAssumption DEF RInv, IInv, RoundTrip, Counted, Rounds, Starting, WithServer,
     WithClient, Answered, Over
<1> QED
  BY <1>1, InitRInv, NextRInv, PTL DEF Spec

\* As long as no run was killed the server never passes its first mmap_wait
\* before the client of the same run has set the guard, so the condition under
\* which every run ends (OnlyEarlyStartHangs) holds on a new file.
THEOREM NewRunWaitsForClient == Spec => [](kills = 0 => WaitsForClient)
<1>1. RInv => (kills = 0 => WaitsForClient)
  BY DEF RInv, WaitsForClient, Starting, WithServer, WithClient, Answered, Over
<1> QED
  BY <1>1, InitRInv, NextRInv, PTL DEF Spec
=============================================================================
