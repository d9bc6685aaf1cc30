-------------------------- MODULE EventfdBiProofs --------------------------
(***************************************************************************)
(* Theorems about EventfdBi, for every Count.                              *)
(***************************************************************************)
EXTENDS EventfdBi, Integers, TLAPS

\* A round has begun and the server has not answered it.
Asked ==
    /\ count > 0
    /\ message = Count - count

\* The server has answered the round and the client has not seen it.
Answered ==
    /\ count > 0
    /\ message = Count - count + 1

\* Where the one token is.
Phase ==
    \/ /\ pc["client"] = "notify" /\ pc["server"] = "wait"
       /\ counter = 0 /\ Asked
    \/ /\ pc["client"] = "wait" /\ pc["server"] = "wait"
       /\ counter = SERVER_TOKEN /\ Asked
    \/ /\ pc["client"] = "putback" /\ pc["server"] = "wait"
       /\ counter = 0 /\ stored["client"] = SERVER_TOKEN /\ Asked
    \/ /\ pc["client"] = "wait" /\ pc["server"] = "notify"
       /\ counter = 0 /\ Asked
    \/ /\ pc["client"] = "wait"
       /\ pc["server"] = IF message < Count THEN "wait" ELSE "done"
       /\ counter = CLIENT_TOKEN /\ Answered
    \/ /\ pc["client"] = "wait" /\ pc["server"] = "putback"
       /\ counter = 0 /\ stored["server"] = CLIENT_TOKEN /\ Answered
       /\ message < Count
    \/ /\ pc["client"] = "done" /\ pc["server"] = "done"
       /\ counter = 0 /\ count = 0 /\ message = Count

IInv == TypeOK /\ Phase

USE DEF Procs, SERVER_TOKEN, CLIENT_TOKEN

\* The first round is asked for by no token yet.
LEMMA InitIInv == Init => IInv
BY CountAssumption DEF Init, IInv, TypeOK, Phase, Asked, Answered, Labels

\* Every read, write-back and notify moves the one token to the next place of
\* Phase.
LEMMA NextIInv == IInv /\ [Next]_vars => IInv'
<1> SUFFICES ASSUME IInv, [Next]_vars PROVE IInv'
  OBVIOUS
<1> USE CountAssumption
    DEF IInv, TypeOK, Phase, Asked, Answered, Labels, Wanted, Goto
<1>1. CASE ClientNotify
  BY <1>1 DEF ClientNotify
<1>2. CASE ServerNotify
  BY <1>2 DEF ServerNotify
<1>3. CASE ReadOther("client")
  BY <1>3 DEF ReadOther
<1>4. CASE ReadOther("server")
  BY <1>4 DEF ReadOther
<1>5. CASE WriteBack("client")
  BY <1>5 DEF WriteBack
<1>6. CASE WriteBack("server")
  BY <1>6 DEF WriteBack
<1>7. CASE ClientReadWanted
  BY <1>7 DEF ClientReadWanted
<1>8. CASE ServerReadWanted
  BY <1>8 DEF ServerReadWanted
<1>9. CASE UNCHANGED vars
  BY <1>9 DEF vars
<1> QED
  BY <1>1, <1>2, <1>3, <1>4, <1>5, <1>6, <1>7, <1>8, <1>9 DEF Next, Client, Server

\* The phases are an inductive invariant of both loops.
LEMMA Invariance == Spec => []IInv
BY InitIInv, NextIInv, PTL DEF Spec

\* The eventfd never holds two tokens at once, so its value is always one that
\* one of the two eventfd_wait calls wants, and the token is never lost.
THEOREM TokenIsUnique == Spec => []OneToken
<1>1. IInv => OneToken
  BY DEF IInv, TypeOK, Phase, Asked, Answered, OneToken, Held, Wanted
<1> QED
  BY <1>1, Invariance, PTL

\* A notify is a Ping or a Pong of PingPong, every other step stutters.
LEMMA NextTurns == IInv /\ [Next]_vars => [Pairs!Next]_(Pairs!vars)
<1> SUFFICES ASSUME IInv, [Next]_vars PROVE [Pairs!Next]_(Pairs!vars)
  OBVIOUS
<1> USE CountAssumption
    DEF IInv, TypeOK, Phase, Asked, Answered, Wanted, Goto,
        Pairs!Next, Pairs!Ping, Pairs!Pong, Pairs!vars
<1>1. CASE ClientNotify
  BY <1>1 DEF ClientNotify
<1>2. CASE ServerNotify
  BY <1>2 DEF ServerNotify
<1>3. CASE ReadOther("client") \/ ReadOther("server")
  BY <1>3 DEF ReadOther
<1>4. CASE WriteBack("client") \/ WriteBack("server")
  BY <1>4 DEF WriteBack
<1>5. CASE ClientReadWanted
  BY <1>5 DEF ClientReadWanted
<1>6. CASE ServerReadWanted
  BY <1>6 DEF ServerReadWanted
<1>7. CASE UNCHANGED vars
  BY <1>7 DEF vars
<1> QED
  BY <1>1, <1>2, <1>3, <1>4, <1>5, <1>6, <1>7 DEF Next, Client, Server

\* eventfd-bi implements PingPong: the processes take turns.
THEOREM EventfdTakesTurns == Spec => TakeTurns
<1>1. Init => Pairs!Init
  BY CountAssumption DEF Init, Pairs!Init
<1> QED
  BY <1>1, Invariance, NextTurns, PTL DEF Spec, TakeTurns, Pairs!Spec
=============================================================================
