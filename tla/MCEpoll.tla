------------------------------- MODULE MCEpoll -------------------------------
(***************************************************************************)
(* Model-checking instance of the two epoll servers, EpollChat and         *)
(* EpollEcho.  A behaviour is a run of one of them; the clients of the     *)
(* other never connect.  See MCEpoll.cfg.                                  *)
(***************************************************************************)
EXTENDS EpollChat

CONSTANTS Third, CrowdSends,                       \* EpollChat: see Within
          EchoClient, MAX_LINE, SendBuf, MaxBytes  \* EpollEcho

VARIABLES
  server,  \* what runs: "chat" or "echo"
  peer2, open, inbox2, sent, edge, batch2, spc2, buffer, echoed, unread2

echoVars == <<peer2, open, inbox2, sent, edge, batch2, spc2, buffer, echoed, unread2>>

Echo == INSTANCE EpollEcho
          WITH Client <- EchoClient, peer <- peer2, inbox <- inbox2,
               batch <- batch2, spc <- spc2, unread <- unread2

ASSUME EchoAssumption == Echo!SizesAssumption

EpollInit ==
  /\ server \in {"chat", "echo"} /\ Init /\ Echo!Init
  \* A buffer that is not used has one initial value.
  /\ server = "chat" => buffer = [k \in 1..MAX_LINE |-> FALSE]

\* Once the third client connects no more than CrowdSends messages are sent.
Within == peer'[Third] = "new" \/ sends' <= CrowdSends

EpollNext ==
  \/ server = "chat" /\ Next /\ Within /\ UNCHANGED <<server, echoVars>>
  \/ server = "echo" /\ Echo!Next /\ UNCHANGED <<server, vars>>

\* A server no client has connected to has nothing to do.
EpollSpec ==
  EpollInit /\ [][EpollNext]_<<server, vars, echoVars>> /\ Fairness /\ Echo!Fairness

\* Every variable of either server stays in its range.
EpollTypeOK == TypeOK /\ Echo!TypeOK

\* ex05.c and ex06.c: what comes out is what was sent, once and in order.
InOrderOnce == OrderedOnce /\ Echo!EchoInOrder

\* ex06.c: no edge is used up with something left to read.
NoLostEdge == Echo!NoLostEdge

\* ex05.c and ex06.c: whatever arrives is read and every close noticed, while the server
\* lives.
AllServed == ClientsServed /\ Echo!AllRead
==============================================================================
