------------------------------ MODULE EpollEcho ------------------------------
(***************************************************************************)
(* ch09/chattingProgram/ex06.c: a single-threaded echo server over an edge-*)
(* triggered epoll set with non-blocking sockets.  An edge is reported once*)
(* so each client of a batch is read from until read() finds nothing.  One *)
(* buffer serves all clients; a chunk after which the buffer begins with   *)
(* "..." closes the connection.                                            *)
(*                                                                         *)
(* A byte is [n, dot]: the n-th byte sent by any client, and whether it is *)
(* a '.'.  Clients are named by the one connection they make.              *)
(***************************************************************************)
EXTENDS Integers, Sequences, FiniteSets, SequencesExt

CONSTANTS Client,     \* the clients, one connection each
          MAX_LINE,   \* size of the buffer
          SendBuf,    \* bytes a client may leave unread in its socket
          MaxBytes    \* bound on the bytes sent

Listener == "listensd"

\* What the constants must satisfy.
SizesAssumption ==
  /\ IsFiniteSet(Client) /\ Listener \notin Client
  /\ MAX_LINE \in Nat /\ MAX_LINE >= 3 /\ SendBuf \in Nat \ {0} /\ MaxBytes \in Nat

VARIABLES
  peer,    \* peer[c]: "new", "backlog", "gone" if it closed in the backlog, "connected",
           \* "closed", or "reset" if the next write to it kills
  open,    \* clients whose descriptor is open in the server
  inbox,   \* inbox[c]: bytes of client c the server has not read
  sent,    \* number of bytes sent so far
  edge,    \* clients with an edge epoll_wait() has not reported yet
  batch,   \* client_list[i..res-1]: the entries still to be handled
  spc,     \* the server: "wait", "batch" or "dead"
  buffer,  \* for each position of buffer[], whether it holds a '.'
  echoed,  \* echoed[c]: bytes the server has written to client c
  unread   \* unread[c]: how many of them the client has not read

vars == <<peer, open, inbox, sent, edge, batch, spc, buffer, echoed, unread>>

Init ==
  /\ peer = [c \in Client |-> "new"]
  /\ open = {}
  /\ inbox = [c \in Client |-> <<>>]
  /\ sent = 0
  /\ edge = {}
  /\ batch = <<>> /\ spc = "wait"
  /\ buffer \in [1..MAX_LINE -> BOOLEAN]     \* char buffer[MAX_LINE]; has no initial value
  /\ echoed = [c \in Client |-> <<>>]
  /\ unread = [c \in Client |-> 0]

------------------------------------------------------------------------------
\* The clients.

Connect(c) ==
  /\ peer[c] = "new"
  /\ peer' = [peer EXCEPT ![c] = "backlog"]
  /\ UNCHANGED <<open, inbox, sent, edge, batch, spc, buffer, echoed, unread>>

\* New input, or end-of-file, raises an edge on a descriptor of the epoll set.
Raised(c) == IF c \in open THEN edge \cup {c} ELSE edge

Send(c, dot) ==
  /\ peer[c] \in {"backlog", "connected"}
  /\ sent < MaxBytes
  /\ sent' = sent + 1
  /\ inbox' = [inbox EXCEPT ![c] = Append(@, [n |-> sent', dot |-> dot])]
  /\ edge' = Raised(c)
  /\ UNCHANGED <<peer, open, batch, spc, buffer, echoed, unread>>

\* A client may close before it is accepted.  One that closes with data unread, or on its
\* way, resets the connection.
Close(c) ==
  /\ peer[c] \in {"backlog", "connected"}
  /\ \E how \in IF peer[c] = "backlog" THEN {"gone"} ELSE {"closed", "reset"} :
       /\ how = "reset" => unread[c] > 0
       /\ peer' = [peer EXCEPT ![c] = how]
  /\ edge' = Raised(c)
  /\ UNCHANGED <<open, inbox, sent, batch, spc, buffer, echoed, unread>>

ReadEcho(c) ==
  /\ peer[c] = "connected"
  /\ unread[c] > 0
  /\ unread' = [unread EXCEPT ![c] = 0]
  /\ UNCHANGED <<peer, open, inbox, sent, edge, batch, spc, buffer, echoed>>

------------------------------------------------------------------------------
\* The server.

Waiting == {c \in Client : peer[c] \in {"backlog", "gone"}}

EpollWait ==
  /\ spc = "wait"
  /\ LET ready == edge \cup IF Waiting # {} THEN {Listener} ELSE {}
     IN  /\ ready # {}
         /\ batch' \in SetToSeqs(ready)
  /\ edge' = {}
  /\ spc' = "batch"
  /\ UNCHANGED <<peer, open, inbox, sent, buffer, echoed, unread>>

NextEntry ==
  /\ batch' = Tail(batch)
  /\ spc' = IF batch' = <<>> THEN "wait" ELSE "batch"

\* accept(), non-blocking mode, and EPOLL_CTL_ADD, which raises the edge for what
\* has arrived already, end-of-file included.
Accept ==
  /\ spc = "batch" /\ Head(batch) = Listener
  /\ \E c \in Waiting :
       /\ peer' = [peer EXCEPT ![c] = IF @ = "gone" THEN "closed" ELSE "connected"]
       /\ open' = open \cup {c}
       /\ edge' = IF inbox[c] # <<>> \/ peer[c] = "gone" THEN edge \cup {c} ELSE edge
  /\ NextEntry
  /\ UNCHANGED <<inbox, sent, buffer, echoed, unread>>

\* done: the descriptor leaves the epoll set and is closed.
CloseClient(c) ==
  /\ open' = open \ {c}
  /\ edge' = edge \ {c}
  /\ NextEntry

\* read() returned 0, or -1 with EAGAIN.
ReadNothing ==
  /\ spc = "batch" /\ Head(batch) # Listener
  /\ LET c == Head(batch)
     IN  /\ inbox[c] = <<>>
         /\ IF peer[c] = "connected" THEN NextEntry /\ UNCHANGED <<open, edge>>
                                     ELSE CloseClient(c)
  /\ UNCHANGED <<peer, inbox, sent, buffer, echoed, unread>>

\* Where the loop goes after a chunk was echoed: read again.  Mutation: one read
\* for each edge.
OneReadPerEdge == NextEntry
ReadAgain == UNCHANGED <<batch, spc>>

\* The bytes of a chunk write() takes when there is room for so many; the rest of
\* a short write is forgotten.  Mutation: after a short write the whole chunk is
\* written again.
WrittenAgain(chunk, room) == IF Len(chunk) <= room THEN chunk
                             ELSE SubSeq(chunk, 1, room) \o chunk
Written(chunk, room) == IF Len(chunk) <= room THEN chunk ELSE SubSeq(chunk, 1, room)

\* A chunk is read over the beginning of the buffer; what is behind it is left
\* from earlier chunks, of any client.  It is echoed unless the buffer begins with
\* "...".  A full socket (EAGAIN) ends the server with exit(1), a write after a
\* reset, the answer of a client that has closed, with SIGPIPE.
ReadChunk ==
  /\ spc = "batch" /\ Head(batch) # Listener
  /\ LET c == Head(batch)
         readn == IF Len(inbox[c]) < MAX_LINE THEN Len(inbox[c]) ELSE MAX_LINE
         chunk == SubSeq(inbox[c], 1, readn)
         out == Written(chunk, SendBuf - unread[c])
     IN  /\ readn > 0
         /\ inbox' = [inbox EXCEPT ![c] = SubSeq(@, readn + 1, Len(@))]
         /\ buffer' = [k \in 1..MAX_LINE |-> IF k <= readn THEN chunk[k].dot ELSE buffer[k]]
         /\ \/ /\ \A k \in 1..3 : buffer'[k]
               /\ CloseClient(c)
               /\ UNCHANGED <<peer, echoed, unread>>
            \/ /\ \E k \in 1..3 : ~buffer'[k]
               /\ unread[c] = SendBuf \/ peer[c] = "reset"
               /\ spc' = "dead"
               /\ UNCHANGED <<peer, open, edge, batch, echoed, unread>>
            \/ /\ \E k \in 1..3 : ~buffer'[k]
               /\ unread[c] < SendBuf /\ peer[c] # "reset"
               /\ echoed' = [echoed EXCEPT ![c] = @ \o out]
               /\ unread' = [unread EXCEPT ![c] = @ + Len(out)]
               /\ \E answer \in {peer[c], "reset"} :
                    /\ answer = "reset" => peer[c] = "closed"
                    /\ peer' = [peer EXCEPT ![c] = answer]
               /\ ReadAgain
               /\ UNCHANGED <<open, edge>>
  /\ UNCHANGED sent

Server == EpollWait \/ Accept \/ ReadNothing \/ ReadChunk

------------------------------------------------------------------------------
Next ==
  \/ \E c \in Client : Connect(c) \/ Close(c) \/ ReadEcho(c)
  \/ \E c \in Client, dot \in BOOLEAN : Send(c, dot)
  \/ Server

Spec == Init /\ [][Next]_vars

\* The server is scheduled; clients do as they like.
Fairness == WF_vars(Server)

FairSpec == Spec /\ Fairness

------------------------------------------------------------------------------
\* Properties.

\* Every variable stays in its range; a socket never holds more than SendBuf.
TypeOK ==
  /\ peer \in [Client -> {"new", "backlog", "gone", "connected", "closed", "reset"}]
  /\ open \subseteq Client /\ edge \subseteq open
  /\ sent \in 0..MaxBytes
  /\ Range(batch) \subseteq Client \cup {Listener}
  /\ spc \in {"wait", "batch", "dead"}
  /\ buffer \in [1..MAX_LINE -> BOOLEAN]
  /\ unread \in [Client -> 0..SendBuf]

\* Whenever the server goes to sleep, an open connection with input or end-of-file
\* has an edge that wakes it: no edge was used up with something left to read.
NoLostEdge ==
  spc = "wait" =>
    \A c \in open : inbox[c] # <<>> \/ peer[c] # "connected" => c \in edge

\* The shared buffer mixes no data: a client gets bytes back in the order in which
\* it sent them, none twice, and none it sent after bytes the server still has.
EchoInOrder ==
  \A c \in Client :
    /\ \A i, j \in DOMAIN echoed[c] : i < j => echoed[c][i].n < echoed[c][j].n
    /\ \A i \in DOMAIN echoed[c], j \in DOMAIN inbox[c] : echoed[c][i].n < inbox[c][j].n

\* Everything that arrives on an open connection is read and every close noticed,
\* unless the server ends.
AllRead ==
  \A c \in Client :
    []<>(c \in open => (inbox[c] = <<>> /\ peer[c] = "connected") \/ spc = "dead")
==============================================================================
