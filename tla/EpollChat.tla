------------------------------ MODULE EpollChat ------------------------------
(***************************************************************************)
(* ch09/chattingProgram/ex05.c: a single-threaded chat server over a level-*)
(* triggered epoll set.  Each turn handles the batch of descriptors that   *)
(* epoll_wait() reported: the listening socket is accepted from once, a    *)
(* client is read from once, and what was read is written to the other     *)
(* clients of the same batch, one write() after the other.  The sockets are*)
(* blocking: a client that does not read what it gets fills its socket, and*)
(* the next write() to it waits, and with it the whole server.             *)
(*                                                                         *)
(* Clients connect, send numbered messages and close, at any time.  A      *)
(* read() takes what has arrived, up to the size of buf_in; accept()       *)
(* returns the lowest free descriptor, so a closed number is used again.   *)
(***************************************************************************)
EXTENDS Integers, Sequences, FiniteSets, SequencesExt

CONSTANTS Client,    \* the clients
          MaxFd,     \* bound on client descriptors, at least the number of clients
          BufIn,     \* messages that fit into buf_in
          Room,      \* writes a client may leave unread in its socket
          MaxSends   \* bound on the messages sent

Fd == 1..MaxFd
Listener == 0     \* sockfd
NoClient == "none"

ASSUME BoundsAssumption ==
  /\ IsFiniteSet(Client) /\ NoClient \notin Client
  /\ MaxFd \in Nat /\ Cardinality(Client) <= MaxFd
  /\ BufIn \in Nat \ {0} /\ Room \in Nat \ {0} /\ MaxSends \in Nat

VARIABLES
  backlog,   \* clients whose connection waits to be accepted
  peer,      \* peer[c]: "new", "connected", "closed"; "aborted" if it closed with data
             \* unread, which the next write to it learns; "reset" if that write kills
  inbox,     \* inbox[c]: messages of client c the server has not read
  sends,     \* number of messages sent so far
  unread,    \* unread[c]: number of writes client c has not read
  conn,      \* conn[fd]: the client behind an open descriptor, or NoClient
  batch,     \* client_list[i..n-1]: descriptors of the batch still to be handled
  reported,  \* client_list[0..n-1]: all descriptors of the batch
  chunk,     \* what is in buf_in
  todo,      \* client_list[j..n-1]: entries the loop over j has still to look at
  spc,       \* the server: "wait", "batch", "send" or "killed"
  got        \* got[c]: messages that have reached the socket of client c

clientVars == <<backlog, peer, inbox, sends, unread>>
vars == <<clientVars, conn, batch, reported, chunk, todo, spc, got>>

Init ==
  /\ backlog = <<>>
  /\ peer = [c \in Client |-> "new"]
  /\ inbox = [c \in Client |-> <<>>]
  /\ sends = 0
  /\ unread = [c \in Client |-> 0]
  /\ conn = [fd \in Fd |-> NoClient]
  /\ batch = <<>> /\ reported = <<>>
  /\ chunk = <<>> /\ todo = <<>>
  /\ spc = "wait"
  /\ got = [c \in Client |-> <<>>]

------------------------------------------------------------------------------
\* The clients.

Connect(c) ==
  /\ peer[c] = "new"
  /\ peer' = [peer EXCEPT ![c] = "connected"]
  /\ backlog' = Append(backlog, c)
  /\ UNCHANGED <<inbox, sends, unread, conn, batch, reported, chunk, todo, spc, got>>

\* Messages are numbered in the order in which they are sent.
Send(c) ==
  /\ peer[c] = "connected"
  /\ sends < MaxSends
  /\ sends' = sends + 1
  /\ inbox' = [inbox EXCEPT ![c] = Append(@, [from |-> c, n |-> sends'])]
  /\ UNCHANGED <<backlog, peer, unread, conn, batch, reported, chunk, todo, spc, got>>

\* A client reads what others have said.
ReadBroadcast(c) ==
  /\ peer[c] = "connected"
  /\ unread[c] > 0
  /\ unread' = [unread EXCEPT ![c] = 0]
  /\ UNCHANGED <<backlog, peer, inbox, sends, conn, batch, reported, chunk, todo, spc, got>>

\* With data in its socket a client that closes sends a reset at once; data still on
\* the way is answered with one.
Close(c) ==
  /\ peer[c] = "connected"
  /\ \E how \in {"closed", "aborted", "reset"} :
       /\ how # "closed" => unread[c] > 0
       /\ peer' = [peer EXCEPT ![c] = how]
  /\ unread' = [unread EXCEPT ![c] = 0]
  /\ UNCHANGED <<backlog, inbox, sends, conn, batch, reported, chunk, todo, spc, got>>

------------------------------------------------------------------------------
\* The server.

Open(fd) == conn[fd] # NoClient

\* Level-triggered: whatever can be accepted from or read from, end-of-file included.
Readable(fd) ==
  IF fd = Listener THEN backlog # <<>>
  ELSE Open(fd) /\ (inbox[conn[fd]] # <<>> \/ peer[conn[fd]] # "connected")

Ready == {fd \in Fd \cup {Listener} : Readable(fd)}

\* The kernel reports the ready descriptors in the order they became ready, that
\* is, in any order.
EpollWait ==
  /\ spc = "wait"
  /\ Ready # {}
  /\ batch' \in SetToSeqs(Ready)
  /\ reported' = batch'
  /\ spc' = "batch"
  /\ UNCHANGED <<clientVars, conn, chunk, todo, got>>

\* i++.  Mutation: the list of the batch is emptied with the first entry.
NextEntryResets ==
  /\ batch' = Tail(batch)
  /\ spc' = IF batch' = <<>> THEN "wait" ELSE "batch"
  /\ reported' = <<>>
NextEntry ==
  /\ batch' = Tail(batch)
  /\ spc' = IF batch' = <<>> THEN "wait" ELSE "batch"
  /\ reported' = IF batch' = <<>> THEN <<>> ELSE reported

\* accept() takes one connection; the descriptor is added to the epoll set.
Accept ==
  /\ spc = "batch" /\ Head(batch) = Listener
  /\ LET fd == CHOOSE f \in Fd : ~Open(f) /\ \A g \in Fd : g < f => Open(g)
     IN conn' = [conn EXCEPT ![fd] = Head(backlog)]
  /\ backlog' = Tail(backlog)
  /\ NextEntry
  /\ UNCHANGED <<peer, inbox, sends, unread, chunk, todo, got>>

\* read() <= 0, end-of-file or a reset: the descriptor leaves the epoll set and is
\* closed.  Mutation: the loop does not go on to the next entry.
ReadEndAgain ==
  /\ spc = "batch" /\ Head(batch) # Listener
  /\ inbox[conn[Head(batch)]] = <<>>
  /\ conn' = [conn EXCEPT ![Head(batch)] = NoClient]
  /\ UNCHANGED <<clientVars, batch, reported, chunk, todo, spc, got>>
ReadEnd ==
  /\ spc = "batch" /\ Head(batch) # Listener
  /\ inbox[conn[Head(batch)]] = <<>>
  /\ conn' = [conn EXCEPT ![Head(batch)] = NoClient]
  /\ NextEntry
  /\ UNCHANGED <<clientVars, chunk, todo, got>>

\* read() takes what has arrived, up to the size of buf_in, and the loop over j begins.
ReadChunk ==
  /\ spc = "batch" /\ Head(batch) # Listener
  /\ LET from == conn[Head(batch)]
         size == IF Len(inbox[from]) < BufIn THEN Len(inbox[from]) ELSE BufIn
     IN  /\ size > 0
         /\ chunk' = SubSeq(inbox[from], 1, size)
         /\ inbox' = [inbox EXCEPT ![from] = SubSeq(@, size + 1, Len(@))]
  /\ todo' = reported
  /\ spc' = "send"
  /\ UNCHANGED <<backlog, peer, sends, unread, conn, batch, reported, got>>

\* Whether the loop over j writes to a descriptor; a write to one that was closed in
\* the meantime fails and changes nothing.
IsTarget(f) == f \notin {Listener, Head(batch)} /\ Open(f)

Skip ==
  /\ spc = "send" /\ todo # <<>>
  /\ ~IsTarget(Head(todo))
  /\ todo' = Tail(todo)
  /\ UNCHANGED <<clientVars, conn, batch, reported, chunk, spc, got>>

\* write() to one target waits while its socket is full.  A target that has closed
\* answers with a reset, at once or later; what write() does after a reset depends on
\* whether the target had closed before: the first one fails, or SIGPIPE kills the server.
Write ==
  /\ spc = "send" /\ todo # <<>>
  /\ IsTarget(Head(todo))
  /\ LET c == conn[Head(todo)]
     IN  \/ /\ peer[c] = "connected" /\ unread[c] < Room
            /\ got' = [got EXCEPT ![c] = @ \o chunk]
            /\ unread' = [unread EXCEPT ![c] = @ + 1]
            /\ UNCHANGED <<peer, spc>>
         \/ /\ peer[c] = "closed"
            /\ \E how \in {"closed", "reset"} : peer' = [peer EXCEPT ![c] = how]
            /\ UNCHANGED <<unread, spc, got>>
         \/ /\ peer[c] = "aborted"
            /\ peer' = [peer EXCEPT ![c] = "reset"]
            /\ UNCHANGED <<unread, spc, got>>
         \/ /\ peer[c] = "reset"
            /\ spc' = "killed"
            /\ UNCHANGED <<peer, unread, got>>
  /\ todo' = Tail(todo)
  /\ UNCHANGED <<backlog, inbox, sends, conn, batch, reported, chunk>>

\* The loop over j has ended.
SendDone ==
  /\ spc = "send" /\ todo = <<>>
  /\ NextEntry
  /\ UNCHANGED <<clientVars, conn, chunk, todo, got>>

Server == EpollWait \/ Accept \/ ReadEnd \/ ReadChunk \/ Skip \/ Write \/ SendDone

------------------------------------------------------------------------------
Next ==
  \/ \E c \in Client : Connect(c) \/ Send(c) \/ ReadBroadcast(c) \/ Close(c)
  \/ Server

Spec == Init /\ [][Next]_vars

\* The server is scheduled; clients do as they like.
Fairness == WF_vars(Server)

FairSpec == Spec /\ Fairness

------------------------------------------------------------------------------
\* Properties.

\* Every variable stays in its range; no socket holds more than Room writes.
TypeOK ==
  /\ Range(backlog) \subseteq Client
  /\ peer \in [Client -> {"new", "connected", "closed", "aborted", "reset"}]
  /\ sends \in 0..MaxSends
  /\ unread \in [Client -> 0..Room]
  /\ conn \in [Fd -> Client \cup {NoClient}]
  /\ Range(batch) \cup Range(todo) \subseteq Range(reported)
  /\ Range(reported) \subseteq Fd \cup {Listener}
  /\ spc \in {"wait", "batch", "send", "killed"}
  /\ \A m \in Range(chunk) : m.from \in Client /\ m.n \in 1..MaxSends
  /\ \A c \in Client : \A m \in Range(got[c]) \cup Range(inbox[c]) :
       m.from \in Client /\ m.n \in 1..MaxSends

\* A descriptor of the rest of the batch is still the connection it was reported
\* for, although the batch closes descriptors and accept() reuses their numbers:
\* handling it never blocks in accept() or read(), which would stop the server.
BatchStaysReadable ==
  \A k \in DOMAIN batch : spc = "batch" => Readable(batch[k])

\* A client sees the messages of each other client in the order in which they
\* were sent, none twice, and never its own.
OrderedOnce ==
  \A c \in Client :
    /\ \A m \in Range(got[c]) : m.from # c
    /\ \A i, j \in DOMAIN got[c] :
         i < j /\ got[c][i].from = got[c][j].from => got[c][i].n < got[c][j].n

\* The server waits in write() for a client that does not read.
Blocked ==
  /\ spc = "send" /\ todo # <<>>
  /\ IsTarget(Head(todo))
  /\ peer[conn[Head(todo)]] = "connected" /\ unread[conn[Head(todo)]] = Room

\* Every connection is accepted, every message read and every close noticed, in
\* spite of batches that skip clients, unless SIGPIPE ends the server first or a
\* client that does not read holds it.
Pending(c) ==
  \/ c \in Range(backlog) \/ inbox[c] # <<>>
  \/ peer[c] \in {"closed", "aborted", "reset"} /\ c \in Range(conn)
ClientsServed ==
  \A c \in Client : []<>(Pending(c) => spc = "killed" \/ Blocked)

\* ex05.c: "the following sends the data received from client_list[i].data.fd to
\* all clients".  Clients outside of the batch get nothing.
ReachesAllClients ==
  spc = "send" /\ todo = <<>> =>
    \A c \in Client \cap Range(conn) :
      c # conn[Head(batch)] /\ peer[c] = "connected" =>
        got[c] # <<>> /\ Last(got[c]) = Last(chunk)
==============================================================================
