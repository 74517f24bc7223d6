--------------------------- MODULE EpollChatProofs ---------------------------
(***************************************************************************)
(* Proofs about EpollChat for any finite set of clients and any sizes: the *)
(* server never blocks on a descriptor of a batch that has gone stale, and *)
(* every client gets the messages of the others in order and once.  What   *)
(* is proved of either epoll server then holds of the specification that   *)
(* the run checks, MCEpoll.                                                *)
(***************************************************************************)
EXTENDS MCEpoll, FiniteSetTheorems, SequenceTheorems, WellFoundedInduction, TLAPS

Message == [from : Client, n : 1..MaxSends]

\* The types of the variables, with those that TypeOK leaves open.
Types ==
  /\ backlog \in Seq(Client)
  /\ peer \in [Client -> {"new", "connected", "closed", "aborted", "reset"}]
  /\ inbox \in [Client -> Seq(Message)]
  /\ sends \in 0..MaxSends
  /\ unread \in [Client -> 0..Room]
  /\ conn \in [Fd -> Client \cup {NoClient}]
  /\ batch \in Seq(Fd \cup {Listener}) /\ reported \in Seq(Fd \cup {Listener})
  /\ todo \in Seq(Fd \cup {Listener}) /\ chunk \in Seq(Message)
  /\ spc \in {"wait", "batch", "send", "killed"}
  /\ got \in [Client -> Seq(Message)]

\* A client has one connection, in the backlog or behind one descriptor.
OneConnection ==
  /\ \A f, g \in Fd : Open(f) /\ conn[f] = conn[g] => f = g
  /\ \A j, k \in 1..Len(backlog) : backlog[j] = backlog[k] => j = k
  /\ \A f \in Fd, k \in 1..Len(backlog) : conn[f] # backlog[k]
  /\ \A k \in 1..Len(backlog) : peer[backlog[k]] # "new"
  /\ \A f \in Fd : Open(f) => peer[conn[f]] # "new"

\* The rest of the batch and of the loop over j, each descriptor once.  While the first
\* entry is written to others, it may be read empty.
BatchRest ==
  /\ spc \in {"batch", "send"} => batch # <<>>
  /\ \A j, k \in 1..Len(batch) : batch[j] = batch[k] => j = k
  /\ \A j, k \in 1..Len(reported) : reported[j] = reported[k] => j = k
  /\ \A j, k \in 1..Len(todo) : todo[j] = todo[k] => j = k
  /\ \A k \in 1..Len(batch) : batch[k] \in Range(reported)
  /\ \A k \in 1..Len(todo) : todo[k] \in Range(reported)
  /\ spc \in {"wait", "batch"} => todo = <<>>
  /\ \A k \in 1..Len(batch) : spc = "batch" \/ (spc = "send" /\ k # 1) => Readable(batch[k])

\* What a client has sent and the server has not read, in the order it was sent.
Unread ==
  \A c \in Client :
    /\ \A i \in 1..Len(inbox[c]) : inbox[c][i].from = c /\ inbox[c][i].n <= sends
    /\ \A i, j \in 1..Len(inbox[c]) : i < j => inbox[c][i].n < inbox[c][j].n

\* What a client has got, all of it sent before what its sender's inbox holds.
GotInOrder(c) ==
  /\ \A i \in 1..Len(got[c]) :
       /\ got[c][i].from # c /\ got[c][i].n <= sends
       /\ \A j \in 1..Len(inbox[got[c][i].from]) :
            got[c][i].n < inbox[got[c][i].from][j].n
  /\ \A i, j \in 1..Len(got[c]) :
       i < j /\ got[c][i].from = got[c][j].from => got[c][i].n < got[c][j].n
Received == \A c \in Client : GotInOrder(c)

\* What is in buf_in comes from one client, in the order it was sent, before what is in
\* that client's inbox and after what the targets still to be written to have got of it.
Sending ==
  spc = "send" =>
    LET from == conn[Head(batch)]
    IN  /\ Head(batch) \in Fd /\ Open(Head(batch))
        /\ \A i \in 1..Len(chunk) : chunk[i].from = from /\ chunk[i].n <= sends
        /\ \A i, j \in 1..Len(chunk) : i < j => chunk[i].n < chunk[j].n
        /\ \A i \in 1..Len(chunk), j \in 1..Len(inbox[from]) : chunk[i].n < inbox[from][j].n
        /\ \A k \in 1..Len(todo) : IsTarget(todo[k]) =>
             \A i \in 1..Len(got[conn[todo[k]]]), j \in 1..Len(chunk) :
               got[conn[todo[k]]][i].from = from => got[conn[todo[k]]][i].n < chunk[j].n

IInv == Types /\ OneConnection /\ BatchRest /\ Unread /\ Received /\ Sending

------------------------------------------------------------------------------
(* Lemmas. *)

LEMMA FdFacts ==
  /\ MaxFd \in Nat /\ Fd \subseteq Nat /\ Listener \notin Fd
  /\ IsFiniteSet(Fd) /\ Cardinality(Fd) = MaxFd
BY BoundsAssumption, FS_Interval DEF Fd, Listener

\* accept() never fails for want of descriptors.
LEMMA FreeFd ==
  ASSUME Types, OneConnection, backlog # <<>>
  PROVE  \E f \in Fd : ~Open(f)
<1> SUFFICES ASSUME \A f \in Fd : Open(f) PROVE FALSE
  OBVIOUS
<1> DEFINE c == Head(backlog)
           place == [f \in Fd |-> conn[f]]
<1>1. c \in Client /\ 1 \in 1..Len(backlog) /\ c = backlog[1]
  BY HeadTailProperties, EmptySeq DEF Types
<1>2. place \in [Fd -> Client \ {c}] /\ \A f, g \in Fd : place[f] = place[g] => f = g
  BY <1>1 DEF Types, OneConnection, Open
<1>3. IsFiniteSet(Client \ {c}) /\ Cardinality(Client \ {c}) = Cardinality(Client) - 1
  BY <1>1, BoundsAssumption, FS_RemoveElement
<1>4. Cardinality(Client) \in Nat
  BY BoundsAssumption, FS_CardinalityType
<1>5. Cardinality(Client \ {c}) < Cardinality(Fd)
  BY <1>3, <1>4, FdFacts, BoundsAssumption
<1>6. \E f, g \in Fd : f # g /\ place[f] = place[g]
  <2> HIDE DEF c, place
  <2> QED
    BY <1>2, <1>3, <1>5, FdFacts, FS_PigeonHole
<1> QED
  BY <1>2, <1>6

\* The descriptor accept() returns.
NewFd == CHOOSE f \in Fd : ~Open(f) /\ \A g \in Fd : g < f => Open(g)

LEMMA NewFdIsClosed ==
  ASSUME Types, OneConnection, backlog # <<>>
  PROVE  NewFd \in Fd /\ ~Open(NewFd)
<1> DEFINE Less == OpToRel(<, Nat)
           Closed == {f \in Fd : ~Open(f)}
<1>1. Closed \subseteq Nat /\ Closed # {}
  BY FreeFd, FdFacts
<1>2. IsWellFoundedOn(Less, Nat)
  BY NatLessThanWellFounded
<1>3. \A g, f \in Nat : g < f => <<g, f>> \in Less
  BY DEF OpToRel
<1> HIDE DEF Less
<1>4. PICK f \in Closed : \A g \in Closed : <<g, f>> \notin Less
  BY <1>1, <1>2, WFMin
<1>5. \A g \in Fd : g < f => Open(g)
  BY <1>1, <1>3, <1>4, FdFacts
<1> QED
  BY <1>4, <1>5 DEF NewFd

\* The next entry of the batch comes up, with the others still readable.
LEMMA RestOfBatch ==
  ASSUME Types, BatchRest, spc \in {"batch", "send"}, NextEntry, todo = <<>>, UNCHANGED todo,
         \A fd \in Fd \cup {Listener} : fd # Head(batch) /\ Readable(fd) => Readable(fd)'
  PROVE  /\ BatchRest'
         /\ batch' \in Seq(Fd \cup {Listener}) /\ reported' \in Seq(Fd \cup {Listener})
         /\ spc' \in {"wait", "batch"}
<1>1. batch \in Seq(Fd \cup {Listener}) /\ batch # <<>>
  BY DEF Types, BatchRest
<1>2. /\ batch' \in Seq(Fd \cup {Listener})
      /\ Len(batch') = Len(batch) - 1 /\ Len(batch) \in Nat \ {0} /\ Head(batch) = batch[1]
      /\ \A k \in 1..Len(batch') : batch'[k] = batch[k + 1]
  BY <1>1, HeadTailProperties, EmptySeq DEF NextEntry
<1>3. /\ reported' \in Seq(Fd \cup {Listener}) /\ spc' \in {"wait", "batch"}
      /\ spc' = "batch" => batch' # <<>>
      /\ batch' # <<>> => reported' = reported
      /\ reported' = reported \/ reported' = <<>>
  BY DEF Types, NextEntry
<1>4. ASSUME NEW k \in 1..Len(batch')
      PROVE  /\ k + 1 \in 1..Len(batch) /\ batch'[k] \in Fd \cup {Listener}
             /\ batch'[k] # Head(batch) /\ batch'[k] \in Range(reported') /\ batch' # <<>>
             /\ Readable(batch[k + 1]) /\ batch'[k] = batch[k + 1]
  <2>1. k + 1 \in 1..Len(batch) /\ 1 \in 1..Len(batch) /\ k + 1 # 1
    BY <1>2
  <2>2. /\ batch[k + 1] # batch[1] /\ batch[k + 1] \in Range(reported)
        /\ Readable(batch[k + 1])
    BY <2>1 DEF BatchRest
  <2>3. batch' # <<>>
    BY <1>2, EmptySeq
  <2>4. batch[k + 1] \in Fd \cup {Listener}
    BY <1>1, <2>1
  <2> QED
    BY <1>2, <1>3, <2>1, <2>2, <2>3, <2>4
<1>5. \A j, k \in 1..Len(batch') : batch'[j] = batch'[k] => j = k
  <2> TAKE j, k \in 1..Len(batch')
  <2>1. batch[j + 1] = batch[k + 1] => j + 1 = k + 1
    BY <1>4 DEF BatchRest
  <2> QED
    BY <1>2, <2>1
<1>6. \A j, k \in 1..Len(reported') : reported'[j] = reported'[k] => j = k
  BY <1>3 DEF BatchRest
<1>7. Len(todo') = 0 /\ todo' = <<>>
  OBVIOUS
<1>8. \A k \in 1..Len(batch') : batch'[k] \in Range(reported')
  BY <1>4
<1>9. \A k \in 1..Len(batch') : Readable(batch[k])'
  BY <1>4
<1> QED
  BY <1>2, <1>3, <1>5, <1>6, <1>7, <1>8, <1>9 DEF BatchRest

\* What the messages a client has got are made of.
LEMMA GotMessages ==
  ASSUME Types, NEW c \in Client
  PROVE  /\ got[c] \in Seq(Message) /\ Len(got[c]) \in Nat
         /\ \A i \in 1..Len(got[c]) : got[c][i].from \in Client /\ got[c][i].n \in Int
<1>1. got[c] \in Seq(Message)
  BY DEF Types
<1>2. \A i \in 1..Len(got[c]) : got[c][i] \in Message
  BY <1>1
<1> QED
  BY <1>1, <1>2, BoundsAssumption DEF Message

\* read() moves the first messages of an inbox to buf_in.
LEMMA ChunkRead ==
  ASSUME Types, Unread, Received, UNCHANGED <<sends, got>>,
         NEW from \in Client, NEW size \in 1..Len(inbox[from]),
         inbox' = [inbox EXCEPT ![from] = SubSeq(@, size + 1, Len(@))],
         chunk' = SubSeq(inbox[from], 1, size)
  PROVE  /\ inbox' \in [Client -> Seq(Message)] /\ chunk' \in Seq(Message)
         /\ Unread' /\ Received'
         /\ \A c \in Client \ {from} : inbox'[c] = inbox[c]
         /\ \A i \in 1..Len(chunk') : chunk'[i].from = from /\ chunk'[i].n <= sends
         /\ \A i, j \in 1..Len(chunk') : i < j => chunk'[i].n < chunk'[j].n
         /\ \A i \in 1..Len(chunk'), j \in 1..Len(inbox'[from]) :
              chunk'[i].n < inbox'[from][j].n
         /\ \A c \in Client : \A i \in 1..Len(got[c]), j \in 1..Len(chunk') :
              got[c][i].from = from => got[c][i].n < chunk'[j].n
<1> DEFINE s == inbox[from]
           rest == SubSeq(s, size + 1, Len(s))
<1>1. /\ s \in Seq(Message) /\ Len(s) \in Nat /\ size \in Nat /\ size <= Len(s)
      /\ \A i \in 1..Len(s) : s[i] \in Message
  BY DEF Types
<1>2. /\ chunk' \in Seq(Message) /\ Len(chunk') = size
      /\ \A i \in 1..size : i \in 1..Len(s) /\ chunk'[i] = s[i]
  BY <1>1, SubSeqProperties
<1>3. /\ rest \in Seq(Message) /\ Len(rest) = Len(s) - size
      /\ \A i \in 1..Len(rest) : size + i \in 1..Len(s) /\ rest[i] = s[size + i]
  BY <1>1, SubSeqProperties
<1> HIDE DEF rest
<1>4. /\ inbox' \in [Client -> Seq(Message)]
      /\ inbox'[from] = rest
      /\ \A c \in Client \ {from} : inbox'[c] = inbox[c]
  BY <1>3 DEF Types, rest
<1>5. /\ \A i \in 1..Len(s) : s[i].from = from /\ s[i].n <= sends /\ s[i].n \in Int
      /\ \A i, j \in 1..Len(s) : i < j => s[i].n < s[j].n
  <2>1. \A i \in 1..Len(s) : s[i].n \in Int
    BY <1>1, BoundsAssumption DEF Message
  <2> QED
    BY <2>1 DEF Unread
<1>6. Unread'
  <2>1. /\ \A i \in 1..Len(rest) : rest[i].from = from /\ rest[i].n <= sends
        /\ \A i, j \in 1..Len(rest) : i < j => rest[i].n < rest[j].n
    <3>1. \A i, j \in 1..Len(rest) : i < j => size + i < size + j
      BY <1>1, <1>3
    <3> QED
      BY <1>3, <1>5, <3>1
  <2> HIDE DEF s
  <2>2. ASSUME NEW c \in Client
        PROVE  /\ \A i \in 1..Len(inbox'[c]) : inbox'[c][i].from = c /\ inbox'[c][i].n <= sends'
               /\ \A i, j \in 1..Len(inbox'[c]) : i < j => inbox'[c][i].n < inbox'[c][j].n
    <3>1. sends' = sends
      OBVIOUS
    <3>2. CASE c = from
      BY <3>1, <3>2, <1>4, <2>1
    <3>3. CASE c # from
      <4>1. inbox'[c] = inbox[c]
        BY <3>3, <1>4
      <4> QED
        BY <3>1, <4>1 DEF Unread
    <3> QED
      BY <3>2, <3>3
  <2> QED
    BY <2>2, Zenon DEF Unread
\* An inbox only gets shorter at its front.
<1>7. ASSUME NEW c \in Client, NEW j \in 1..Len(inbox'[c])
      PROVE  \E k \in 1..Len(inbox[c]) : inbox'[c][j] = inbox[c][k]
  BY <1>3, <1>4
<1>8. ASSUME NEW c \in Client PROVE GotInOrder(c)'
  <2>1. GotInOrder(c) /\ got' = got /\ sends' = sends
    BY DEF Received
  <2>2. \A i \in 1..Len(got[c]) :
          /\ got[c][i].from # c /\ got[c][i].n <= sends
          /\ \A j \in 1..Len(inbox'[got[c][i].from]) :
               got[c][i].n < inbox'[got[c][i].from][j].n
    <3> TAKE i \in 1..Len(got[c])
    <3>1. /\ got[c][i].from # c /\ got[c][i].n <= sends /\ got[c][i].from \in Client
          /\ \A k \in 1..Len(inbox[got[c][i].from]) :
               got[c][i].n < inbox[got[c][i].from][k].n
      BY <2>1, GotMessages DEF GotInOrder
    <3> QED
      BY <1>7, <3>1
  <2> QED
    BY <2>1, <2>2 DEF GotInOrder
<1>9. \A i \in 1..size, j \in 1..Len(rest) : chunk'[i].n < rest[j].n
  <2> TAKE i \in 1..size, j \in 1..Len(rest)
  <2>1. i \in 1..Len(s) /\ size + j \in 1..Len(s) /\ i < size + j
    BY <1>1, <1>3
  <2> QED
    BY <1>2, <1>3, <1>5, <2>1
<1>10. \A c \in Client : \A i \in 1..Len(got[c]), j \in 1..size :
         got[c][i].from = from => got[c][i].n < chunk'[j].n
  <2> TAKE c \in Client
  <2>1. GotInOrder(c)
    BY DEF Received
  <2> QED
    BY <1>2, <2>1 DEF GotInOrder
<1> QED
  BY <1>2, <1>4, <1>5, <1>6, <1>8, <1>9, <1>10 DEF Received

\* write() appends what is in buf_in to what a client has got.
LEMMA ChunkWritten ==
  ASSUME Types, Received, NEW c \in Client, NEW from \in Client \ {c},
         UNCHANGED <<inbox, sends>>,
         got' = [got EXCEPT ![c] = @ \o chunk],
         \A i \in 1..Len(chunk) : chunk[i].from = from /\ chunk[i].n <= sends,
         \A i, j \in 1..Len(chunk) : i < j => chunk[i].n < chunk[j].n,
         \A i \in 1..Len(chunk), j \in 1..Len(inbox[from]) : chunk[i].n < inbox[from][j].n,
         \A i \in 1..Len(got[c]), j \in 1..Len(chunk) :
           got[c][i].from = from => got[c][i].n < chunk[j].n
  PROVE  /\ got' \in [Client -> Seq(Message)] /\ Received'
         /\ \A d \in Client \ {c} : got'[d] = got[d]
<1> DEFINE old == Len(got[c])
           size == Len(chunk)
<1>1. /\ chunk \in Seq(Message) /\ size \in Nat /\ got[c] \in Seq(Message) /\ old \in Nat
      /\ sends' = sends /\ inbox' = inbox
  BY GotMessages DEF Types
<1>2. /\ got' \in [Client -> Seq(Message)]
      /\ got'[c] = got[c] \o chunk
      /\ \A d \in Client \ {c} : got'[d] = got[d]
  BY <1>1, ConcatProperties DEF Types
<1>3. /\ Len(got'[c]) = old + size
      /\ \A i \in 1..old + size :
           got'[c][i] = IF i <= old THEN got[c][i] ELSE chunk[i - old]
  BY <1>1, <1>2, ConcatProperties
<1>4. /\ \A i \in 1..old : got'[c][i] = got[c][i]
      /\ \A i \in 1..old + size : i \notin 1..old =>
           i - old \in 1..size /\ got'[c][i] = chunk[i - old]
  BY <1>1, <1>3
<1>5. GotInOrder(c)
  BY DEF Received
<1>6. ASSUME NEW d \in Client \ {c} PROVE GotInOrder(d)'
  <2>1. GotInOrder(d) /\ got'[d] = got[d]
    BY <1>2 DEF Received
  <2> QED
    BY <1>1, <2>1 DEF GotInOrder
<1>7. ASSUME NEW i \in 1..old + size
      PROVE  /\ got'[c][i].from # c /\ got'[c][i].n <= sends
             /\ \A j \in 1..Len(inbox[got'[c][i].from]) :
                  got'[c][i].n < inbox[got'[c][i].from][j].n
  <2>1. CASE i \in 1..old
    BY <1>4, <1>5, <2>1 DEF GotInOrder
  <2>2. CASE i \notin 1..old
    <3>1. i - old \in 1..size /\ got'[c][i] = chunk[i - old]
      BY <1>4, <2>2
    <3> HIDE DEF old
    <3>2. got'[c][i].from = from /\ got'[c][i].n <= sends
      BY <3>1
    <3> QED
      BY <3>1, <3>2
  <2> QED
    BY <2>1, <2>2
<1>8. ASSUME NEW i \in 1..old + size, NEW j \in 1..old + size, i < j,
             got'[c][i].from = got'[c][j].from
      PROVE  got'[c][i].n < got'[c][j].n
  <2>1. CASE j \in 1..old
    <3>1. i \in 1..old
      BY <1>1, <1>8, <2>1
    <3>2. got'[c][i] = got[c][i] /\ got'[c][j] = got[c][j]
      BY <1>4, <2>1, <3>1
    <3> QED
      BY <1>5, <1>8, <2>1, <3>1, <3>2 DEF GotInOrder
  <2>2. CASE i \in 1..old /\ j \notin 1..old
    <3>1. j - old \in 1..size /\ got'[c][j] = chunk[j - old] /\ got'[c][i] = got[c][i]
      BY <1>4, <2>2
    <3>2. got[c][i].from = from
      BY <1>8, <3>1
    <3> QED
      BY <2>2, <3>1, <3>2
  <2>3. CASE i \notin 1..old /\ j \notin 1..old
    <3>1. /\ got'[c][i] = chunk[i - old] /\ i - old \in 1..size
          /\ got'[c][j] = chunk[j - old] /\ j - old \in 1..size
      BY <1>4, <2>3
    <3>2. i - old < j - old
      BY <1>1, <1>8
    <3> QED
      BY <3>1, <3>2
  <2> QED
    BY <1>1, <1>8, <2>1, <2>2, <2>3
<1>9. GotInOrder(c)'
  <2> HIDE DEF old, size
  <2>1. \A i \in 1..Len(got'[c]) :
          /\ got'[c][i].from # c /\ got'[c][i].n <= sends'
          /\ \A j \in 1..Len(inbox'[got'[c][i].from]) :
               got'[c][i].n < inbox'[got'[c][i].from][j].n
    BY <1>1, <1>3, <1>7
  <2>2. \A i, j \in 1..Len(got'[c]) :
          i < j /\ got'[c][i].from = got'[c][j].from => got'[c][i].n < got'[c][j].n
    BY <1>3, <1>8
  <2> QED
    BY <2>1, <2>2 DEF GotInOrder
<1> QED
  BY <1>2, <1>6, <1>9 DEF Received

------------------------------------------------------------------------------
(* The invariant is inductive. *)

LEMMA InitInv == Init => IInv
<1> SUFFICES ASSUME Init PROVE IInv
  OBVIOUS
<1>1. Types
  BY BoundsAssumption DEF Init, Types
<1>2. /\ backlog = <<>> /\ Len(backlog) = 0 /\ Len(batch) = 0 /\ spc = "wait"
      /\ Len(reported) = 0 /\ Len(todo) = 0 /\ todo = <<>>
      /\ \A c \in Client : Len(inbox[c]) = 0 /\ Len(got[c]) = 0
      /\ \A f \in Fd : ~Open(f)
  BY DEF Init, Open
<1>3. OneConnection /\ BatchRest
  BY <1>2 DEF OneConnection, BatchRest
<1>4. Unread /\ Received /\ Sending
  BY <1>2 DEF Unread, Received, GotInOrder, Sending
<1> QED
  BY <1>1, <1>3, <1>4 DEF IInv

\* What clients do makes nothing unreadable.
LEMMA StillReadable ==
  ASSUME Types, UNCHANGED <<conn, batch, reported, todo, spc>>,
         backlog # <<>> => backlog' # <<>>,
         \A c \in Client : inbox[c] # <<>> => inbox'[c] # <<>>,
         \A c \in Client : peer[c] \notin {"new", "connected"} => peer'[c] # "connected",
         \A fd \in Fd : Open(fd) => peer[conn[fd]] # "new",
         BatchRest
  PROVE  BatchRest'
<1>1. ASSUME NEW k \in 1..Len(batch), spc = "batch" \/ (spc = "send" /\ k # 1)
      PROVE  Readable(batch[k])'
  <2>1. batch[k] \in Fd \cup {Listener} /\ Readable(batch[k])
    BY <1>1 DEF Types, BatchRest
  <2> QED
    BY <2>1 DEF Readable, Open, Types
<1> QED
  BY <1>1 DEF BatchRest

\* A step that moves no message leaves what was sent and received as it was.
LEMMA NothingRead ==
  ASSUME Unread, Received, UNCHANGED <<inbox, sends, got>>
  PROVE  Unread' /\ Received'
<1>1. inbox' = inbox /\ sends' = sends /\ got' = got
  OBVIOUS
<1>2. Unread'
  BY <1>1 DEF Unread
<1>3. ASSUME NEW c \in Client PROVE GotInOrder(c)'
  <2>1. GotInOrder(c)
    BY DEF Received
  <2>2. \A i \in 1..Len(got'[c]) :
          /\ got'[c][i].from # c /\ got'[c][i].n <= sends'
          /\ \A j \in 1..Len(inbox'[got'[c][i].from]) :
               got'[c][i].n < inbox'[got'[c][i].from][j].n
    BY <1>1, <2>1 DEF GotInOrder
  <2>3. \A i, j \in 1..Len(got'[c]) :
          i < j /\ got'[c][i].from = got'[c][j].from => got'[c][i].n < got'[c][j].n
    BY <1>1, <2>1 DEF GotInOrder
  <2> QED
    BY <2>2, <2>3 DEF GotInOrder
<1> QED
  BY <1>2, <1>3 DEF Received

\* The same holds of the broadcast when a client does something other than sending.
LEMMA NothingMoved ==
  ASSUME Unread, Received, Sending,
         UNCHANGED <<inbox, sends, conn, batch, chunk, todo, spc, got>>
  PROVE  Unread' /\ Received' /\ Sending'
<1>1. Unread' /\ Received'
  BY NothingRead
<1>2. \A f : (Open(f)' <=> Open(f)) /\ (IsTarget(f)' <=> IsTarget(f))
  BY DEF Open, IsTarget
<1>3. Sending'
  BY <1>2 DEF Sending
<1> QED
  BY <1>1, <1>3

LEMMA ConnectInv == ASSUME IInv, NEW c \in Client, Connect(c) PROVE IInv'
<1>1. Types /\ OneConnection /\ BatchRest /\ Unread /\ Received /\ Sending
  BY DEF IInv
<1>2. /\ UNCHANGED <<inbox, sends, unread, conn, batch, reported, chunk, todo, spc, got>>
      /\ peer[c] = "new" /\ peer' = [peer EXCEPT ![c] = "connected"]
      /\ backlog' = Append(backlog, c)
  BY DEF Connect
<1>3. /\ backlog \in Seq(Client)
      /\ peer \in [Client -> {"new", "connected", "closed", "aborted", "reset"}]
  BY <1>1 DEF Types
<1>4. /\ backlog' \in Seq(Client) /\ backlog' # <<>>
      /\ Len(backlog') = Len(backlog) + 1 /\ Len(backlog) \in Nat
      /\ \A k \in 1..Len(backlog') : k \in 1..Len(backlog) \/ k = Len(backlog) + 1
      /\ \A k \in 1..Len(backlog) : backlog'[k] = backlog[k]
      /\ backlog'[Len(backlog) + 1] = c
  BY <1>2, <1>3, AppendProperties
<1>5. /\ peer' \in [Client -> {"new", "connected", "closed", "aborted", "reset"}]
      /\ \A d \in Client : peer'[d] = IF d = c THEN "connected" ELSE peer[d]
  BY <1>2, <1>3
<1>6. Types'
  BY <1>1, <1>2, <1>4, <1>5 DEF Types
<1>7. \A f \in Fd : Open(f) => conn[f] # c /\ conn[f] \in Client
  BY <1>1, <1>2 DEF Types, OneConnection, Open
<1>8. \A k \in 1..Len(backlog) : backlog[k] # c /\ backlog[k] \in Client
  BY <1>1, <1>2, <1>3 DEF OneConnection
<1>9. c # NoClient
  BY BoundsAssumption
<1>10. OneConnection'
  BY <1>1, <1>2, <1>4, <1>5, <1>7, <1>8, <1>9 DEF OneConnection, Open
<1>11. BatchRest'
  BY <1>1, <1>2, <1>4, <1>5, StillReadable DEF OneConnection
<1>12. Unread' /\ Received' /\ Sending'
  BY <1>1, <1>2, NothingMoved
<1> QED
  BY <1>6, <1>10, <1>11, <1>12 DEF IInv

LEMMA SendInv == ASSUME IInv, NEW c \in Client, Send(c) PROVE IInv'
<1> DEFINE m == [from |-> c, n |-> sends + 1]
<1>1. Types /\ OneConnection /\ BatchRest /\ Unread /\ Received /\ Sending
  BY DEF IInv
<1>2. /\ UNCHANGED <<backlog, peer, unread, conn, batch, reported, chunk, todo, spc, got>>
      /\ sends < MaxSends /\ sends' = sends + 1
      /\ inbox' = [inbox EXCEPT ![c] = Append(@, m)]
  BY DEF Send
<1>3. /\ sends \in Nat /\ sends' \in 0..MaxSends /\ m \in Message
      /\ m.from = c /\ m.n = sends'
  BY <1>1, <1>2, BoundsAssumption DEF Types, Message
<1>4. inbox \in [Client -> Seq(Message)]
  BY <1>1 DEF Types
<1> HIDE DEF m
<1>5. /\ inbox[c] \in Seq(Message) /\ Len(inbox[c]) \in Nat
      /\ inbox'[c] = Append(inbox[c], m) /\ inbox'[c] \in Seq(Message)
      /\ inbox'[c] # <<>>
      /\ Len(inbox'[c]) = Len(inbox[c]) + 1
      /\ \A k \in 1..Len(inbox'[c]) : k \in 1..Len(inbox[c]) \/ k = Len(inbox[c]) + 1
      /\ \A k \in 1..Len(inbox[c]) : inbox'[c][k] = inbox[c][k]
      /\ inbox'[c][Len(inbox[c]) + 1] = m
  BY <1>2, <1>3, <1>4, AppendProperties
<1>6. /\ inbox' \in [Client -> Seq(Message)]
      /\ \A d \in Client \ {c} : inbox'[d] = inbox[d]
  BY <1>2, <1>4, <1>5
<1>7. Types'
  BY <1>1, <1>2, <1>3, <1>6 DEF Types
<1>8. OneConnection'
  BY <1>1, <1>2 DEF OneConnection, Open
<1>9. BatchRest'
  BY <1>1, <1>2, <1>5, <1>6, StillReadable DEF OneConnection
<1>10. Unread'
  <2>1. \A d \in Client : \A k \in 1..Len(inbox[d]) :
          inbox[d][k].from = d /\ inbox[d][k].n <= sends' /\ inbox[d][k].n < sends'
    <3> TAKE d \in Client
    <3>1. \A k \in 1..Len(inbox[d]) : inbox[d][k] \in Message
      BY <1>4
    <3>2. \A k \in 1..Len(inbox[d]) : inbox[d][k].n \in Int
      BY <3>1, BoundsAssumption DEF Message
    <3> QED
      BY <1>1, <1>2, <1>3, <3>2 DEF Unread
  <2>2. ASSUME NEW d \in Client \ {c}
        PROVE  /\ \A k \in 1..Len(inbox'[d]) :
                    inbox'[d][k].from = d /\ inbox'[d][k].n <= sends'
               /\ \A i, j \in 1..Len(inbox'[d]) : i < j => inbox'[d][i].n < inbox'[d][j].n
    BY <1>1, <1>6, <2>1 DEF Unread
  <2>3. \A k \in 1..Len(inbox'[c]) : inbox'[c][k].from = c /\ inbox'[c][k].n <= sends'
    BY <1>2, <1>3, <1>5, <2>1
  <2>4. \A i, j \in 1..Len(inbox'[c]) : i < j => inbox'[c][i].n < inbox'[c][j].n
    <3> TAKE i, j \in 1..Len(inbox'[c])
    <3>1. CASE j \in 1..Len(inbox[c])
      BY <1>1, <1>5, <3>1 DEF Unread
    <3>2. CASE j = Len(inbox[c]) + 1
      BY <1>2, <1>3, <1>5, <2>1, <3>2
    <3> QED
      BY <1>5, <3>1, <3>2
  <2> QED
    BY <2>2, <2>3, <2>4 DEF Unread
<1>11. ASSUME NEW d \in Client PROVE GotInOrder(d)'
  <2>1. got[d] \in Seq(Message) /\ GotInOrder(d)
    BY <1>1 DEF Types, Received
  <2>2. \A i \in 1..Len(got[d]) : got[d][i] \in Message
    BY <2>1
  <2>3. \A i \in 1..Len(got[d]) : got[d][i].from \in Client /\ got[d][i].n \in Int
    BY <2>2, BoundsAssumption DEF Message
  <2>4. ASSUME NEW i \in 1..Len(got[d])
        PROVE  /\ got[d][i].from # d /\ got[d][i].n <= sends'
               /\ \A j \in 1..Len(inbox'[got[d][i].from]) :
                    got[d][i].n < inbox'[got[d][i].from][j].n
    <3>1. /\ got[d][i].from # d /\ got[d][i].n <= sends
          /\ \A j \in 1..Len(inbox[got[d][i].from]) :
               got[d][i].n < inbox[got[d][i].from][j].n
      BY <2>1 DEF GotInOrder
    <3>2. got[d][i].n < sends'
      BY <1>2, <1>3, <2>3, <3>1
    <3>3. CASE got[d][i].from = c
      <4>1. \A j \in 1..Len(inbox'[c]) : got[d][i].n < inbox'[c][j].n
        BY <1>3, <1>5, <3>1, <3>2, <3>3
      <4>2. got[d][i].n <= sends'
        BY <1>3, <2>3, <3>2
      <4> QED
        BY <3>1, <3>3, <4>1, <4>2
    <3>4. CASE got[d][i].from # c
      BY <1>6, <2>3, <3>1, <3>2, <3>4, <1>3
    <3> QED
      BY <3>3, <3>4
  <2> QED
    BY <1>2, <2>1, <2>4 DEF GotInOrder
<1>12. Sending'
  <2>1. SUFFICES ASSUME spc = "send" PROVE Sending'
    BY <1>2 DEF Sending
  <2> DEFINE from == conn[Head(batch)]
  <2>2. /\ Head(batch) \in Fd /\ Open(Head(batch)) /\ from \in Client
        /\ \A i \in 1..Len(chunk) : chunk[i].from = from /\ chunk[i].n <= sends
    BY <1>1, <2>1 DEF Sending, Types, Open
  <2>3. \A i \in 1..Len(chunk) : chunk[i].n \in Int
    <3>1. \A i \in 1..Len(chunk) : chunk[i] \in Message
      BY <1>1 DEF Types
    <3> QED
      BY <3>1, BoundsAssumption DEF Message
  <2>4. \A i \in 1..Len(chunk) : chunk[i].n <= sends' /\ chunk[i].n < sends'
    BY <1>2, <1>3, <2>2, <2>3
  <2>5. \A i \in 1..Len(chunk), j \in 1..Len(inbox'[from]) : chunk[i].n < inbox'[from][j].n
    <3>1. CASE from = c
      BY <1>1, <1>3, <1>5, <2>1, <2>4, <3>1 DEF Sending
    <3>2. CASE from # c
      BY <1>1, <1>6, <2>1, <2>2, <3>2 DEF Sending
    <3> QED
      BY <3>1, <3>2
  <2>6. \A f : IsTarget(f)' <=> IsTarget(f)
    BY <1>2 DEF IsTarget, Open
  <2> HIDE DEF from
  <2>7. from' = from /\ Open(Head(batch))'
    BY <1>2, <2>2 DEF from, Open
  <2> QED
    BY <1>1, <1>2, <2>1, <2>2, <2>4, <2>5, <2>6, <2>7 DEF Sending, from
<1> QED
  BY <1>7, <1>8, <1>9, <1>10, <1>11, <1>12 DEF IInv, Received

LEMMA ReadBroadcastInv == ASSUME IInv, NEW c \in Client, ReadBroadcast(c) PROVE IInv'
<1>1. Types /\ OneConnection /\ BatchRest /\ Unread /\ Received /\ Sending
  BY DEF IInv
<1>2. /\ UNCHANGED <<backlog, peer, inbox, sends, conn, batch, reported, chunk, todo, spc, got>>
      /\ unread' = [unread EXCEPT ![c] = 0]
  BY DEF ReadBroadcast
<1>3. unread' \in [Client -> 0..Room]
  <2>1. 0 \in 0..Room
    BY BoundsAssumption
  <2> QED
    BY <1>1, <1>2, <2>1 DEF Types
<1>4. Types'
  BY <1>1, <1>2, <1>3 DEF Types
<1>5. OneConnection'
  BY <1>1, <1>2 DEF OneConnection, Open
<1>6. BatchRest'
  BY <1>1, <1>2, StillReadable DEF OneConnection
<1>7. Unread' /\ Received' /\ Sending'
  BY <1>1, <1>2, NothingMoved
<1> QED
  BY <1>4, <1>5, <1>6, <1>7 DEF IInv

LEMMA CloseInv == ASSUME IInv, NEW c \in Client, Close(c) PROVE IInv'
<1>1. Types /\ OneConnection /\ BatchRest /\ Unread /\ Received /\ Sending
  BY DEF IInv
<1>2. /\ UNCHANGED <<backlog, inbox, sends, conn, batch, reported, chunk, todo, spc, got>>
      /\ \E how \in {"closed", "aborted", "reset"} : peer' = [peer EXCEPT ![c] = how]
      /\ unread' = [unread EXCEPT ![c] = 0]
  BY DEF Close
<1>3. /\ peer' \in [Client -> {"new", "connected", "closed", "aborted", "reset"}]
      /\ \A d \in Client \ {c} : peer'[d] = peer[d]
      /\ peer'[c] \in {"closed", "aborted", "reset"}
  BY <1>1, <1>2 DEF Types
<1>4. Types'
  <2>1. 0 \in 0..Room
    BY BoundsAssumption
  <2>2. unread' \in [Client -> 0..Room]
    BY <1>1, <1>2, <2>1 DEF Types
  <2> QED
    BY <1>1, <1>2, <1>3, <2>2 DEF Types
<1>5. \A f \in Fd : Open(f) => conn[f] \in Client
  BY <1>1 DEF Types, Open
<1>6. \A k \in 1..Len(backlog) : backlog[k] \in Client
  BY <1>1 DEF Types
<1>7. OneConnection'
  BY <1>1, <1>2, <1>3, <1>5, <1>6 DEF OneConnection, Open
<1>8. BatchRest'
  BY <1>1, <1>2, <1>3, StillReadable DEF OneConnection
<1>9. Unread' /\ Received' /\ Sending'
  BY <1>1, <1>2, NothingMoved
<1> QED
  BY <1>4, <1>7, <1>8, <1>9 DEF IInv

\* The kernel reports what is readable now.
LEMMA EpollWaitInv == IInv /\ EpollWait => IInv'
<1> SUFFICES ASSUME IInv, EpollWait PROVE IInv'
  OBVIOUS
<1> DEFINE n == Cardinality(Ready)
<1>1. Types /\ OneConnection /\ BatchRest /\ Unread /\ Received /\ Sending
  BY DEF IInv
<1>2. /\ UNCHANGED <<backlog, peer, inbox, sends, unread, conn, chunk, todo, got>>
      /\ Ready # {} /\ batch' \in SetToSeqs(Ready) /\ reported' = batch' /\ spc' = "batch"
      /\ spc = "wait"
  BY DEF EpollWait, clientVars
<1>3. Ready \subseteq Fd \cup {Listener}
  BY DEF Ready
<1>4. IsFiniteSet(Fd \cup {Listener})
  BY FdFacts, FS_AddElement
<1>5. n \in Nat /\ n # 0
  BY <1>2, <1>3, <1>4, FS_Subset, FS_CardinalityType, FS_EmptySet
<1> HIDE DEF n
<1>6. /\ batch' \in [1..n -> Ready]
      /\ \A j, k \in 1..n : j # k => batch'[j] # batch'[k]
  BY <1>2 DEF SetToSeqs, n
<1>7. batch' \in [1..n -> Fd \cup {Listener}]
  BY <1>3, <1>6
<1>8. batch' \in Seq(Fd \cup {Listener}) /\ Len(batch') = n /\ batch' # <<>>
  BY <1>5, <1>7, SeqDef, EmptySeq
<1>9. Types'
  BY <1>1, <1>2, <1>3, <1>8 DEF Types
<1>10. \A fd \in Ready : Readable(fd)'
  BY <1>2 DEF Ready, Readable, Open
<1>11. BatchRest'
  <2>1. todo' = <<>> /\ Len(todo') = 0
    BY <1>1, <1>2 DEF BatchRest
  <2>2. \A k \in 1..Len(batch') : batch'[k] \in Range(reported') /\ batch'[k] \in Ready
    BY <1>2, <1>6, <1>8 DEF Range
  <2>3. \A k \in 1..Len(batch') : Readable(batch[k])'
    BY <1>10, <2>2
  <2> QED
    BY <1>2, <1>6, <1>8, <2>1, <2>2, <2>3 DEF BatchRest
<1>12. OneConnection'
  BY <1>1, <1>2 DEF OneConnection, Open
<1>13. Unread' /\ Received' /\ Sending'
  BY <1>1, <1>2, NothingRead DEF Sending
<1> QED
  BY <1>9, <1>11, <1>12, <1>13 DEF IInv

LEMMA AcceptInv == IInv /\ Accept => IInv'
<1> SUFFICES ASSUME IInv, Accept PROVE IInv'
  OBVIOUS
<1> DEFINE f == NewFd
           c == Head(backlog)
<1>1. Types /\ OneConnection /\ BatchRest /\ Unread /\ Received /\ Sending
  BY DEF IInv
<1>2. /\ UNCHANGED <<peer, inbox, sends, unread, chunk, todo, got>>
      /\ spc = "batch" /\ Head(batch) = Listener /\ NextEntry
      /\ backlog' = Tail(backlog)
  BY DEF Accept
<1>3. conn' = [conn EXCEPT ![f] = c]
  BY DEF Accept, NewFd
<1>4. Readable(Listener)
  <2>1. batch # <<>> /\ batch \in Seq(Fd \cup {Listener})
    BY <1>1, <1>2 DEF Types, BatchRest
  <2>2. 1 \in 1..Len(batch) /\ batch[1] = Listener
    BY <1>2, <2>1, EmptySeq
  <2> QED
    BY <1>1, <1>2, <2>2 DEF BatchRest
<1>5. backlog # <<>> /\ backlog \in Seq(Client)
  BY <1>1, <1>4 DEF Types, Readable
<1>6. /\ c \in Client /\ c = backlog[1] /\ backlog' \in Seq(Client)
      /\ Len(backlog') = Len(backlog) - 1 /\ Len(backlog) \in Nat \ {0}
      /\ \A k \in 1..Len(backlog') : backlog'[k] = backlog[k + 1]
  BY <1>2, <1>5, HeadTailProperties, EmptySeq
<1>7. f \in Fd /\ ~Open(f)
  BY <1>1, <1>5, NewFdIsClosed
<1> HIDE DEF f, c
<1>8. /\ conn' \in [Fd -> Client \cup {NoClient}]
      /\ \A g \in Fd : conn'[g] = IF g = f THEN c ELSE conn[g]
  BY <1>1, <1>3, <1>6, <1>7 DEF Types
<1>9. \A fd \in Fd \cup {Listener} : fd # Head(batch) /\ Readable(fd) => Readable(fd)'
  BY <1>2, <1>7, <1>8 DEF Readable, Open
<1>10. /\ BatchRest' /\ batch' \in Seq(Fd \cup {Listener})
       /\ reported' \in Seq(Fd \cup {Listener}) /\ spc' \in {"wait", "batch"}
  <2>1. todo = <<>>
    BY <1>1, <1>2 DEF BatchRest
  <2> QED
    BY <1>1, <1>2, <1>9, <2>1, RestOfBatch
<1>11. Types'
  BY <1>1, <1>2, <1>6, <1>8, <1>10 DEF Types
<1>12. \A k \in 1..Len(backlog') : k + 1 \in 1..Len(backlog) /\ k + 1 # 1
  BY <1>6
<1>13. 1 \in 1..Len(backlog)
  BY <1>6
<1>14. OneConnection'
  <2>1. \A g, h \in Fd : Open(g)' /\ conn'[g] = conn'[h] => g = h
    BY <1>1, <1>6, <1>7, <1>8, <1>13 DEF OneConnection, Open
  <2>2. \A j, k \in 1..Len(backlog') : backlog'[j] = backlog'[k] => j = k
    <3> TAKE j, k \in 1..Len(backlog')
    <3>1. backlog[j + 1] = backlog[k + 1] => j + 1 = k + 1
      BY <1>1, <1>12 DEF OneConnection
    <3> QED
      BY <1>6, <3>1
  <2>3. \A g \in Fd, k \in 1..Len(backlog') : conn'[g] # backlog'[k]
    BY <1>1, <1>6, <1>8, <1>12, <1>13 DEF OneConnection
  <2>4. \A k \in 1..Len(backlog') : peer'[backlog'[k]] # "new"
    BY <1>1, <1>2, <1>6, <1>12 DEF OneConnection
  <2>5. \A g \in Fd : Open(g)' => peer'[conn'[g]] # "new"
    BY <1>1, <1>2, <1>6, <1>8, <1>13 DEF OneConnection, Open
  <2> QED
    BY <2>1, <2>2, <2>3, <2>4, <2>5 DEF OneConnection
<1>15. Unread' /\ Received' /\ Sending'
  BY <1>1, <1>2, <1>10, NothingRead DEF Sending
<1> QED
  BY <1>10, <1>11, <1>14, <1>15 DEF IInv

\* The descriptor the server handles now.
LEMMA HeadOfBatch ==
  ASSUME Types, OneConnection, BatchRest, spc = "batch", Head(batch) # Listener
  PROVE  /\ Head(batch) \in Fd /\ Readable(Head(batch)) /\ Open(Head(batch))
         /\ conn[Head(batch)] \in Client
<1>1. batch # <<>> /\ batch \in Seq(Fd \cup {Listener})
  BY DEF Types, BatchRest
<1>2. 1 \in 1..Len(batch) /\ batch[1] = Head(batch) /\ Head(batch) \in Fd \cup {Listener}
  BY <1>1, EmptySeq, HeadTailProperties
<1>3. Readable(Head(batch))
  BY <1>2 DEF BatchRest
<1> QED
  BY <1>2, <1>3 DEF Readable, Open, Types

LEMMA ReadEndInv == IInv /\ ReadEnd => IInv'
<1> SUFFICES ASSUME IInv, ReadEnd PROVE IInv'
  OBVIOUS
<1> DEFINE f == Head(batch)
<1>1. Types /\ OneConnection /\ BatchRest /\ Unread /\ Received /\ Sending
  BY DEF IInv
<1>2. /\ UNCHANGED <<backlog, peer, inbox, sends, unread, chunk, todo, got>>
      /\ spc = "batch" /\ f # Listener /\ NextEntry
      /\ conn' = [conn EXCEPT ![f] = NoClient]
  BY DEF ReadEnd, clientVars
<1>3. f \in Fd
  BY <1>1, <1>2, HeadOfBatch
<1>4. /\ conn' \in [Fd -> Client \cup {NoClient}]
      /\ \A g \in Fd : conn'[g] = IF g = f THEN NoClient ELSE conn[g]
  BY <1>1, <1>2, <1>3 DEF Types
<1>5. \A fd \in Fd \cup {Listener} : fd # f /\ Readable(fd) => Readable(fd)'
  BY <1>2, <1>4 DEF Readable, Open
<1>6. /\ BatchRest' /\ batch' \in Seq(Fd \cup {Listener})
      /\ reported' \in Seq(Fd \cup {Listener}) /\ spc' \in {"wait", "batch"}
  <2>1. todo = <<>>
    BY <1>1, <1>2 DEF BatchRest
  <2> QED
    BY <1>1, <1>2, <1>5, <2>1, RestOfBatch
<1>7. Types'
  BY <1>1, <1>2, <1>4, <1>6 DEF Types
<1>8. \A k \in 1..Len(backlog) : backlog[k] # NoClient
  BY <1>1, BoundsAssumption DEF Types
<1> HIDE DEF f
<1>9. OneConnection'
  BY <1>1, <1>2, <1>4, <1>8 DEF OneConnection, Open
<1>10. Unread' /\ Received' /\ Sending'
  BY <1>1, <1>2, <1>6, NothingRead DEF Sending
<1> QED
  BY <1>6, <1>7, <1>9, <1>10 DEF IInv

\* What is read begins a broadcast to the whole list.
LEMMA ReadChunkInv == IInv /\ ReadChunk => IInv'
<1> SUFFICES ASSUME IInv, ReadChunk PROVE IInv'
  OBVIOUS
<1> DEFINE f == Head(batch)
           from == conn[f]
           size == IF Len(inbox[from]) < BufIn THEN Len(inbox[from]) ELSE BufIn
<1>1. Types /\ OneConnection /\ BatchRest /\ Unread /\ Received /\ Sending
  BY DEF IInv
<1>2. /\ UNCHANGED <<backlog, peer, sends, unread, conn, batch, reported, got>>
      /\ spc = "batch" /\ f # Listener /\ size > 0
      /\ chunk' = SubSeq(inbox[from], 1, size)
      /\ inbox' = [inbox EXCEPT ![from] = SubSeq(@, size + 1, Len(@))]
      /\ todo' = reported /\ spc' = "send"
  BY DEF ReadChunk
<1>3. f \in Fd /\ Open(f) /\ from \in Client
  BY <1>1, <1>2, HeadOfBatch
<1>4. inbox[from] \in Seq(Message)
  BY <1>1, <1>3 DEF Types
<1>5. size \in 1..Len(inbox[from])
  BY <1>2, <1>4, BoundsAssumption, LenProperties
<1> HIDE DEF f, from, size
<1>6. /\ inbox' \in [Client -> Seq(Message)] /\ chunk' \in Seq(Message)
      /\ Unread' /\ Received'
      /\ \A c \in Client \ {from} : inbox'[c] = inbox[c]
      /\ \A i \in 1..Len(chunk') : chunk'[i].from = from /\ chunk'[i].n <= sends
      /\ \A i, j \in 1..Len(chunk') : i < j => chunk'[i].n < chunk'[j].n
      /\ \A i \in 1..Len(chunk'), j \in 1..Len(inbox'[from]) :
           chunk'[i].n < inbox'[from][j].n
      /\ \A c \in Client : \A i \in 1..Len(got[c]), j \in 1..Len(chunk') :
           got[c][i].from = from => got[c][i].n < chunk'[j].n
  BY <1>1, <1>2, <1>3, <1>5, ChunkRead
<1>7. Types'
  BY <1>1, <1>2, <1>6 DEF Types
<1>8. OneConnection'
  BY <1>1, <1>2 DEF OneConnection, Open
<1>9. BatchRest'
  <2>1. \A k \in 1..Len(reported) : reported[k] \in Range(reported)
    BY <1>1 DEF Types, Range
  <2>2. ASSUME NEW k \in 1..Len(batch), k # 1 PROVE Readable(batch[k])'
    <3>1. 1 \in 1..Len(batch) /\ batch[1] = f /\ batch[k] \in Fd \cup {Listener}
      BY <1>1, <1>2, EmptySeq DEF Types, BatchRest, f
    <3>2. batch[k] # f /\ Readable(batch[k])
      BY <1>1, <1>2, <2>2, <3>1 DEF BatchRest
    <3>3. CASE batch[k] = Listener
      BY <1>2, <3>2, <3>3 DEF Readable
    <3>4. CASE batch[k] # Listener
      <4>1. /\ batch[k] \in Fd /\ Open(batch[k])
            /\ conn[batch[k]] \in Client /\ conn[batch[k]] # from
        BY <1>1, <1>3, <3>1, <3>2, <3>4 DEF Readable, Open, OneConnection, Types, from
      <4> QED
        BY <1>2, <1>6, <3>2, <3>4, <4>1 DEF Readable, Open
    <3> QED
      BY <3>3, <3>4
  <2> QED
    BY <1>1, <1>2, <2>1, <2>2 DEF BatchRest
<1>10. Sending'
  <2>1. /\ Head(batch') \in Fd /\ Open(Head(batch))' /\ conn'[Head(batch')] = from
        /\ got' = got /\ sends' = sends /\ conn' = conn
    BY <1>2, <1>3 DEF Open, f, from
  <2>2. \A k \in 1..Len(todo') : IsTarget(todo[k])' => conn[todo'[k]] \in Client
    <3> TAKE k \in 1..Len(todo')
    <3>1. todo'[k] \in Fd \cup {Listener}
      BY <1>7 DEF Types
    <3> QED
      BY <1>1, <2>1, <3>1 DEF IsTarget, Open, Types
  <2> QED
    BY <1>6, <2>1, <2>2 DEF Sending
<1> QED
  BY <1>6, <1>7, <1>8, <1>9, <1>10 DEF IInv

\* The first of the entries the loop over j has still to look at goes.
LEMMA RestOfTodo ==
  ASSUME Types, BatchRest, Sending, spc = "send", todo # <<>>, todo' = Tail(todo),
         spc' \in {"send", "killed"},
         UNCHANGED <<backlog, inbox, conn, batch, reported>>,
         \A c \in Client : peer[c] \notin {"new", "connected"} => peer'[c] # "connected",
         \A fd \in Fd : Open(fd) => peer[conn[fd]] # "new"
  PROVE  /\ BatchRest' /\ todo' \in Seq(Fd \cup {Listener})
         /\ Len(todo') \in Nat
         /\ \A k \in 1..Len(todo') : /\ k + 1 \in 1..Len(todo) /\ todo'[k] = todo[k + 1]
                                     /\ todo'[k] # Head(todo) /\ todo'[k] \in Fd \cup {Listener}
<1>1. /\ todo \in Seq(Fd \cup {Listener}) /\ batch \in Seq(Fd \cup {Listener})
  BY DEF Types
<1>2. /\ todo' \in Seq(Fd \cup {Listener}) /\ Len(todo') = Len(todo) - 1
      /\ Len(todo) \in Nat \ {0} /\ Head(todo) = todo[1]
      /\ \A k \in 1..Len(todo') : todo'[k] = todo[k + 1]
  BY <1>1, HeadTailProperties, EmptySeq
<1>3. ASSUME NEW k \in 1..Len(todo')
      PROVE  k + 1 \in 1..Len(todo) /\ k + 1 # 1 /\ 1 \in 1..Len(todo)
  BY <1>2
<1>4. \A k \in 1..Len(todo') : /\ todo'[k] # Head(todo) /\ todo'[k] \in Range(reported)
                               /\ todo'[k] \in Fd \cup {Listener}
  BY <1>2, <1>3 DEF BatchRest
<1>5. \A j, k \in 1..Len(todo') : todo'[j] = todo'[k] => j = k
  <2> TAKE j, k \in 1..Len(todo')
  <2>1. todo[j + 1] = todo[k + 1] => j + 1 = k + 1
    BY <1>3 DEF BatchRest
  <2> QED
    BY <1>2, <2>1
<1>6. ASSUME NEW k \in 1..Len(batch), spc' = "send", k # 1 PROVE Readable(batch[k])'
  <2>1. batch[k] \in Fd \cup {Listener} /\ Readable(batch[k])
    BY <1>1, <1>6 DEF BatchRest
  <2> QED
    BY <2>1 DEF Readable, Open, Types
<1>7. BatchRest'
  BY <1>4, <1>5, <1>6 DEF BatchRest
<1> QED
  BY <1>2, <1>3, <1>4, <1>7

LEMMA SkipInv == IInv /\ Skip => IInv'
<1> SUFFICES ASSUME IInv, Skip PROVE IInv'
  OBVIOUS
<1>1. Types /\ OneConnection /\ BatchRest /\ Unread /\ Received /\ Sending
  BY DEF IInv
<1>2. /\ UNCHANGED <<backlog, peer, inbox, sends, unread, conn, batch, reported, chunk, spc, got>>
      /\ spc = "send" /\ todo # <<>> /\ todo' = Tail(todo)
  BY DEF Skip, clientVars
<1>3. /\ BatchRest' /\ todo' \in Seq(Fd \cup {Listener})
      /\ \A k \in 1..Len(todo') : k + 1 \in 1..Len(todo) /\ todo'[k] = todo[k + 1]
  BY <1>1, <1>2, RestOfTodo DEF OneConnection
<1>4. Types' /\ OneConnection'
  BY <1>1, <1>2, <1>3 DEF Types, OneConnection, Open
<1>5. Unread' /\ Received'
  BY <1>1, <1>2, NothingRead
<1>6. \A f : (Open(f)' <=> Open(f)) /\ (IsTarget(f)' <=> IsTarget(f))
  BY <1>2 DEF Open, IsTarget
<1>7. Sending'
  BY <1>1, <1>2, <1>3, <1>6 DEF Sending
<1> QED
  BY <1>3, <1>4, <1>5, <1>7 DEF IInv

LEMMA WriteInv == IInv /\ Write => IInv'
<1> SUFFICES ASSUME IInv, Write PROVE IInv'
  OBVIOUS
<1> DEFINE t == Head(todo)
           c == conn[t]
           from == conn[Head(batch)]
<1>1. Types /\ OneConnection /\ BatchRest /\ Unread /\ Received /\ Sending
  BY DEF IInv
<1>2. /\ UNCHANGED <<backlog, inbox, sends, conn, batch, reported, chunk>>
      /\ spc = "send" /\ todo # <<>> /\ todo' = Tail(todo) /\ IsTarget(t)
  BY DEF Write
<1>3. \/ /\ peer[c] = "connected" /\ unread[c] < Room
         /\ got' = [got EXCEPT ![c] = @ \o chunk]
         /\ unread' = [unread EXCEPT ![c] = @ + 1]
         /\ UNCHANGED <<peer, spc>>
      \/ /\ peer[c] \in {"closed", "aborted"}
         /\ \E how \in {"closed", "reset"} : peer' = [peer EXCEPT ![c] = how]
         /\ UNCHANGED <<unread, spc, got>>
      \/ spc' = "killed" /\ UNCHANGED <<peer, unread, got>>
  BY DEF Write
<1>4. t = todo[1] /\ 1 \in 1..Len(todo) /\ t \in Fd \cup {Listener}
  BY <1>1, <1>2, EmptySeq DEF Types
<1>5. /\ t \in Fd /\ Open(t) /\ c \in Client /\ from \in Client /\ c # from
      /\ Head(batch) \in Fd /\ Open(Head(batch))
  BY <1>1, <1>2, <1>4 DEF Sending, IsTarget, Open, Types, OneConnection
<1>6. /\ \A i \in 1..Len(chunk) : chunk[i].from = from /\ chunk[i].n <= sends
      /\ \A i, j \in 1..Len(chunk) : i < j => chunk[i].n < chunk[j].n
      /\ \A i \in 1..Len(chunk), j \in 1..Len(inbox[from]) : chunk[i].n < inbox[from][j].n
  BY <1>1, <1>2 DEF Sending
<1>7. \A k \in 1..Len(todo) : IsTarget(todo[k]) =>
        \A i \in 1..Len(got[conn[todo[k]]]), j \in 1..Len(chunk) :
          got[conn[todo[k]]][i].from = from => got[conn[todo[k]]][i].n < chunk[j].n
  BY <1>1, <1>2 DEF Sending
<1> HIDE DEF t, c, from
<1>8. /\ got' \in [Client -> Seq(Message)] /\ Received'
      /\ \A d \in Client \ {c} : got'[d] = got[d]
  <2>1. CASE got' = [got EXCEPT ![c] = @ \o chunk]
    <3>1. \A i \in 1..Len(got[c]), j \in 1..Len(chunk) :
            got[c][i].from = from => got[c][i].n < chunk[j].n
      BY <1>2, <1>4, <1>7 DEF c
    <3>2. from \in Client \ {c}
      BY <1>5
    <3> QED
      BY <1>1, <1>2, <1>5, <1>6, <2>1, <3>1, <3>2, ChunkWritten
  <2>2. CASE UNCHANGED got
    BY <1>1, <1>2, <2>2, NothingRead DEF Types
  <2> QED
    BY <1>3, <2>1, <2>2
<1>9. /\ peer' \in [Client -> {"new", "connected", "closed", "aborted", "reset"}]
      /\ \A d \in Client : peer'[d] = peer[d] \/ /\ peer[d] \in {"closed", "aborted"}
                                                 /\ peer'[d] \in {"closed", "reset"}
      /\ spc' \in {"send", "killed"}
  BY <1>1, <1>2, <1>3, <1>5 DEF Types
<1>10. unread' \in [Client -> 0..Room]
  <2>1. CASE unread[c] < Room /\ unread' = [unread EXCEPT ![c] = @ + 1]
    <3>1. unread[c] \in 0..Room /\ Room \in Nat
      BY <1>1, <1>5, BoundsAssumption DEF Types
    <3>2. unread[c] + 1 \in 0..Room
      BY <2>1, <3>1
    <3> QED
      BY <1>1, <1>5, <2>1, <3>2 DEF Types
  <2> QED
    BY <1>1, <1>3, <2>1 DEF Types
<1>11. /\ BatchRest' /\ todo' \in Seq(Fd \cup {Listener})
       /\ \A k \in 1..Len(todo') : /\ k + 1 \in 1..Len(todo) /\ todo'[k] = todo[k + 1]
                                   /\ todo'[k] # t /\ todo'[k] \in Fd \cup {Listener}
  BY <1>1, <1>2, <1>9, RestOfTodo DEF OneConnection, t
<1>12. Types'
  BY <1>1, <1>2, <1>8, <1>9, <1>10, <1>11 DEF Types
<1>13. OneConnection'
  <2>1. \A g \in Fd : Open(g) => conn[g] \in Client
    BY <1>1 DEF Types, Open
  <2>2. \A k \in 1..Len(backlog) : backlog[k] \in Client
    BY <1>1 DEF Types
  <2> QED
    BY <1>1, <1>2, <1>9, <2>1, <2>2 DEF OneConnection, Open
<1>14. Unread'
  BY <1>1, <1>2 DEF Unread
<1>15. Sending'
  <2>1. \A f : (Open(f)' <=> Open(f)) /\ (IsTarget(f)' <=> IsTarget(f))
    BY <1>2 DEF Open, IsTarget
  <2>2. ASSUME NEW k \in 1..Len(todo'), IsTarget(todo'[k])
        PROVE  \A i \in 1..Len(got'[conn[todo'[k]]]), j \in 1..Len(chunk) :
                 got'[conn[todo'[k]]][i].from = from => got'[conn[todo'[k]]][i].n < chunk[j].n
    <3>1. todo'[k] \in Fd /\ Open(todo'[k]) /\ todo'[k] # t
      BY <1>11, <2>2 DEF IsTarget
    <3>2. conn[todo'[k]] \in Client \ {c}
      BY <1>1, <1>5, <3>1 DEF OneConnection, Open, Types, c
    <3>3. got'[conn[todo'[k]]] = got[conn[todo'[k]]]
      BY <1>8, <3>2
    <3>4. PICK l \in 1..Len(todo) : todo'[k] = todo[l]
      BY <1>11
    <3>5. \A i \in 1..Len(got[conn[todo[l]]]), j \in 1..Len(chunk) :
            got[conn[todo[l]]][i].from = from => got[conn[todo[l]]][i].n < chunk[j].n
      BY <1>7, <2>2, <3>4
    <3> QED
      BY <3>3, <3>4, <3>5
  <2> QED
    BY <1>2, <1>5, <1>6, <2>1, <2>2 DEF Sending, from
<1> QED
  BY <1>8, <1>11, <1>12, <1>13, <1>14, <1>15 DEF IInv

LEMMA SendDoneInv == IInv /\ SendDone => IInv'
<1> SUFFICES ASSUME IInv, SendDone PROVE IInv'
  OBVIOUS
<1>1. Types /\ OneConnection /\ BatchRest /\ Unread /\ Received /\ Sending
  BY DEF IInv
<1>2. /\ UNCHANGED <<backlog, peer, inbox, sends, unread, conn, chunk, todo, got>>
      /\ spc = "send" /\ todo = <<>> /\ NextEntry
  BY DEF SendDone, clientVars
<1>3. \A fd \in Fd \cup {Listener} : Readable(fd) => Readable(fd)'
  BY <1>2 DEF Readable, Open
<1>4. /\ BatchRest' /\ batch' \in Seq(Fd \cup {Listener})
      /\ reported' \in Seq(Fd \cup {Listener}) /\ spc' \in {"wait", "batch"}
  BY <1>1, <1>2, <1>3, RestOfBatch
<1>5. Types' /\ OneConnection'
  BY <1>1, <1>2, <1>4 DEF Types, OneConnection, Open
<1>6. Unread' /\ Received' /\ Sending'
  BY <1>1, <1>2, <1>4, NothingRead DEF Sending
<1> QED
  BY <1>4, <1>5, <1>6 DEF IInv

LEMMA NextInv == IInv /\ [Next]_vars => IInv'
<1> SUFFICES ASSUME IInv, [Next]_vars PROVE IInv'
  OBVIOUS
<1>1. CASE \E c \in Client : Connect(c) \/ Send(c) \/ ReadBroadcast(c) \/ Close(c)
  BY <1>1, ConnectInv, SendInv, ReadBroadcastInv, CloseInv
<1>2. CASE Server
  BY <1>2, EpollWaitInv, AcceptInv, ReadEndInv, ReadChunkInv, SkipInv, WriteInv, SendDoneInv
     DEF Server
<1>3. CASE UNCHANGED vars
  <2>1. UNCHANGED <<backlog, peer, inbox, sends, unread, conn, batch, reported, chunk, todo,
                    spc, got>>
    BY <1>3 DEF vars, clientVars
  <2>2. Types /\ OneConnection /\ BatchRest /\ Unread /\ Received /\ Sending
    BY DEF IInv
  <2>3. Unread' /\ Received' /\ Sending'
    BY <2>1, <2>2, NothingMoved
  <2> QED
    BY <2>1, <2>2, <2>3 DEF IInv, Types, OneConnection, BatchRest, Readable, Open
<1> QED
  BY <1>1, <1>2, <1>3 DEF Next

LEMMA Invariance == Spec => []IInv
BY InitInv, NextInv, PTL DEF Spec

------------------------------------------------------------------------------
(* Theorems. *)

\* Every variable stays in its range.
THEOREM TypeCorrect == Spec => []TypeOK
<1>1. ASSUME IInv PROVE TypeOK
  <2>1. Types /\ BatchRest
    BY <1>1 DEF IInv
  <2>2. /\ Range(backlog) \subseteq Client /\ Range(reported) \subseteq Fd \cup {Listener}
        /\ Range(batch) \cup Range(todo) \subseteq Range(reported)
    <3>1. DOMAIN batch = 1..Len(batch) /\ DOMAIN todo = 1..Len(todo)
      BY <2>1 DEF Types
    <3>2. Range(batch) \cup Range(todo) \subseteq Range(reported)
      BY <2>1, <3>1 DEF BatchRest, Range
    <3>3. Range(backlog) \subseteq Client
      BY <2>1 DEF Types, Range
    <3>4. Range(reported) \subseteq Fd \cup {Listener}
      BY <2>1 DEF Types, Range
    <3> QED
      BY <3>2, <3>3, <3>4
  <2>3. ASSUME NEW c \in Client, NEW m \in Range(got[c]) \cup Range(inbox[c])
        PROVE  m.from \in Client /\ m.n \in 1..MaxSends
    <3>1. got[c] \in Seq(Message) /\ inbox[c] \in Seq(Message)
      BY <2>1 DEF Types
    <3>2. m \in Message
      BY <2>3, <3>1 DEF Range
    <3> QED
      BY <3>2 DEF Message
  <2>4. ASSUME NEW m \in Range(chunk) PROVE m.from \in Client /\ m.n \in 1..MaxSends
    <3>1. m \in Message
      BY <2>1 DEF Types, Range
    <3> QED
      BY <3>1 DEF Message
  <2> QED
    BY <2>1, <2>2, <2>3, <2>4 DEF TypeOK, Types
<1> QED
  BY <1>1, Invariance, PTL

\* ex05.c: what is left of a batch stays readable, although the batch closes descriptors and
\* accept() gives their numbers out again, so the server never blocks on one of them.
THEOREM BatchReadable == Spec => []BatchStaysReadable
<1>1. ASSUME IInv PROVE BatchStaysReadable
  <2>1. Types /\ BatchRest
    BY <1>1 DEF IInv
  <2>2. DOMAIN batch = 1..Len(batch)
    BY <2>1 DEF Types
  <2> QED
    BY <2>1, <2>2 DEF BatchRest, BatchStaysReadable
<1> QED
  BY <1>1, Invariance, PTL

\* ex05.c: a client gets the messages of each other client in order and once, and none of
\* its own.
THEOREM MessagesOrdered == Spec => []OrderedOnce
<1>1. ASSUME IInv PROVE OrderedOnce
  <2> SUFFICES ASSUME NEW c \in Client
               PROVE  /\ \A m \in Range(got[c]) : m.from # c
                      /\ \A i, j \in DOMAIN got[c] :
                           i < j /\ got[c][i].from = got[c][j].from => got[c][i].n < got[c][j].n
    BY DEF OrderedOnce
  <2>1. got[c] \in Seq(Message) /\ GotInOrder(c)
    BY <1>1 DEF IInv, Types, Received
  <2> QED
    BY <2>1 DEF GotInOrder, Range
<1> QED
  BY <1>1, Invariance, PTL

------------------------------------------------------------------------------
(* The specification of the run, in which one of the two epoll servers runs: a step of one *)
(* leaves the variables of the other alone.                                                *)

EchoProofs == INSTANCE EpollEchoProofs
                WITH Client <- EchoClient, peer <- peer2, inbox <- inbox2,
                     batch <- batch2, spc <- spc2, unread <- unread2

\* A behaviour of the run is one of ex05.c.
LEMMA RunsChat == EpollSpec => Spec
<1>1. EpollInit => Init
  BY DEF EpollInit
<1>2. [EpollNext]_<<server, vars, echoVars>> => [Next]_vars
  BY DEF EpollNext
<1> QED
  BY <1>1, <1>2, PTL DEF EpollSpec, Spec

\* The instance the run checks and the one the proofs are about are the same.
LEMMA SameServer == Echo!Next = EchoProofs!Next
<1>1. \A c : /\ Echo!Connect(c) = EchoProofs!Connect(c)
             /\ Echo!ReadEcho(c) = EchoProofs!ReadEcho(c)
  BY DEF Echo!Connect, EchoProofs!Connect, Echo!ReadEcho, EchoProofs!ReadEcho
<1>2. \A c : Echo!Close(c) = EchoProofs!Close(c)
  BY DEF Echo!Close, EchoProofs!Close, Echo!Raised, EchoProofs!Raised
<1>3. \A c, dot : Echo!Send(c, dot) = EchoProofs!Send(c, dot)
  BY DEF Echo!Send, EchoProofs!Send, Echo!Raised, EchoProofs!Raised
<1>4. Echo!EpollWait = EchoProofs!EpollWait
  <2>1. \A S : Echo!SetToSeqs(S) = EchoProofs!SetToSeqs(S)
    BY DEF Echo!SetToSeqs, EchoProofs!SetToSeqs, Echo!Cardinality, EchoProofs!Cardinality,
           Echo!IsFiniteSet, EchoProofs!IsFiniteSet
  <2> QED
    BY <2>1 DEF Echo!EpollWait, EchoProofs!EpollWait, Echo!Waiting, EchoProofs!Waiting,
                Echo!Listener, EchoProofs!Listener
<1>5. Echo!NextEntry = EchoProofs!NextEntry
  BY DEF Echo!NextEntry, EchoProofs!NextEntry
<1>6. Echo!Accept = EchoProofs!Accept
  BY <1>5 DEF Echo!Accept, EchoProofs!Accept, Echo!Waiting, EchoProofs!Waiting,
              Echo!Listener, EchoProofs!Listener
<1>7. \A c : Echo!CloseClient(c) = EchoProofs!CloseClient(c)
  BY <1>5 DEF Echo!CloseClient, EchoProofs!CloseClient
<1>8. Echo!ReadNothing = EchoProofs!ReadNothing
  BY <1>5, <1>7 DEF Echo!ReadNothing, EchoProofs!ReadNothing, Echo!Listener,
                    EchoProofs!Listener
<1>9. Echo!ReadChunk = EchoProofs!ReadChunk
  BY <1>7 DEF Echo!ReadChunk, EchoProofs!ReadChunk, Echo!Listener, EchoProofs!Listener,
              Echo!Written, EchoProofs!Written, Echo!ReadAgain, EchoProofs!ReadAgain
<1>10. Echo!Server = EchoProofs!Server
  BY <1>4, <1>6, <1>8, <1>9 DEF Echo!Server, EchoProofs!Server
<1> QED
  BY <1>1, <1>2, <1>3, <1>10 DEF Echo!Next, EchoProofs!Next

\* A behaviour of the run is one of ex06.c.
LEMMA RunsEcho == EpollSpec => EchoProofs!Spec
<1>1. EpollInit => EchoProofs!Init
  BY DEF EpollInit, Echo!Init, EchoProofs!Init
<1>2. [EpollNext]_<<server, vars, echoVars>> => [EchoProofs!Next]_EchoProofs!vars
  BY SameServer DEF EpollNext, echoVars, EchoProofs!vars
<1> QED
  BY <1>1, <1>2, PTL DEF EpollSpec, EchoProofs!Spec

LEMMA Sizes == EchoProofs!SizesAssumption
  BY EchoAssumption
     DEF Echo!SizesAssumption, EchoProofs!SizesAssumption, Echo!IsFiniteSet,
         EchoProofs!IsFiniteSet, Echo!Listener, EchoProofs!Listener

------------------------------------------------------------------------------
\* The variables of both servers stay in their ranges; in ex06.c no socket holds more
\* than SendBuf bytes a client has not read.
THEOREM EpollTypeCorrect == EpollSpec => []EpollTypeOK
<1>1. EchoProofs!Spec => []EchoProofs!TypeOK
  BY Sizes, EchoProofs!TypeCorrect
<1>2. EchoProofs!TypeOK => Echo!TypeOK
  BY DEF Echo!TypeOK, EchoProofs!TypeOK, Echo!Range, EchoProofs!Range,
         Echo!Listener, EchoProofs!Listener
<1>3. TypeOK /\ Echo!TypeOK => EpollTypeOK
  BY DEF EpollTypeOK
<1> QED
  BY <1>1, <1>2, <1>3, RunsChat, RunsEcho, TypeCorrect, PTL

\* Neither server repeats or reorders what a client gets: ex05.c in its broadcasts, ex06.c
\* in its echoes through the one buffer.
THEOREM OrderKept == EpollSpec => []InOrderOnce
<1>1. EchoProofs!Spec => []EchoProofs!EchoInOrder
  BY Sizes, EchoProofs!EchoOrdered
<1>2. EchoProofs!EchoInOrder => Echo!EchoInOrder
  BY DEF Echo!EchoInOrder, EchoProofs!EchoInOrder
<1>3. OrderedOnce /\ Echo!EchoInOrder => InOrderOnce
  BY DEF InOrderOnce
<1> QED
  BY <1>1, <1>2, <1>3, RunsChat, RunsEcho, MessagesOrdered, PTL

\* ex06.c: the server never sleeps on an open connection with input, or a close, that no
\* edge will announce.
THEOREM NoEdgeLost == EpollSpec => []NoLostEdge
<1>1. EchoProofs!Spec => []EchoProofs!NoLostEdge
  BY Sizes, EchoProofs!EdgesKept
<1>2. EchoProofs!NoLostEdge => NoLostEdge
  BY DEF Echo!NoLostEdge, EchoProofs!NoLostEdge, NoLostEdge
<1> QED
  BY <1>1, <1>2, RunsEcho, PTL
==============================================================================
