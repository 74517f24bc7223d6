------------------------------ MODULE MsgServer ------------------------------
(***************************************************************************)
(* ch09/msg_server.c: a UDP server with two threads and a ring buffer      *)
(* between them.  The main thread polls two datagram sockets and enqueues  *)
(* what it receives; the collector thread dequeues entries and appends     *)
(* them to msg.log.  The ring (queue, q_head, q_tail, q_count) is guarded  *)
(* by q_mutex and the collector sleeps on q_cond.                          *)
(*                                                                         *)
(* A log entry (client address and text without its trailing newline) is   *)
(* one element of Msg; a zero-length datagram is ZeroLength.  The network  *)
(* is an environment that may hand any datagram to either socket at any    *)
(* time: loss, duplication and reordering of UDP are different choices of  *)
(* Arrive.                                                                 *)
(***************************************************************************)
EXTENDS Integers, Sequences, FiniteSets

CONSTANTS Msg,          \* log entries (address, text)
          ZeroLength,   \* a datagram without payload
          Blank,        \* content of a slot of the static array before its use
          QUEUE_SIZE,   \* slots of the ring
          SockBuf,      \* datagrams a socket's receive buffer holds
          MaxArrivals   \* bound on the datagrams that reach the sockets

ASSUME QueueSizeAssumption == QUEUE_SIZE \in Nat \ {0}
ASSUME EntryAssumption == Blank \notin Msg /\ ZeroLength \notin Msg
ASSUME BoundAssumption == SockBuf \in Nat /\ MaxArrivals \in Nat

Port == 1..2            \* index in fds[] of sock1 and sock2
Slots == 0..(QUEUE_SIZE - 1)
Datagram == Msg \cup {ZeroLength}

VARIABLES
  sock,      \* sock[p]: datagrams in the receive buffer of socket p
  arrivals,  \* number of datagrams the network has delivered
  queue, q_head, q_tail, q_count,
  q_mutex,   \* owner of the mutex: "none", "main" or "collect"
  mpc,       \* where the main thread is
  revents,   \* sockets poll() reported readable and not yet received from
  buf,       \* the entry receive_from() is about to enqueue
  cpc,       \* where the collector thread is
  entry,     \* the collector's copy of a slot
  log,       \* lines of msg.log
  refused    \* history: messages enqueue() dropped because the ring was full

netVars == <<sock, arrivals>>
ringVars == <<queue, q_head, q_tail, q_count>>
mainVars == <<mpc, revents, buf, refused>>
collectVars == <<cpc, entry, log>>
vars == <<netVars, ringVars, q_mutex, mainVars, collectVars>>

Init ==
  /\ sock = [p \in Port |-> <<>>]
  /\ arrivals = 0
  /\ queue = [i \in Slots |-> Blank]
  /\ q_head = 0 /\ q_tail = 0 /\ q_count = 0
  /\ q_mutex = "none"
  /\ mpc = "poll" /\ revents = {} /\ buf = Blank /\ refused = 0
  /\ cpc = "open" /\ entry = Blank /\ log = <<>>

Running == mpc # "exited"

\* The index after i in the ring.  Mutations: wrapping one slot late or early.
AdvanceLate(i) == (i + 1) % (QUEUE_SIZE + 1)
AdvanceEarly(i) == IF i + 2 >= QUEUE_SIZE THEN 0 ELSE i + 1
Advance(i) == (i + 1) % QUEUE_SIZE

------------------------------------------------------------------------------
\* The environment: msg_client's sendto(), as far as it reaches a socket.
Arrive(p, d) ==
  /\ Running
  /\ arrivals < MaxArrivals
  /\ Len(sock[p]) < SockBuf
  /\ sock' = [sock EXCEPT ![p] = Append(@, d)]
  /\ arrivals' = arrivals + 1
  /\ UNCHANGED <<ringVars, q_mutex, mainVars, collectVars>>

------------------------------------------------------------------------------
\* The main thread.

\* poll() blocks until a socket is readable and reports every readable one.
Poll ==
  /\ mpc = "poll"
  /\ \E p \in Port : sock[p] # <<>>
  /\ revents' = {p \in Port : sock[p] # <<>>}
  /\ mpc' = "recv"
  /\ UNCHANGED <<netVars, ringVars, q_mutex, buf, refused, collectVars>>

\* poll() < 0: the loop is left, the sockets are closed and main returns,
\* which ends the collector thread as well.
PollFail ==
  /\ mpc = "poll"
  /\ mpc' = "exited"
  /\ UNCHANGED <<netVars, ringVars, q_mutex, revents, buf, refused, collectVars>>

\* Where the loop goes once the sockets in rest are all that is left of the
\* poll result.
AfterReceive(rest) == IF rest = {} THEN "poll" ELSE "recv"

\* recvfrom() on the next readable socket, sock1 before sock2.  An empty
\* datagram is consumed and ignored.
ReceiveFrom ==
  /\ mpc = "recv"
  /\ \E p \in revents :
       /\ \A q \in revents : p <= q
       /\ sock' = [sock EXCEPT ![p] = Tail(@)]
       /\ revents' = revents \ {p}
       /\ IF Head(sock[p]) = ZeroLength
          THEN mpc' = AfterReceive(revents') /\ UNCHANGED buf
          ELSE mpc' = "lock" /\ buf' = Head(sock[p])
  /\ UNCHANGED <<arrivals, ringVars, q_mutex, refused, collectVars>>

\* Mutation: the lock of enqueue() is forgotten.
EnqueueNoLock ==
  /\ mpc = "lock"
  /\ mpc' = "store"
  /\ UNCHANGED <<netVars, ringVars, q_mutex, revents, buf, refused, collectVars>>
EnqueueLock ==
  /\ mpc = "lock"
  /\ q_mutex = "none"
  /\ q_mutex' = "main"
  /\ mpc' = "store"
  /\ UNCHANGED <<netVars, ringVars, revents, buf, refused, collectVars>>

\* The two strncpy() into the slot at q_tail.  Mutation: no test for a full ring.
EnqueueOverwrite ==
  /\ mpc = "store"
  /\ queue' = [queue EXCEPT ![q_tail] = buf]
  /\ mpc' = "advance"
  /\ UNCHANGED <<netVars, q_head, q_tail, q_count, q_mutex, revents, buf, refused,
                 collectVars>>
EnqueueStore ==
  /\ mpc = "store"
  /\ q_count < QUEUE_SIZE
  /\ queue' = [queue EXCEPT ![q_tail] = buf]
  /\ mpc' = "advance"
  /\ UNCHANGED <<netVars, q_head, q_tail, q_count, q_mutex, revents, buf, refused,
                 collectVars>>

\* A full ring: the message is dropped without a word.  Mutation: wait for room.
EnqueueFullWaits ==
  /\ mpc = "store"
  /\ q_count >= QUEUE_SIZE
  /\ UNCHANGED vars
EnqueueFull ==
  /\ mpc = "store"
  /\ q_count >= QUEUE_SIZE
  /\ refused' = refused + 1
  /\ mpc' = "unlock"
  /\ UNCHANGED <<netVars, ringVars, q_mutex, revents, buf, collectVars>>

EnqueueAdvance ==
  /\ mpc = "advance"
  /\ q_tail' = Advance(q_tail)
  /\ q_count' = q_count + 1
  /\ mpc' = "signal"
  /\ UNCHANGED <<netVars, queue, q_head, q_mutex, revents, buf, refused, collectVars>>

\* pthread_cond_signal(): wakes the collector if it waits, is lost otherwise.
\* Mutation: the signal is forgotten.
EnqueueNoSignal ==
  /\ mpc = "signal"
  /\ mpc' = "unlock"
  /\ UNCHANGED <<netVars, ringVars, q_mutex, revents, buf, refused, collectVars>>
EnqueueSignal ==
  /\ mpc = "signal"
  /\ cpc' = IF cpc = "waiting" THEN "woken" ELSE cpc
  /\ mpc' = "unlock"
  /\ UNCHANGED <<netVars, ringVars, q_mutex, revents, buf, refused, entry, log>>

EnqueueUnlock ==
  /\ mpc = "unlock"
  /\ q_mutex' = "none"
  /\ mpc' = AfterReceive(revents)
  /\ UNCHANGED <<netVars, ringVars, revents, buf, refused, collectVars>>

MainStep ==
  \/ Poll \/ PollFail \/ ReceiveFrom \/ EnqueueLock \/ EnqueueStore
  \/ EnqueueFull \/ EnqueueAdvance \/ EnqueueSignal \/ EnqueueUnlock

------------------------------------------------------------------------------
\* The collector thread.

\* fopen(): on failure the thread returns and nobody drains the ring.
CollectOpen ==
  /\ cpc = "open"
  /\ cpc' \in {"lock", "failed"}
  /\ UNCHANGED <<ringVars, q_mutex, entry, log>>

CollectLock ==
  /\ cpc = "lock"
  /\ q_mutex = "none"
  /\ q_mutex' = "collect"
  /\ cpc' = "check"
  /\ UNCHANGED <<ringVars, entry, log>>

\* pthread_cond_wait(): releases the mutex and sleeps in one step.  Mutation:
\* the collector waits without looking at q_count.
CollectWaitBlindly ==
  /\ cpc = "check"
  /\ q_mutex' = "none"
  /\ cpc' = "waiting"
  /\ UNCHANGED <<ringVars, entry, log>>
CollectWait ==
  /\ cpc = "check"
  /\ q_count = 0
  /\ q_mutex' = "none"
  /\ cpc' = "waiting"
  /\ UNCHANGED <<ringVars, entry, log>>

\* POSIX lets pthread_cond_wait() return without a signal.
CollectSpuriousWake ==
  /\ cpc = "waiting"
  /\ cpc' = "woken"
  /\ UNCHANGED <<ringVars, q_mutex, entry, log>>

\* The wait returns with the mutex held and the predicate is tested again.
CollectRelock ==
  /\ cpc = "woken"
  /\ q_mutex = "none"
  /\ q_mutex' = "collect"
  /\ cpc' = "check"
  /\ UNCHANGED <<ringVars, entry, log>>

CollectCopy ==
  /\ cpc = "check"
  /\ q_count # 0
  /\ entry' = queue[q_head]
  /\ cpc' = "advance"
  /\ UNCHANGED <<ringVars, q_mutex, log>>

CollectAdvance ==
  /\ cpc = "advance"
  /\ q_head' = Advance(q_head)
  /\ q_count' = q_count - 1
  /\ cpc' = "unlock"
  /\ UNCHANGED <<queue, q_tail, q_mutex, entry, log>>

CollectUnlock ==
  /\ cpc = "unlock"
  /\ q_mutex' = "none"
  /\ cpc' = "log"
  /\ UNCHANGED <<ringVars, entry, log>>

\* The line is formatted, written and flushed outside the critical section.
CollectLog ==
  /\ cpc = "log"
  /\ log' = Append(log, entry)
  /\ cpc' = "lock"
  /\ UNCHANGED <<ringVars, q_mutex, entry>>

CollectorStep ==
  /\ Running
  /\ \/ CollectOpen \/ CollectLock \/ CollectWait \/ CollectSpuriousWake
     \/ CollectRelock \/ CollectCopy \/ CollectAdvance \/ CollectUnlock
     \/ CollectLog
  /\ UNCHANGED <<netVars, mainVars>>

------------------------------------------------------------------------------
Next ==
  \/ \E p \in Port, d \in Datagram : Arrive(p, d)
  \/ MainStep
  \/ CollectorStep

Spec == Init /\ [][Next]_vars

\* Both threads are scheduled, and a thread that asks for the mutex does not
\* lose every race for it (the collector can take and release it for ever by
\* waking without a signal, hence strong fairness of the two lock steps).
\* Nothing obliges poll() to fail, the condition variable to wake without a
\* signal, or the network to deliver.
CollectorDoes(A) == Running /\ A /\ UNCHANGED <<netVars, mainVars>>

CollectorProgress ==
  CollectOpen \/ CollectWait \/ CollectCopy \/ CollectAdvance \/ CollectUnlock \/ CollectLog

MainProgress ==
  \/ Poll \/ ReceiveFrom \/ EnqueueStore \/ EnqueueFull
  \/ EnqueueAdvance \/ EnqueueSignal \/ EnqueueUnlock

FairSpec ==
  /\ Spec
  /\ WF_vars(MainProgress)
  /\ SF_vars(EnqueueLock)
  /\ WF_vars(CollectorDoes(CollectorProgress))
  /\ SF_vars(CollectorDoes(CollectLock \/ CollectRelock))

------------------------------------------------------------------------------
\* Properties.

\* Every variable stays in its range.
TypeOK ==
  /\ sock \in [Port -> Seq(Datagram)]
  /\ arrivals \in Nat
  /\ queue \in [Slots -> Msg \cup {Blank}]
  /\ q_head \in Slots /\ q_tail \in Slots /\ q_count \in 0..QUEUE_SIZE
  /\ q_mutex \in {"none", "main", "collect"}
  /\ mpc \in {"poll", "recv", "lock", "store", "advance", "signal", "unlock", "exited"}
  /\ revents \in SUBSET Port
  /\ buf \in Msg \cup {Blank}
  /\ refused \in Nat
  /\ cpc \in {"open", "lock", "check", "waiting", "woken", "advance", "unlock",
              "log", "failed"}
  /\ entry \in Msg \cup {Blank}
  /\ log \in Seq(Msg)

\* The slot k places after the oldest entry.
SlotAt(k) == IF q_head + k < QUEUE_SIZE THEN q_head + k ELSE q_head + k - QUEUE_SIZE

\* enqueue() and msg_collect() are never both inside the region q_mutex guards.
MutualExclusion ==
  ~ (/\ mpc \in {"store", "advance", "signal", "unlock"}
     /\ cpc \in {"check", "advance", "unlock"})

\* The three counters stay consistent although each thread moves its own end:
\* q_tail is q_count places after q_head and every slot in between holds a
\* received entry, so the collector never logs an unwritten slot.
RingConsistent ==
  /\ q_tail = (q_head + q_count) % QUEUE_SIZE
  /\ \A k \in 0..(q_count - 1) : queue[SlotAt(k)] \in Msg

\* pthread_cond_signal() without a waiter is lost, so the collector must never
\* go to sleep on entries: it waits on a non-empty ring only while the signal
\* for it is about to be sent.
NoLostWakeup == cpc = "waiting" /\ q_count > 0 => mpc = "signal"

\* The queue implements the bounded first-in first-out buffer: nothing is lost
\* but what enqueue() refuses when full, nothing is logged twice or out of order.
Contents == [i \in 1..q_count |-> queue[SlotAt(i - 1)]]
Taken == IF cpc \in {"unlock", "log"} THEN Append(log, entry) ELSE log

Fifo == INSTANCE BoundedFifo
          WITH Item <- Msg, Capacity <- QUEUE_SIZE,
               items <- Contents, taken <- Taken, refused <- refused

FifoSpec == Fifo!Spec

\* Every entry enqueue() accepted reaches msg.log, unless the collector never
\* opened the file or the process ended first.
AcceptedIsLogged ==
  \A n \in 1..MaxArrivals :
    []<>(Len(Taken) + q_count >= n => Len(log) >= n \/ cpc = "failed" \/ mpc = "exited")

\* A readable socket is drained, whatever the collector is doing: a dead or a
\* slow collector never stops the main thread.
SocketsDrained ==
  \A p \in Port : []<>(sock[p] = <<>> \/ mpc = "exited")
==============================================================================
