--------------------------- MODULE MsgServerProofs ---------------------------
(***************************************************************************)
(* Proofs about MsgServer for every ring size, message set and bound:      *)
(* types, mutual exclusion, consistency of the ring, absence of lost       *)
(* wakeups, and that the queue implements BoundedFifo.  What is proved of  *)
(* it and, in ChatPairProofs, of the chat pairs then holds of the          *)
(* specification that the run checks, MCMessages.                          *)
(***************************************************************************)
EXTENDS MCMessages, SequenceTheorems, TLAPS

------------------------------------------------------------------------------
(* Arithmetic of the ring. *)

\* Reducing a sum of an index and at most one full turn takes one subtraction.
LEMMA RingSum ==
  ASSUME NEW a \in Slots, NEW b \in 0..QUEUE_SIZE
  PROVE  (a + b) % QUEUE_SIZE = IF a + b < QUEUE_SIZE THEN a + b ELSE a + b - QUEUE_SIZE
BY QueueSizeAssumption DEF Slots

\* Advancing an index of the ring wraps at the end and stays in the ring.
LEMMA AdvanceStep ==
  ASSUME NEW i \in Slots
  PROVE  /\ Advance(i) = IF i + 1 = QUEUE_SIZE THEN 0 ELSE i + 1
         /\ Advance(i) \in Slots
BY QueueSizeAssumption DEF Slots, Advance

------------------------------------------------------------------------------
(* The inductive invariant. *)

MainInside == mpc \in {"store", "advance", "signal", "unlock"}
CollectorInside == cpc \in {"check", "advance", "unlock"}

\* Whoever is inside the critical section owns the mutex.
LockInv ==
  /\ MainInside <=> q_mutex = "main"
  /\ CollectorInside <=> q_mutex = "collect"

\* The ring seen through SlotAt, without the modulo.
RingInv ==
  /\ q_tail = SlotAt(q_count)
  /\ \A k \in 0..(q_count - 1) : queue[SlotAt(k)] \in Msg

\* What each thread has established half way through its critical section.
ProgressInv ==
  /\ mpc \in {"lock", "store", "advance"} => buf \in Msg
  /\ mpc = "advance" => q_count < QUEUE_SIZE /\ queue[q_tail] = buf
  /\ cpc = "advance" => q_count > 0 /\ entry = queue[q_head]
  /\ cpc \in {"unlock", "log"} => entry \in Msg
  /\ \A p \in revents : sock[p] # <<>>

IInv == TypeOK /\ LockInv /\ RingInv /\ ProgressInv /\ NoLostWakeup

LEMMA InitInv == Init => IInv
<1> SUFFICES ASSUME Init PROVE IInv
  OBVIOUS
<1>1. TypeOK
  BY QueueSizeAssumption DEF Init, TypeOK, Slots, Datagram
<1>2. LockInv
  BY DEF Init, LockInv, MainInside, CollectorInside
<1>3. RingInv
  BY QueueSizeAssumption DEF Init, RingInv, SlotAt, Slots
<1>4. ProgressInv /\ NoLostWakeup
  BY DEF Init, ProgressInv, NoLostWakeup
<1> QED BY <1>1, <1>2, <1>3, <1>4 DEF IInv

LEMMA NextInv == IInv /\ [Next]_vars => IInv'
<1> SUFFICES ASSUME IInv, [Next]_vars PROVE IInv'
  OBVIOUS
<1> USE DEF IInv
<1>1. CASE \E p \in Port, d \in Datagram : Arrive(p, d)
  <2>1. PICK p \in Port, d \in Datagram : Arrive(p, d)
    BY <1>1
  <2>2. /\ UNCHANGED <<queue, q_head, q_tail, q_count, q_mutex, mpc, revents, buf,
                       refused, cpc, entry, log>>
        /\ arrivals' = arrivals + 1
        /\ sock' = [sock EXCEPT ![p] = Append(@, d)]
    BY <2>1 DEF Arrive, ringVars, mainVars, collectVars
  <2>3. sock[p] \in Seq(Datagram)
    BY DEF TypeOK
  <2>4. Append(sock[p], d) \in Seq(Datagram) /\ Append(sock[p], d) # <<>>
    BY <2>3, AppendProperties
  <2>5. TypeOK'
    BY <2>2, <2>4 DEF TypeOK
  <2>6. LockInv' /\ RingInv' /\ NoLostWakeup'
    BY <2>2 DEF LockInv, MainInside, CollectorInside, RingInv, SlotAt, NoLostWakeup
  <2>7. ProgressInv'
    BY <2>2, <2>4 DEF ProgressInv, TypeOK
  <2> QED BY <2>5, <2>6, <2>7
<1>2. CASE Poll
  BY <1>2 DEF Poll, TypeOK, LockInv, MainInside, CollectorInside, RingInv, SlotAt,
              ProgressInv, NoLostWakeup, netVars, ringVars, collectVars
<1>3. CASE PollFail
  BY <1>3 DEF PollFail, TypeOK, LockInv, MainInside, CollectorInside, RingInv, SlotAt,
              ProgressInv, NoLostWakeup, netVars, ringVars, collectVars
<1>4. CASE ReceiveFrom
  <2>1. PICK p \in revents :
          /\ sock' = [sock EXCEPT ![p] = Tail(@)]
          /\ revents' = revents \ {p}
          /\ IF Head(sock[p]) = ZeroLength
             THEN mpc' = AfterReceive(revents') /\ UNCHANGED buf
             ELSE mpc' = "lock" /\ buf' = Head(sock[p])
    BY <1>4 DEF ReceiveFrom
  <2>2. /\ mpc = "recv"
        /\ UNCHANGED <<arrivals, queue, q_head, q_tail, q_count, q_mutex, refused,
                       cpc, entry, log>>
    BY <1>4 DEF ReceiveFrom, ringVars, collectVars
  <2>3. p \in Port /\ sock[p] \in Seq(Datagram) /\ sock[p] # <<>>
    BY DEF TypeOK, ProgressInv
  <2>4. Head(sock[p]) \in Datagram /\ Tail(sock[p]) \in Seq(Datagram)
    BY <2>3, HeadTailProperties
  <2>5. buf' \in Msg \cup {Blank} /\ (mpc' = "lock" => buf' \in Msg)
    BY <2>1, <2>4 DEF Datagram, TypeOK, AfterReceive
  <2>6. mpc' \in {"poll", "recv", "lock"}
    BY <2>1 DEF AfterReceive
  <2>7. TypeOK'
    <3>1. sock' \in [Port -> Seq(Datagram)]
      BY <2>1, <2>3, <2>4 DEF TypeOK
    <3> QED BY <3>1, <2>1, <2>2, <2>5, <2>6 DEF TypeOK
  <2>8. LockInv' /\ RingInv' /\ NoLostWakeup'
    BY <2>2, <2>6 DEF LockInv, MainInside, CollectorInside, RingInv, SlotAt, NoLostWakeup
  <2>9. \A r \in revents' : sock'[r] # <<>>
    BY <2>1, <2>3 DEF TypeOK, ProgressInv
  <2>10. ProgressInv'
    BY <2>2, <2>5, <2>6, <2>9 DEF ProgressInv
  <2> QED BY <2>7, <2>8, <2>10
<1>5. CASE EnqueueLock
  BY <1>5 DEF EnqueueLock, TypeOK, LockInv, MainInside, CollectorInside, RingInv, SlotAt,
              ProgressInv, NoLostWakeup, netVars, ringVars, collectVars
<1>6. CASE EnqueueStore
  <2>1. /\ mpc = "store" /\ mpc' = "advance"
        /\ q_count < QUEUE_SIZE
        /\ queue' = [queue EXCEPT ![q_tail] = buf]
        /\ UNCHANGED <<sock, arrivals, q_head, q_tail, q_count, q_mutex, revents, buf,
                       refused, cpc, entry, log>>
    BY <1>6 DEF EnqueueStore, netVars, collectVars
  <2>2. buf \in Msg /\ ~CollectorInside
    BY <2>1 DEF ProgressInv, LockInv, MainInside
  <2>3. TypeOK'
    BY <2>1, <2>2 DEF TypeOK
  <2>4. LockInv' /\ NoLostWakeup'
    BY <2>1 DEF LockInv, MainInside, CollectorInside, NoLostWakeup
  <2>5. \A k \in 0..(q_count - 1) : queue'[SlotAt(k)] = queue[SlotAt(k)]
    BY <2>1, QueueSizeAssumption DEF RingInv, SlotAt, TypeOK, Slots
  <2>6. RingInv'
    BY <2>1, <2>5 DEF RingInv, SlotAt
  <2>7. ProgressInv'
    BY <2>1, <2>2 DEF ProgressInv, CollectorInside, TypeOK
  <2> QED BY <2>3, <2>4, <2>6, <2>7
<1>7. CASE EnqueueFull
  BY <1>7 DEF EnqueueFull, TypeOK, LockInv, MainInside, CollectorInside, RingInv, SlotAt,
              ProgressInv, NoLostWakeup, netVars, ringVars, collectVars
<1>8. CASE EnqueueAdvance
  <2>1. /\ mpc = "advance" /\ mpc' = "signal"
        /\ q_tail' = Advance(q_tail) /\ q_count' = q_count + 1
        /\ UNCHANGED <<sock, arrivals, queue, q_head, q_mutex, revents, buf, refused,
                       cpc, entry, log>>
    BY <1>8 DEF EnqueueAdvance, netVars, collectVars
  <2>2. /\ buf \in Msg /\ q_count < QUEUE_SIZE /\ queue[q_tail] = buf
        /\ ~CollectorInside
    BY <2>1 DEF ProgressInv, LockInv, MainInside
  <2>3. Advance(q_tail) \in Slots /\ q_count + 1 \in 0..QUEUE_SIZE
    BY <2>2, AdvanceStep, QueueSizeAssumption DEF TypeOK
  <2>4. TypeOK'
    BY <2>1, <2>3 DEF TypeOK
  <2>5. LockInv' /\ NoLostWakeup'
    BY <2>1 DEF LockInv, MainInside, CollectorInside, NoLostWakeup
  <2>6. Advance(q_tail) = IF q_tail + 1 = QUEUE_SIZE THEN 0 ELSE q_tail + 1
    BY AdvanceStep DEF TypeOK
  <2>7. q_tail' = SlotAt(q_count + 1)
    BY <2>1, <2>2, <2>6, QueueSizeAssumption DEF RingInv, SlotAt, TypeOK, Slots
  <2>8. \A k \in 0..q_count : queue[SlotAt(k)] \in Msg
    BY <2>2 DEF RingInv, TypeOK
  <2>9. RingInv'
    BY <2>1, <2>7, <2>8 DEF RingInv, SlotAt, TypeOK
  <2>10. ProgressInv'
    BY <2>1, <2>2 DEF ProgressInv, CollectorInside
  <2> QED BY <2>4, <2>5, <2>9, <2>10
<1>9. CASE EnqueueSignal
  BY <1>9 DEF EnqueueSignal, TypeOK, LockInv, MainInside, CollectorInside, RingInv, SlotAt,
              ProgressInv, NoLostWakeup, netVars, ringVars
<1>10. CASE EnqueueUnlock
  BY <1>10 DEF EnqueueUnlock, AfterReceive, TypeOK, LockInv, MainInside, CollectorInside,
               RingInv, SlotAt, ProgressInv, NoLostWakeup, netVars, ringVars, collectVars
<1>11. CASE CollectorStep
  <2> UNCHANGED <<sock, arrivals, mpc, revents, buf, refused>>
    BY <1>11 DEF CollectorStep, netVars, mainVars
  <2>1. CASE CollectOpen
    BY <2>1 DEF CollectOpen, TypeOK, LockInv, MainInside, CollectorInside, RingInv,
                SlotAt, ProgressInv, NoLostWakeup, ringVars
  <2>2. CASE CollectLock
    BY <2>2 DEF CollectLock, TypeOK, LockInv, MainInside, CollectorInside, RingInv,
                SlotAt, ProgressInv, NoLostWakeup, ringVars
  <2>3. CASE CollectWait
    BY <2>3 DEF CollectWait, TypeOK, LockInv, MainInside, CollectorInside, RingInv,
                SlotAt, ProgressInv, NoLostWakeup, ringVars
  <2>4. CASE CollectSpuriousWake
    BY <2>4 DEF CollectSpuriousWake, TypeOK, LockInv, MainInside, CollectorInside,
                RingInv, SlotAt, ProgressInv, NoLostWakeup, ringVars
  <2>5. CASE CollectRelock
    BY <2>5 DEF CollectRelock, TypeOK, LockInv, MainInside, CollectorInside, RingInv,
                SlotAt, ProgressInv, NoLostWakeup, ringVars
  <2>6. CASE CollectCopy
    BY <2>6 DEF CollectCopy, TypeOK, LockInv, MainInside, CollectorInside, RingInv,
                SlotAt, ProgressInv, NoLostWakeup, ringVars
  <2>7. CASE CollectAdvance
    <3>1. /\ cpc = "advance" /\ cpc' = "unlock"
          /\ q_head' = Advance(q_head) /\ q_count' = q_count - 1
          /\ UNCHANGED <<queue, q_tail, q_mutex, entry, log>>
      BY <2>7 DEF CollectAdvance
    <3>2. q_count > 0 /\ entry = queue[q_head] /\ ~MainInside
      BY <3>1 DEF ProgressInv, LockInv, CollectorInside
    <3>3. q_head' = IF q_head + 1 = QUEUE_SIZE THEN 0 ELSE q_head + 1
      BY <3>1, AdvanceStep DEF TypeOK
    <3>4. TypeOK'
      <4>1. q_head' \in Slots
        BY <3>1, AdvanceStep DEF TypeOK
      <4>2. q_count' \in 0..QUEUE_SIZE
        BY <3>1, <3>2, QueueSizeAssumption DEF TypeOK
      <4> QED BY <4>1, <4>2, <3>1 DEF TypeOK
    <3>5. LockInv' /\ NoLostWakeup'
      BY <3>1 DEF LockInv, MainInside, CollectorInside, NoLostWakeup
    <3> DEFINE NewSlotAt(k) == IF q_head' + k < QUEUE_SIZE
                               THEN q_head' + k ELSE q_head' + k - QUEUE_SIZE
    <3>6. \A k \in 0..(q_count - 1) : NewSlotAt(k) = SlotAt(k + 1)
      BY <3>1, <3>3, QueueSizeAssumption DEF SlotAt, TypeOK, Slots
    <3>7. RingInv'
      <4>1. q_tail' = NewSlotAt(q_count')
        <5>1. NewSlotAt(q_count - 1) = SlotAt(q_count)
          BY <3>2, <3>6 DEF TypeOK
        <5> QED BY <5>1, <3>1 DEF RingInv
      <4>2. ASSUME NEW k \in 0..(q_count' - 1) PROVE queue'[NewSlotAt(k)] \in Msg
        <5>1. k \in 0..(q_count - 1) /\ k + 1 \in 0..(q_count - 1)
          BY <3>1, <3>2 DEF TypeOK
        <5> QED BY <5>1, <3>1, <3>6 DEF RingInv
      <4> QED BY <4>1, <4>2 DEF RingInv, SlotAt
    <3>8. ProgressInv'
      <4>1. SlotAt(0) = q_head /\ queue[SlotAt(0)] \in Msg
        BY <3>2, QueueSizeAssumption DEF SlotAt, RingInv, TypeOK, Slots
      <4> QED BY <3>1, <3>2, <4>1 DEF ProgressInv, MainInside
    <3> QED BY <3>4, <3>5, <3>7, <3>8
  <2>8. CASE CollectUnlock
    BY <2>8 DEF CollectUnlock, TypeOK, LockInv, MainInside, CollectorInside, RingInv,
                SlotAt, ProgressInv, NoLostWakeup, ringVars
  <2>9. CASE CollectLog
    <3>1. Append(log, entry) \in Seq(Msg)
      BY <2>9, AppendProperties DEF CollectLog, TypeOK, ProgressInv
    <3> QED BY <2>9, <3>1 DEF CollectLog, TypeOK, LockInv, MainInside, CollectorInside,
                 RingInv, SlotAt, ProgressInv, NoLostWakeup, ringVars
  <2> QED BY <1>11, <2>1, <2>2, <2>3, <2>4, <2>5, <2>6, <2>7, <2>8, <2>9
          DEF CollectorStep
<1>12. CASE UNCHANGED vars
  BY <1>12 DEF vars, netVars, ringVars, mainVars, collectVars, TypeOK, LockInv,
               MainInside, CollectorInside, RingInv, SlotAt, ProgressInv, NoLostWakeup
<1> QED BY <1>1, <1>2, <1>3, <1>4, <1>5, <1>6, <1>7, <1>8, <1>9, <1>10, <1>11, <1>12
        DEF Next, MainStep

\* The invariant holds in every reachable state.
LEMMA Invariance == Spec => []IInv
BY InitInv, NextInv, PTL DEF Spec

------------------------------------------------------------------------------
(* Safety theorems. *)

\* Every variable keeps its type: no interleaving of the two threads drives
\* q_count out of 0..QUEUE_SIZE or an index out of the array.
THEOREM TypeCorrect == Spec => []TypeOK
<1>1. IInv => TypeOK
  BY DEF IInv
<1> QED BY <1>1, Invariance, PTL

\* The regions guarded by q_mutex in enqueue() and msg_collect() exclude each other.
THEOREM Exclusion == Spec => []MutualExclusion
<1>1. IInv => MutualExclusion
  BY DEF IInv, LockInv, MainInside, CollectorInside, MutualExclusion
<1> QED BY <1>1, Invariance, PTL

\* q_tail is always q_count places after q_head, and every slot in between was
\* written by enqueue().
THEOREM RingCorrect == Spec => []RingConsistent
<1>1. IInv => RingConsistent
  <2> SUFFICES ASSUME IInv PROVE RingConsistent
    OBVIOUS
  <2>1. (q_head + q_count) % QUEUE_SIZE = SlotAt(q_count)
    BY RingSum DEF IInv, TypeOK, SlotAt
  <2> QED BY <2>1 DEF IInv, RingInv, RingConsistent
<1> QED BY <1>1, Invariance, PTL

\* The collector never sleeps on a non-empty ring once the signal was sent.
THEOREM NoWakeupLost == Spec => []NoLostWakeup
<1>1. IInv => NoLostWakeup
  BY DEF IInv
<1> QED BY <1>1, Invariance, PTL

------------------------------------------------------------------------------
(* The queue implements the bounded first-in first-out buffer. *)

\* The mapped contents are a sequence of q_count received entries.
LEMMA ContentsType ==
  ASSUME IInv
  PROVE  /\ Contents \in Seq(Msg)
         /\ Len(Contents) = q_count
         /\ \A i \in 1..q_count : Contents[i] = queue[SlotAt(i - 1)]
<1>1. q_count \in Nat
  BY QueueSizeAssumption DEF IInv, TypeOK
<1>2. \A i \in 1..q_count : queue[SlotAt(i - 1)] \in Msg
  BY <1>1 DEF IInv, RingInv
<1>3. Contents \in [1..q_count -> Msg]
  BY <1>2 DEF Contents
<1>4. DOMAIN Contents = 1..q_count
  BY DEF Contents
<1> QED BY <1>1, <1>3, <1>4, LenProperties DEF Contents

\* Advancing q_tail over the slot just written appends that entry.
LEMMA AdvanceAppends ==
  ASSUME IInv, IInv', EnqueueAdvance
  PROVE  Len(Contents) < QUEUE_SIZE /\ Contents' = Append(Contents, buf) /\ buf \in Msg
<1>1. /\ q_count' = q_count + 1 /\ q_count < QUEUE_SIZE /\ q_count \in Nat
      /\ queue' = queue /\ q_head' = q_head
      /\ buf \in Msg /\ queue[q_tail] = buf
  BY QueueSizeAssumption DEF EnqueueAdvance, IInv, ProgressInv, TypeOK
<1>2. /\ Contents \in Seq(Msg) /\ Len(Contents) = q_count
      /\ \A i \in 1..q_count : Contents[i] = queue[SlotAt(i - 1)]
  BY ContentsType
<1>3. /\ Append(Contents, buf) \in Seq(Msg)
      /\ Len(Append(Contents, buf)) = q_count + 1
      /\ \A i \in 1..q_count : Append(Contents, buf)[i] = Contents[i]
      /\ Append(Contents, buf)[q_count + 1] = buf
  BY <1>1, <1>2, AppendProperties
<1>4. Contents' = [i \in 1..(q_count + 1) |-> queue[SlotAt(i - 1)]]
  BY <1>1 DEF Contents, SlotAt
<1>5. queue[SlotAt(q_count + 1 - 1)] = buf
  BY <1>1 DEF IInv, RingInv, SlotAt
<1>6. \A i \in 1..(q_count + 1) : Append(Contents, buf)[i] = queue[SlotAt(i - 1)]
  BY <1>1, <1>2, <1>3, <1>5
<1>7. Contents' \in Seq(Msg) /\ Len(Contents') = q_count + 1
  <2>1. \A i \in 1..(q_count + 1) : queue[SlotAt(i - 1)] \in Msg
    BY <1>1, <1>2, <1>3, <1>6
  <2>2. Contents' \in [1..(q_count + 1) -> Msg]
    BY <1>4, <2>1
  <2> QED BY <2>2, <1>1, <1>4, LenProperties
<1>8. \A i \in 1..(q_count + 1) : Contents'[i] = queue[SlotAt(i - 1)]
  BY <1>4
<1> QED BY <1>1, <1>2, <1>3, <1>6, <1>7, <1>8, SeqEqual

\* Advancing q_head removes the oldest entry.
LEMMA AdvanceRemoves ==
  ASSUME IInv, IInv', CollectAdvance
  PROVE  Contents # <<>> /\ entry = Head(Contents) /\ Contents' = Tail(Contents)
<1>1. /\ q_count' = q_count - 1 /\ q_count > 0 /\ q_count \in Nat
      /\ queue' = queue /\ q_head' = Advance(q_head)
      /\ entry = queue[q_head]
  BY QueueSizeAssumption DEF CollectAdvance, IInv, ProgressInv, TypeOK
<1>2. /\ Contents \in Seq(Msg) /\ Len(Contents) = q_count
      /\ \A i \in 1..q_count : Contents[i] = queue[SlotAt(i - 1)]
  BY ContentsType
<1>3. Contents # <<>>
  BY <1>1, <1>2
<1>4. /\ Tail(Contents) \in Seq(Msg) /\ Len(Tail(Contents)) = q_count - 1
      /\ \A i \in 1..(q_count - 1) : Tail(Contents)[i] = Contents[i + 1]
      /\ Head(Contents) = Contents[1]
  BY <1>1, <1>2, <1>3, HeadTailProperties
<1>5. Head(Contents) = entry
  <2>1. SlotAt(1 - 1) = q_head
    BY QueueSizeAssumption DEF SlotAt, IInv, TypeOK, Slots
  <2> QED BY <2>1, <1>1, <1>2, <1>4
<1> DEFINE NewSlotAt(k) == IF q_head' + k < QUEUE_SIZE
                           THEN q_head' + k ELSE q_head' + k - QUEUE_SIZE
<1>6. \A i \in 1..(q_count - 1) : NewSlotAt(i - 1) = SlotAt(i)
  <2>1. q_head' = IF q_head + 1 = QUEUE_SIZE THEN 0 ELSE q_head + 1
    BY <1>1, AdvanceStep DEF IInv, TypeOK
  <2>2. q_head \in 0..(QUEUE_SIZE - 1) /\ q_count \in 0..QUEUE_SIZE
    BY DEF IInv, TypeOK, Slots
  <2> QED BY <2>1, <2>2, QueueSizeAssumption DEF SlotAt
<1>7. Contents' = [i \in 1..(q_count - 1) |-> queue[NewSlotAt(i - 1)]]
  BY <1>1 DEF Contents, SlotAt
<1>8. \A i \in 1..(q_count - 1) : Contents'[i] = Tail(Contents)[i]
  <2> SUFFICES ASSUME NEW i \in 1..(q_count - 1) PROVE Contents'[i] = Tail(Contents)[i]
    OBVIOUS
  <2>1. Contents'[i] = queue[SlotAt(i)]
    BY <1>6, <1>7
  <2>2. Tail(Contents)[i] = queue[SlotAt(i + 1 - 1)]
    BY <1>1, <1>2, <1>4
  <2>3. i + 1 - 1 = i
    BY <1>1
  <2> QED BY <2>1, <2>2, <2>3
<1>9. Contents' \in Seq(Msg) /\ Len(Contents') = q_count - 1
  <2>1. \A i \in 1..(q_count - 1) : Contents'[i] \in Msg
    BY <1>4, <1>8
  <2>2. Contents' \in [1..(q_count - 1) -> Msg]
    BY <1>7, <2>1
  <2> QED BY <2>2, <1>1, <1>7, LenProperties
<1> QED BY <1>3, <1>4, <1>5, <1>8, <1>9, <1>1, SeqEqual

\* A step that leaves the ring, the log and the refusals alone, and moves the
\* collector neither into nor out of the steps between q_count-- and the log
\* line, is a stuttering step of the buffer.
LEMMA Stutter ==
  ASSUME UNCHANGED <<queue, q_head, q_count, log, entry, refused>>,
         cpc' \in {"unlock", "log"} <=> cpc \in {"unlock", "log"}
  PROVE  UNCHANGED <<Contents, Taken, refused>>
BY DEF Contents, SlotAt, Taken

\* Every step of the server is a step of the buffer or leaves it unchanged.
LEMMA StepSimulation ==
  ASSUME IInv, IInv', [Next]_vars
  PROVE  [Fifo!Next]_<<Contents, Taken, refused>>
<1>1. CASE \E p \in Port, d \in Datagram : Arrive(p, d)
  BY <1>1, Stutter DEF Arrive, ringVars, collectVars, mainVars
<1>2. CASE Poll \/ PollFail \/ ReceiveFrom \/ EnqueueLock \/ EnqueueUnlock
  BY <1>2, Stutter DEF Poll, PollFail, ReceiveFrom, EnqueueLock, EnqueueUnlock,
                       ringVars, collectVars
<1>3. CASE EnqueueStore
  <2>1. q_tail = SlotAt(q_count) /\ q_count < QUEUE_SIZE
    BY <1>3 DEF EnqueueStore, IInv, RingInv
  <2>2. \A i \in 1..q_count : queue'[SlotAt(i - 1)] = queue[SlotAt(i - 1)]
    BY <1>3, <2>1, QueueSizeAssumption DEF EnqueueStore, SlotAt, IInv, TypeOK, Slots
  <2>3. UNCHANGED Contents
    BY <1>3, <2>2 DEF EnqueueStore, Contents, SlotAt
  <2> QED BY <1>3, <2>3 DEF EnqueueStore, collectVars, Taken
<1>4. CASE EnqueueFull
  <2>1. Len(Contents) = QUEUE_SIZE
    BY <1>4, ContentsType, QueueSizeAssumption DEF EnqueueFull, IInv, TypeOK
  <2>2. UNCHANGED <<Contents, Taken>>
    BY <1>4 DEF EnqueueFull, ringVars, collectVars, Contents, SlotAt, Taken
  <2> QED BY <1>4, <2>1, <2>2 DEF EnqueueFull, Fifo!Next, Fifo!Refuse
<1>5. CASE EnqueueAdvance
  <2>1. UNCHANGED <<Taken, refused>>
    BY <1>5 DEF EnqueueAdvance, collectVars, Taken
  <2> QED BY <1>5, <2>1, AdvanceAppends DEF Fifo!Next, Fifo!Put
<1>6. CASE EnqueueSignal
  BY <1>6, Stutter DEF EnqueueSignal, ringVars
<1>7. CASE CollectorStep
  <2> UNCHANGED refused
    BY <1>7 DEF CollectorStep, mainVars
  <2>1. CASE CollectOpen \/ CollectLock \/ CollectWait \/ CollectSpuriousWake \/ CollectRelock
    BY <2>1, Stutter DEF CollectOpen, CollectLock, CollectWait, CollectSpuriousWake,
                         CollectRelock, ringVars
  <2>2. CASE CollectCopy
    BY <2>2 DEF CollectCopy, ringVars, Contents, SlotAt, Taken
  <2>3. CASE CollectAdvance
    <3>1. Taken' = Append(Taken, entry)
      BY <2>3 DEF CollectAdvance, Taken
    <3> QED BY <2>3, <3>1, AdvanceRemoves DEF Fifo!Next, Fifo!Take
  <2>4. CASE CollectUnlock
    BY <2>4, Stutter DEF CollectUnlock, ringVars
  <2>5. CASE CollectLog
    BY <2>5 DEF CollectLog, ringVars, Contents, SlotAt, Taken
  <2> QED BY <1>7, <2>1, <2>2, <2>3, <2>4, <2>5 DEF CollectorStep
<1>8. CASE UNCHANGED vars
  BY <1>8, Stutter DEF vars, ringVars, mainVars, collectVars
<1> QED BY <1>1, <1>2, <1>3, <1>4, <1>5, <1>6, <1>7, <1>8 DEF Next, MainStep

\* The ring with its two threads implements the bounded buffer: whatever the
\* schedule, an accepted entry is logged at most once and in order of arrival,
\* and only a full ring loses one.
THEOREM Refinement == Spec => FifoSpec
<1>1. Init => Fifo!Init
  <2> SUFFICES ASSUME Init PROVE Contents = <<>> /\ Taken = <<>> /\ refused = 0
    BY DEF Fifo!Init
  <2>1. IInv /\ q_count = 0
    BY InitInv DEF Init
  <2>2. Contents = <<>>
    BY <2>1, ContentsType
  <2> QED BY <2>2 DEF Init, Taken
<1>2. IInv /\ IInv' /\ [Next]_vars => [Fifo!Next]_Fifo!fifoVars
  BY StepSimulation DEF Fifo!fifoVars
<1> QED BY <1>1, <1>2, Invariance, PTL DEF Spec, FifoSpec, Fifo!Spec

------------------------------------------------------------------------------
(* The specification of the run, in which the log server or a chat pair runs: a step of   *)
(* one leaves the variables of the other alone.                                           *)

PairProofs == INSTANCE ChatPairProofs

\* A behaviour of the run is one of the log server.
LEMMA RunsLog == MessagesSpec => Spec
<1>1. MessagesInit => Init
  BY DEF MessagesInit
<1>2. [MessagesNext]_<<program, vars, pairVars>> => [Next]_vars
  BY DEF MessagesNext
<1> QED
  BY <1>1, <1>2, PTL DEF MessagesSpec, Spec

\* The pair the run checks and the one the proofs are about are the same.
LEMMA SamePair == Pair!Next = PairProofs!Next
<1>1. /\ Pair!Side = PairProofs!Side /\ Pair!Exit = PairProofs!Exit
      /\ Pair!Stale = PairProofs!Stale /\ Pair!EndOfFile = PairProofs!EndOfFile
      /\ Pair!inputVars = PairProofs!inputVars /\ Pair!vars = PairProofs!vars
  BY DEF Pair!Side, PairProofs!Side, Pair!Exit, PairProofs!Exit, Pair!Stale,
         PairProofs!Stale, Pair!EndOfFile, PairProofs!EndOfFile, Pair!inputVars,
         PairProofs!inputVars, Pair!vars, PairProofs!vars
<1>2. /\ \A e : Pair!Other(e) = PairProofs!Other(e) /\ Pair!Gone(e) = PairProofs!Gone(e)
      /\ \A f : Pair!Range(f) = PairProofs!Range(f)
      /\ \A s : Pair!Front(s) = PairProofs!Front(s)
      /\ \A line : Pair!Begins(line) = PairProofs!Begins(line)
  BY <1>1 DEF Pair!Other, PairProofs!Other, Pair!Gone, PairProofs!Gone, Pair!Range,
              PairProofs!Range, Pair!Front, PairProofs!Front, Pair!Begins, PairProofs!Begins
<1>3. \A s : Pair!Lines(s) = PairProofs!Lines(s)
  BY <1>1 DEF Pair!Lines, PairProofs!Lines
<1>4. \A e : /\ Pair!Ended(e) = PairProofs!Ended(e) /\ Pair!HangUp(e) = PairProofs!HangUp(e)
             /\ Pair!Cut(e) = PairProofs!Cut(e)
  BY <1>1, <1>2 DEF Pair!Ended, PairProofs!Ended, Pair!HangUp, PairProofs!HangUp, Pair!Cut,
                    PairProofs!Cut
<1>5. \A e : /\ Pair!StdinReady(e) = PairProofs!StdinReady(e)
             /\ Pair!Block(e) = PairProofs!Block(e)
             /\ Pair!LeftInStdin(e) = PairProofs!LeftInStdin(e)
  BY <1>1, <1>2, <1>4 DEF Pair!StdinReady, PairProofs!StdinReady, Pair!Block,
                          PairProofs!Block, Pair!LeftInStdin, PairProofs!LeftInStdin
<1>6. /\ Pair!Listen = PairProofs!Listen /\ Pair!ConnectTo = PairProofs!ConnectTo
      /\ Pair!Accept = PairProofs!Accept
  BY DEF Pair!Listen, PairProofs!Listen, Pair!ConnectTo, PairProofs!ConnectTo, Pair!Accept,
         PairProofs!Accept, Pair!inputVars, PairProofs!inputVars
<1>7. \A e : /\ Pair!Type(e) = PairProofs!Type(e)
             /\ Pair!EndInput(e) = PairProofs!EndInput(e)
             /\ Pair!ResetArrives(e) = PairProofs!ResetArrives(e)
  BY <1>1, <1>2, <1>4 DEF Pair!Type, PairProofs!Type, Pair!EndInput, PairProofs!EndInput,
                          Pair!ResetArrives, PairProofs!ResetArrives, Pair!inputVars,
                          PairProofs!inputVars
<1>8. \A e : Pair!StdinTurn(e) = PairProofs!StdinTurn(e)
  <2>1. \A e, line : /\ Pair!FgetsLine(e, line) = PairProofs!FgetsLine(e, line)
                     /\ Pair!FgetsNull(e) = PairProofs!FgetsNull(e)
    BY <1>1, <1>5 DEF Pair!FgetsLine, PairProofs!FgetsLine, Pair!FgetsNull,
                      PairProofs!FgetsNull
  <2>2. \A e, line, exits : Pair!Deliver(e, line, exits) = PairProofs!Deliver(e, line, exits)
    BY <1>2 DEF Pair!Deliver, PairProofs!Deliver
  <2>3. \A e : /\ Pair!SayLine(e) = PairProofs!SayLine(e)
               /\ Pair!SayAgain(e) = PairProofs!SayAgain(e)
    BY <1>1, <1>2, <2>1, <2>2 DEF Pair!SayLine, PairProofs!SayLine, Pair!SayAgain,
                                  PairProofs!SayAgain
  <2> QED
    BY <1>5, <2>3 DEF Pair!StdinTurn, PairProofs!StdinTurn
<1>9. \A e : /\ Pair!RecvTurn(e) = PairProofs!RecvTurn(e)
             /\ Pair!CutTurn(e) = PairProofs!CutTurn(e)
             /\ Pair!ErrorTurn(e) = PairProofs!ErrorTurn(e)
  BY <1>1, <1>2, <1>3, <1>4, <1>5 DEF Pair!RecvTurn, PairProofs!RecvTurn, Pair!CutTurn,
     PairProofs!CutTurn, Pair!ErrorTurn, PairProofs!ErrorTurn, Pair!inputVars,
     PairProofs!inputVars
<1> QED
  BY <1>1, <1>6, <1>7, <1>8, <1>9 DEF Pair!Next, PairProofs!Next, Pair!Chatting,
                                      PairProofs!Chatting

\* A behaviour of the run is one of the chat pair.
LEMMA RunsPair == MessagesSpec => PairProofs!Spec
<1>1. MessagesInit => PairProofs!Init
  BY DEF MessagesInit, Pair!Init, PairProofs!Init, Pair!Side, PairProofs!Side
<1>2. [MessagesNext]_<<program, vars, pairVars>> => [PairProofs!Next]_PairProofs!vars
  BY SamePair DEF MessagesNext, pairVars, PairProofs!vars, PairProofs!inputVars
<1> QED
  BY <1>1, <1>2, PTL DEF MessagesSpec, PairProofs!Spec

LEMMA PairBounds == PairProofs!BoundsAssumption
BY PairAssumption DEF Pair!BoundsAssumption, PairProofs!BoundsAssumption

\* The variables of the chat pairs stay in their ranges.
THEOREM PairTypeCorrect == MessagesSpec => []PairTypeOK
<1>1. PairProofs!Spec => []PairProofs!TypeOK
  BY PairBounds, PairProofs!TypeCorrect
<1>2. PairProofs!TypeOK => PairTypeOK
  <2>1. \A f : Pair!Range(f) = PairProofs!Range(f)
    BY DEF Pair!Range, PairProofs!Range
  <2> QED
    BY <2>1 DEF PairTypeOK, Pair!TypeOK, PairProofs!TypeOK, Pair!Side, PairProofs!Side,
                Pair!EndOfFile, PairProofs!EndOfFile, Pair!Stale, PairProofs!Stale
<1> QED
  BY <1>1, <1>2, RunsPair, PTL

\* In the chat pairs a side says what was typed on it, and the other shows what it said, line
\* by line, although stdio reads ahead and a socket hands out what has come.
THEOREM TypedIsSaid == MessagesSpec => []SaidWasTyped
<1>1. PairProofs!Spec => []PairProofs!SaidWasTyped
  BY PairBounds, PairProofs!SaysWhatWasTyped
<1>2. PairProofs!SaidWasTyped => SaidWasTyped
  <2>1. /\ \A s : Pair!Lines(s) = PairProofs!Lines(s)
        /\ \A s, t : Pair!IsPrefix(s, t) = PairProofs!IsPrefix(s, t)
        /\ \A f : Pair!Range(f) = PairProofs!Range(f)
    BY DEF Pair!Lines, PairProofs!Lines, Pair!IsPrefix, PairProofs!IsPrefix, Pair!Range,
           PairProofs!Range, Pair!Stale, PairProofs!Stale
  <2>2. \A e : Pair!Other(e) = PairProofs!Other(e) /\ Pair!Gone(e) = PairProofs!Gone(e)
    BY DEF Pair!Other, PairProofs!Other, Pair!Gone, PairProofs!Gone
  <2> QED
    BY <2>1, <2>2 DEF SaidWasTyped, Pair!SaidWasTyped, PairProofs!SaidWasTyped, Pair!Side,
                      PairProofs!Side, Pair!Stale, PairProofs!Stale
<1> QED
  BY <1>1, <1>2, RunsPair, PTL

\* A side of a chat that ends with "CUT." has shown everything the other side said.
THEOREM CutComesLast == MessagesSpec => []CutLosesNothing
<1>1. PairProofs!Spec => []PairProofs!CutLosesNothing
  BY PairBounds, PairProofs!CutIsLast
<1>2. PairProofs!CutLosesNothing => CutLosesNothing
  BY DEF CutLosesNothing, Pair!CutLosesNothing, PairProofs!CutLosesNothing, Pair!Side,
         PairProofs!Side, Pair!Other, PairProofs!Other
<1> QED
  BY <1>1, <1>2, RunsPair, PTL

\* What is proved of the log server holds of the run.
THEOREM LogOfRun == MessagesSpec => [](TypeOK /\ RingConsistent /\ NoLostWakeup) /\ FifoSpec
BY RunsLog, TypeCorrect, RingCorrect, NoWakeupLost, Refinement, PTL

==============================================================================
