--------------------------- MODULE ExampleProofs ---------------------------
(***************************************************************************)
(* Proofs about the programs of ch06, ch06-2, ch07 and ch08 for every      *)
(* value of the constants.  SemHandoff: the semaphores keep the two        *)
(* programs apart, which together implement a one-place buffer.  BusyPair, *)
(* PosixShm, FifoPair, QueueTalk: what the programs do right without a     *)
(* semaphore or a look at a result.  ThreadExamples, SignalExamples: what  *)
(* no time of a cancellation, a join or a signal spoils.  The last         *)
(* section: a run of any one of them, with SemRestart, as MCExamples says. *)
(***************************************************************************)
EXTENDS MCExamples, FiniteSetTheorems, SequenceTheorems, WellFoundedInduction, TLAPS

\* The first n messages, in order.
Prefix(n) == [j \in 1..n |-> j]

\* Printing message n + 1 behind the first n.
LEMMA PrefixProperties ==
  ASSUME NEW n \in Nat
  PROVE  /\ Prefix(n) \in Seq(1..n)
         /\ Len(Prefix(n)) = n
         /\ Append(Prefix(n), n + 1) = Prefix(n + 1)
<1>1. \A k \in Nat : Prefix(k) \in Seq(1..k) /\ Len(Prefix(k)) = k
  <2> SUFFICES ASSUME NEW k \in Nat PROVE Prefix(k) \in Seq(1..k) /\ Len(Prefix(k)) = k
    OBVIOUS
  <2>1. Prefix(k) \in [1..k -> 1..k] /\ DOMAIN Prefix(k) = 1..k
    BY DEF Prefix
  <2> QED BY <2>1, LenProperties
<1>2. /\ Append(Prefix(n), n + 1) \in Seq(1..(n + 1))
      /\ Len(Append(Prefix(n), n + 1)) = n + 1
      /\ \A j \in 1..n : Append(Prefix(n), n + 1)[j] = Prefix(n)[j]
      /\ Append(Prefix(n), n + 1)[n + 1] = n + 1
  <2>1. Prefix(n) \in Seq(1..(n + 1))
    <3>1. Prefix(n) \in [1..n -> 1..(n + 1)]
      BY DEF Prefix
    <3> QED BY <3>1
  <2>2. Len(Prefix(n)) = n /\ n + 1 \in 1..(n + 1)
    BY <1>1
  <2> QED BY <2>1, <2>2, AppendProperties
<1>3. \A j \in 1..(n + 1) : Append(Prefix(n), n + 1)[j] = Prefix(n + 1)[j]
  BY <1>2 DEF Prefix
<1>4. Append(Prefix(n), n + 1) = Prefix(n + 1)
  BY <1>1, <1>2, <1>3, SeqEqual
<1> QED BY <1>1, <1>4

------------------------------------------------------------------------------
(* The inductive invariant, by the phases of the sender. *)

NoPermit == sem[0] = 0 /\ sem[1] = 0

\* Before the sender has set both semaphores the receiver can only wait.
StartInv ==
  spc \in {"shmget", "semget", "setval0", "setval1"} =>
    /\ set # "removed" /\ (rpc = "p" \/ spc \in {"setval0", "setval1"} => set = "live")
    /\ sem[1] = 0 /\ sem[0] = IF spc = "setval1" THEN 1 ELSE 0
    /\ i = 1 /\ printed = Prefix(0) /\ text = Nothing
    /\ rpc \in {"shmget", "semget", "p"}

\* While the sender waits for its turn, the one permit is either a semaphore or
\* the receiver's, and tells how far the receiver has come.
TurnInv ==
  spc = "p" =>
    /\ set = "live"
    /\ \/ /\ sem[0] = 1 /\ sem[1] = 0 /\ ~ReceiverInside
          /\ printed = Prefix(i - 1)
       \/ /\ NoPermit /\ rpc = "v"
          /\ printed = Prefix(i - 1)
       \/ /\ sem[0] = 0 /\ sem[1] = 1 /\ ~ReceiverInside
          /\ i > 1 /\ text = i - 1 /\ printed = Prefix(i - 2)
       \/ /\ NoPermit /\ rpc \in {"check", "print"}
          /\ i > 1 /\ text = i - 1 /\ printed = Prefix(i - 2)

\* While the sender is inside, the receiver is outside and has printed everything.
InsideInv ==
  SenderInside =>
    /\ set = "live" /\ NoPermit /\ ~ReceiverInside /\ rpc # "done"
    /\ printed = Prefix(i - 1)
    /\ spc = "v" => i <= N /\ text = i
    /\ spc = "rmid" => i = N + 1 /\ text = End

\* The end: the set is gone and the receiver finds "end".
DoneInv ==
  /\ spc \in {"rmid2", "done"} =>
       /\ set = "removed" /\ NoPermit
       /\ i = N + 1 /\ text = End /\ printed = Prefix(N)
       /\ rpc \in {"p", "check", "rmid", "rmset", "done"}
  /\ rpc \in {"rmid", "rmset", "done"} => spc \in {"rmid2", "done"}
  /\ rpc \in {"rmset", "done"} => shm = "removed"
  /\ printed # Prefix(0) => rpc \notin {"shmget", "semget"}

\* The segment exists from the first shmget() to the end of the receiver, so that no
\* later shmget() finds it gone and starts with an empty one.
SegmentInv ==
  /\ (spc # "shmget" \/ rpc # "shmget") /\ rpc \notin {"rmset", "done"} => shm = "live"
  /\ shm = "none" => text = Nothing

IInv == TypeOK /\ StartInv /\ TurnInv /\ InsideInv /\ DoneInv /\ SegmentInv

\* The first n messages, for n > 0, are not no messages.
LEMMA PrefixNotEmpty == \A n \in Nat \ {0} : Prefix(n) # Prefix(0)
<1> SUFFICES ASSUME NEW n \in Nat \ {0} PROVE Prefix(n) # Prefix(0)
  OBVIOUS
<1>1. Len(Prefix(n)) = n /\ Len(Prefix(0)) = 0
  BY PrefixProperties
<1> QED BY <1>1

LEMMA InitInv == Init => IInv
<1> SUFFICES ASSUME Init PROVE IInv
  OBVIOUS
<1>1. Prefix(0) = <<>>
  <2>1. Len(Prefix(0)) = 0 /\ Prefix(0) \in Seq(1..0)
    BY PrefixProperties
  <2> QED BY <2>1, EmptySeq
<1>2. TypeOK
  BY NAssumption DEF Init, TypeOK, Nothing
<1> QED BY <1>1, <1>2
           DEF Init, IInv, StartInv, TurnInv, InsideInv, DoneInv, SegmentInv, SenderInside,
                          ReceiverInside

LEMMA SenderInv == IInv /\ Sender => IInv'
<1> SUFFICES ASSUME IInv, Sender PROVE IInv'
  OBVIOUS
<1> USE NAssumption DEF IInv, End, Nothing, NoPermit, SenderInside, ReceiverInside
<1>1. CASE SenderShmget
  BY <1>1
     DEF SenderShmget, GetShm, TypeOK, StartInv, TurnInv, InsideInv, DoneInv, SegmentInv
<1>2. CASE SenderSemget
  BY <1>2
     DEF SenderSemget, GetSem, TypeOK, StartInv, TurnInv, InsideInv, DoneInv, SegmentInv
<1>3. CASE SenderSetval0
  BY <1>3
     DEF SenderSetval0, InitialPermits, TypeOK, StartInv, TurnInv, InsideInv, DoneInv, SegmentInv
<1>4. CASE SenderSetval1
  BY <1>4 DEF SenderSetval1, TypeOK, StartInv, TurnInv, InsideInv, DoneInv, SegmentInv
<1>5. CASE SenderP
  <2>1. set = "live" /\ sem[0] > 0 /\ sem' = [sem EXCEPT ![0] = @ - 1]
    BY <1>5 DEF SenderP, P, TurnInv
  <2>2. sem[0] = 1 /\ sem[1] = 0 /\ ~ReceiverInside /\ printed = Prefix(i - 1)
    BY <1>5, <2>1 DEF SenderP, TypeOK, TurnInv
  <2>3. sem' \in [0..1 -> 0..1] /\ sem'[0] = 0 /\ sem'[1] = 0
    BY <2>1, <2>2 DEF TypeOK
  <2> QED BY <1>5, <2>1, <2>2, <2>3
             DEF SenderP, TypeOK, StartInv, TurnInv, InsideInv, DoneInv, SegmentInv
<1>6. CASE SenderWrite
  BY <1>6 DEF SenderWrite, TypeOK, StartInv, TurnInv, InsideInv, DoneInv, SegmentInv
<1>7. CASE SenderV
  <2>1. /\ set = "live" /\ NoPermit /\ ~ReceiverInside /\ rpc # "done"
        /\ printed = Prefix(i - 1) /\ i <= N /\ text = i
    BY <1>7 DEF SenderV, InsideInv
  <2>2. sem' = [sem EXCEPT ![1] = 1]
    BY <1>7, <2>1 DEF SenderV, V, TypeOK
  <2>3. sem' \in [0..1 -> 0..1] /\ sem'[0] = 0 /\ sem'[1] = 1
    BY <2>1, <2>2 DEF TypeOK
  <2>4. i' = i + 1 /\ i' \in 1..(N + 1) /\ i' > 1 /\ i' - 2 = i - 1
    BY <1>7, <2>1 DEF SenderV, TypeOK
  <2> QED BY <1>7, <2>1, <2>3, <2>4
             DEF SenderV, TypeOK, StartInv, TurnInv, InsideInv, DoneInv, SegmentInv
<1>8. CASE SenderRmid
  <2>1. i = N + 1 /\ printed = Prefix(N) /\ printed # Prefix(0)
    BY <1>8, PrefixNotEmpty DEF SenderRmid, InsideInv
  <2> QED BY <1>8, <2>1
             DEF SenderRmid, TypeOK, StartInv, TurnInv, InsideInv, DoneInv, SegmentInv
<1>9. CASE SenderRmidAgain
  BY <1>9 DEF SenderRmidAgain, TypeOK, StartInv, TurnInv, InsideInv, DoneInv, SegmentInv
<1> QED BY <1>1, <1>2, <1>3, <1>4, <1>5, <1>6, <1>7, <1>8, <1>9 DEF Sender

LEMMA ReceiverInv == IInv /\ Receiver => IInv'
<1> SUFFICES ASSUME IInv, Receiver PROVE IInv'
  OBVIOUS
<1> USE NAssumption DEF IInv, End, Nothing, NoPermit, SenderInside, ReceiverInside
<1>1. CASE ReceiverShmget
  <2>1. spc \notin {"rmid2", "done"}
    BY <1>1 DEF ReceiverShmget, DoneInv
  <2> QED BY <1>1, <2>1
             DEF ReceiverShmget, GetShm, TypeOK, StartInv, TurnInv, InsideInv, DoneInv, SegmentInv
<1>2. CASE ReceiverSemget
  <2>1. spc \notin {"rmid2", "done"}
    BY <1>2 DEF ReceiverSemget, DoneInv
  <2> QED BY <1>2, <2>1
             DEF ReceiverSemget, GetSem, TypeOK, StartInv, TurnInv, InsideInv, DoneInv, SegmentInv
<1>3. CASE ReceiverP
  <2>1. CASE set = "removed"
    BY <1>3, <2>1
       DEF ReceiverP, P, TypeOK, StartInv, TurnInv, InsideInv, DoneInv, SegmentInv
  <2>2. CASE set # "removed"
    <3>1. sem[1] > 0 /\ sem' = [sem EXCEPT ![1] = @ - 1]
      BY <1>3, <2>2 DEF ReceiverP, P
    <3>2. /\ spc = "p" /\ sem[0] = 0 /\ sem[1] = 1
          /\ i > 1 /\ text = i - 1 /\ printed = Prefix(i - 2)
      BY <3>1 DEF TypeOK, StartInv, TurnInv, InsideInv, DoneInv, SegmentInv
    <3>3. sem' \in [0..1 -> 0..1] /\ sem'[0] = 0 /\ sem'[1] = 0
      BY <3>1, <3>2 DEF TypeOK
    <3> QED BY <1>3, <2>2, <3>2, <3>3
            DEF ReceiverP, TypeOK, StartInv, TurnInv, InsideInv, DoneInv, SegmentInv
  <2> QED BY <2>1, <2>2
<1>4. CASE ReceiverCheck
  BY <1>4 DEF ReceiverCheck, TypeOK, StartInv, TurnInv, InsideInv, DoneInv, SegmentInv
<1>5. CASE ReceiverPrint
  <2>1. /\ spc = "p" /\ NoPermit /\ i > 1 /\ text = i - 1 /\ printed = Prefix(i - 2)
    BY <1>5 DEF ReceiverPrint, TypeOK, StartInv, TurnInv, InsideInv, DoneInv, SegmentInv
  <2>2. text \in 1..N /\ i - 2 \in Nat /\ (i - 2) + 1 = text
    BY <2>1 DEF TypeOK
  <2>3. Append(printed, text) = Prefix(i - 1)
    <3>1. Append(Prefix(i - 2), (i - 2) + 1) = Prefix((i - 2) + 1)
      BY <2>2, PrefixProperties
    <3> QED BY <3>1, <2>1, <2>2
  <2>4. printed' = Prefix(i - 1) /\ printed' \in Seq(1..N)
    BY <1>5, <2>2, <2>3, AppendProperties DEF ReceiverPrint, TypeOK
  <2> QED BY <1>5, <2>1, <2>4
          DEF ReceiverPrint, TypeOK, StartInv, TurnInv, InsideInv, DoneInv, SegmentInv
<1>6. CASE ReceiverV
  <2>1. spc = "p" /\ set = "live" /\ NoPermit /\ printed = Prefix(i - 1)
    BY <1>6 DEF ReceiverV, TypeOK, StartInv, TurnInv, InsideInv, DoneInv, SegmentInv
  <2>2. sem' = [sem EXCEPT ![0] = 1]
    BY <1>6, <2>1 DEF ReceiverV, V, TypeOK
  <2>3. sem' \in [0..1 -> 0..1] /\ sem'[0] = 1 /\ sem'[1] = 0
    BY <2>1, <2>2 DEF TypeOK
  <2> QED BY <1>6, <2>1, <2>3
             DEF ReceiverV, TypeOK, StartInv, TurnInv, InsideInv, DoneInv, SegmentInv
<1>7. CASE ReceiverRmidShm
  BY <1>7 DEF ReceiverRmidShm, TypeOK, StartInv, TurnInv, InsideInv, DoneInv, SegmentInv
<1>8. CASE ReceiverRmidSet
  BY <1>8 DEF ReceiverRmidSet, TypeOK, StartInv, TurnInv, InsideInv, DoneInv, SegmentInv
<1> QED BY <1>1, <1>2, <1>3, <1>4, <1>5, <1>6, <1>7, <1>8 DEF Receiver

LEMMA NextInv == IInv /\ [Next]_vars => IInv'
<1> SUFFICES ASSUME IInv, [Next]_vars PROVE IInv'
  OBVIOUS
<1>1. CASE UNCHANGED vars
  BY <1>1
     DEF vars, IInv, TypeOK, StartInv, TurnInv, InsideInv, DoneInv, SegmentInv, NoPermit,
              SenderInside, ReceiverInside
<1> QED BY <1>1, SenderInv, ReceiverInv DEF Next

LEMMA Invariance == Spec => []IInv
BY InitInv, NextInv, PTL DEF Spec

------------------------------------------------------------------------------
(* The theorems. *)

\* Every variable keeps its type; the semaphores stay binary although nothing in
\* the kernel bounds them.
THEOREM TypeCorrect == Spec => []TypeOK
<1>1. IInv => TypeOK
  BY DEF IInv
<1> QED BY <1>1, Invariance, PTL

\* The programs are never between P and V together, and no permit is available
\* while one of them is.
THEOREM Exclusion == Spec => []OneInside
<1>1. IInv => OneInside
  <2> SUFFICES ASSUME IInv, set = "live" PROVE OneInside
    BY DEF OneInside
  <2> USE DEF IInv, SenderInside, ReceiverInside, NoPermit
  <2>1. SenderInside => ~ReceiverInside /\ NoPermit
    BY DEF InsideInv
  <2>2. ReceiverInside => NoPermit
    BY DEF TypeOK, StartInv, TurnInv, InsideInv, DoneInv
  <2>3. NoPermit => sem = [s \in 0..1 |-> 0]
    BY DEF TypeOK
  <2> QED BY <2>1, <2>2, <2>3 DEF OneInside
<1> QED BY <1>1, Invariance, PTL

\* After both programs have ended no segment and no semaphore set is left.
THEOREM CleanEnd == Spec => []NothingLeftBehind
<1>1. IInv => NothingLeftBehind
  BY DEF IInv, DoneInv, NothingLeftBehind
<1> QED BY <1>1, Invariance, PTL

\* Each step of the programs writes into an empty place, prints what is in it, or
\* does neither.
LEMMA StepSimulation ==
  ASSUME IInv, IInv', [Next]_vars
  PROVE  [Fifo!Next]_<<IF Unread THEN <<text>> ELSE <<>>, printed, 0>>
<1> USE DEF IInv, End, Nothing, SenderInside, ReceiverInside, NoPermit
<1>1. CASE SenderWrite /\ i <= N
  <2>1. ~Unread /\ Unread' /\ text' = i /\ printed' = printed /\ i \in 1..N
    BY <1>1 DEF SenderWrite, Unread, InsideInv, TypeOK
  <2>2. Len(<<>>) < 1 /\ Append(<<>>, i) = <<i>>
    OBVIOUS
  <2>3. Fifo!Put(i)
    BY <2>1, <2>2 DEF Fifo!Put
  <2> QED BY <2>1, <2>3 DEF Fifo!Next
<1>2. CASE ReceiverPrint
  <2>1. Unread /\ ~Unread' /\ text' = text /\ printed' = Append(printed, text)
    BY <1>2 DEF ReceiverPrint, Unread, TypeOK, StartInv, TurnInv, InsideInv, DoneInv
  <2>2. <<text>> # <<>> /\ Head(<<text>>) = text /\ Tail(<<text>>) = <<>>
    OBVIOUS
  <2>3. Fifo!Take
    BY <2>1, <2>2 DEF Fifo!Take
  <2> QED BY <2>3 DEF Fifo!Next
<1>3. CASE SenderWrite /\ i > N
  <2>1. ~Unread /\ ~Unread' /\ printed' = printed
    BY <1>3, NAssumption DEF SenderWrite, Unread, InsideInv, TypeOK
  <2> QED BY <2>1
<1>4. CASE SenderShmget \/ SenderSemget \/ SenderSetval0 \/ SenderSetval1
  <2>1. Unread' = Unread /\ text' = text /\ printed' = printed
    BY <1>4 DEF SenderShmget, SenderSemget, SenderSetval0, SenderSetval1, GetShm, GetSem,
                Unread, StartInv, SegmentInv, TypeOK, DoneInv
  <2> QED BY <2>1
<1>5. CASE SenderP \/ SenderV \/ SenderRmid \/ SenderRmidAgain
  <2>1. text' = text /\ printed' = printed
    BY <1>5 DEF SenderP, SenderV, SenderRmid, SenderRmidAgain
  <2>2. Unread' = Unread
    BY <1>5 DEF SenderP, SenderV, SenderRmid, SenderRmidAgain, P, V, Unread, TurnInv, InsideInv,
                TypeOK
  <2> QED BY <2>1, <2>2
<1>6. CASE ReceiverShmget \/ ReceiverSemget \/ ReceiverV \/ ReceiverRmidShm \/ ReceiverRmidSet
  <2>1. text' = text /\ printed' = printed
    BY <1>6 DEF ReceiverShmget, ReceiverSemget, ReceiverV, ReceiverRmidShm, ReceiverRmidSet, GetShm,
                SegmentInv, StartInv
  <2>2. Unread' = Unread
    BY <1>6 DEF ReceiverShmget, ReceiverSemget, ReceiverV, ReceiverRmidShm, ReceiverRmidSet,
                GetSem, V, Unread, TypeOK, StartInv, TurnInv, InsideInv, DoneInv
  <2> QED BY <2>1, <2>2
<1>7. CASE ReceiverP
  <2>1. text' = text /\ printed' = printed
    BY <1>7 DEF ReceiverP
  <2>2. Unread' = Unread
    BY <1>7 DEF ReceiverP, P, Unread, TypeOK, StartInv, TurnInv, InsideInv, DoneInv
  <2> QED BY <2>1, <2>2
<1>8. CASE ReceiverCheck
  <2>1. text' = text /\ printed' = printed
    BY <1>8 DEF ReceiverCheck
  <2>2. Unread' = Unread
    BY <1>8 DEF ReceiverCheck, Unread, TypeOK, StartInv, TurnInv, InsideInv, DoneInv
  <2> QED BY <2>1, <2>2
<1>9. CASE UNCHANGED vars
  BY <1>9 DEF vars, Unread
<1> QED BY <1>1, <1>2, <1>3, <1>4, <1>5, <1>6, <1>7, <1>8, <1>9, NAssumption
        DEF Next, Sender, Receiver, TypeOK

\* However the two programs are scheduled, a message is printed before the next
\* one overwrites it, exactly once and in order.
THEOREM Refinement == Spec => FifoSpec
<1>1. Init => Fifo!Init
  BY DEF Init, Fifo!Init, Unread
<1>2. IInv /\ IInv' /\ [Next]_vars => [Fifo!Next]_Fifo!fifoVars
  BY StepSimulation DEF Fifo!fifoVars
<1> QED BY <1>1, <1>2, Invariance, PTL DEF Spec, FifoSpec, Fifo!Spec

(***************************************************************************)
(* BusyPair: a receiver that prints whatever it finds, for any N.          *)
(***************************************************************************)

Segments == {"left", "new"}
Before(s) == IF s = "left" THEN Busy!End ELSE Busy!Nothing

BusyShapes ==
  /\ Busy!BusyTypeOK
  /\ DOMAIN contentB = Segments
  /\ spcB \in {"shmget", "again", "failed"} <=> smap = "none"
  /\ rpcB = "shmget" <=> rmap = "none"
  /\ smap = "none" \/ spcB \in {"shmat", "crashed"} => iB = 1

\* Which segment the key names, and who is attached to which.
BusySegments ==
  /\ smap = "none" /\ rmap = "none" => segment # "new"
  /\ rmap = "none" /\ smap # "none" => segment = smap
  /\ rmap # "none" /\ rpcB # "done" => segment = rmap
  /\ rpcB = "done" => segment = "none" \/ (segment = "new" /\ rmap = "left" /\ smap = "new")
  /\ rmap = "new" => smap # "left"
  /\ rmap = "left" /\ smap = "new" => rpcB = "done" /\ segment = "new"
  /\ spcB = "crashed" => smap = "left"

\* What is in a segment: what was there before, until its sender writes.
BusyContent ==
  /\ \A s \in Segments : s # smap \/ (iB = 1 /\ spcB \in {"shmat", "write", "crashed"}) =>
       contentB[s] = Before(s)
  /\ spcB = "write" /\ iB > 1 => contentB[smap] = iB - 1
  /\ spcB = "writing" => contentB[smap] # Busy!End
  /\ spcB = "done" => iB = N + 1 /\ contentB[smap] = Busy!End

\* The receiver goes on to print only what the sender has written.
BusyReads ==
  /\ rpcB = "empty" /\ rmap = "left" => smap = "left" /\ (iB > 1 \/ spcB = "writing")
  /\ rpcB = "print" => smap = rmap /\ (iB > 1 \/ spcB = "writing")
  /\ rpcB \in {"rmid", "done"} /\ rmap = "new" => spcB = "done"

\* A whole text that is printed was that of an earlier turn.
BusyPrinted == ~last.half => last.text \in {Busy!Nothing, Busy!End} \cup 1..(iB - 1)

BusyInv == BusyShapes /\ BusySegments /\ BusyContent /\ BusyReads /\ BusyPrinted

LEMMA BusyConstants == N \in Nat \ {0} /\ Busy!End = 0 /\ Busy!Nothing = -1
  BY NAssumption DEF Busy!End, Busy!Nothing

LEMMA BusyInitInv == Busy!BusyInit => BusyInv
  BY BusyConstants
  DEF Busy!BusyInit, BusyInv, BusyShapes, BusySegments, BusyContent, BusyReads, BusyPrinted,
      Busy!BusyTypeOK, Segments, Before

\* Half of a text over another is never taken for "end".
LEMMA MixedNotEnd ==
  ASSUME NEW k \in 2..(N + 1), NEW new \in {k, Busy!End}, NEW t \in Busy!Digits(k - 1, new)
  PROVE  t # Busy!End
<1>1. CASE new = Busy!End
  BY <1>1, BusyConstants DEF Busy!Digits, Busy!Torn
<1>2. CASE new = k
  <2>1. (k - 1) \div 10 = k \div 10 \/
          /\ k - 1 < 10 => t \in {k \div 10, 10 * (k - 1) + (k % 10)}
          /\ ~(k - 1 < 10) => t \in {10 * ((k - 1) \div 10) + (k % 10),
                                    10 * (k \div 10) + ((k - 1) % 10)}
    BY <1>2, BusyConstants DEF Busy!Digits
  <2>2. t \in Busy!Digits(k - 1, k) => (k - 1) \div 10 # k \div 10
    BY BusyConstants DEF Busy!Digits
  <2>3. k \div 10 \in Nat /\ k % 10 \in Nat /\ (k - 1) \div 10 \in Nat /\ (k - 1) % 10 \in Nat
    BY BusyConstants
  <2>4. k - 1 < 10 => k \div 10 # 0 \/ (k - 1) \div 10 = k \div 10
    BY BusyConstants
  <2>5. ~(k - 1 < 10) => (k - 1) \div 10 > 0 /\ k \div 10 > 0
    BY BusyConstants
  <2> QED
    BY <1>2, <2>1, <2>2, <2>3, <2>4, <2>5, BusyConstants
<1> QED
  BY <1>1, <1>2

LEMMA BusySenderInv == BusyInv /\ Busy!Sender => BusyInv'
<1> SUFFICES ASSUME BusyInv, Busy!Sender PROVE BusyInv'
  OBVIOUS
<1>1. BusyShapes /\ BusySegments /\ BusyContent /\ BusyReads /\ BusyPrinted
  BY DEF BusyInv
<1>2. CASE Busy!SenderShmget
  <2>1. BusyShapes' /\ BusySegments'
    BY <1>1, <1>2 DEF Busy!SenderShmget, BusyShapes, Busy!BusyTypeOK, BusySegments, BusyReads
  <2>2. BusyContent' /\ BusyReads' /\ BusyPrinted'
    BY <1>1, <1>2 DEF Busy!SenderShmget, BusyShapes, Busy!BusyTypeOK,
                      BusySegments, BusyContent, BusyReads, BusyPrinted, Segments, Before
  <2> QED
    BY <2>1, <2>2 DEF BusyInv
<1>5. CASE Busy!SenderShmgetAgain
  <2>1. BusyShapes' /\ BusySegments'
    BY <1>1, <1>5 DEF Busy!SenderShmgetAgain, BusyShapes, Busy!BusyTypeOK, BusySegments, BusyReads
  <2>2. BusyContent' /\ BusyReads' /\ BusyPrinted'
    BY <1>1, <1>5 DEF Busy!SenderShmgetAgain, BusyShapes, Busy!BusyTypeOK,
                      BusySegments, BusyContent, BusyReads, BusyPrinted, Segments, Before
  <2> QED
    BY <2>1, <2>2 DEF BusyInv
<1>6. CASE Busy!SenderShmat
  <2>1. BusyShapes' /\ BusySegments'
    BY <1>1, <1>6 DEF Busy!SenderShmat, BusyShapes, Busy!BusyTypeOK, BusySegments, BusyReads
  <2>2. BusyContent' /\ BusyReads' /\ BusyPrinted'
    BY <1>1, <1>6 DEF Busy!SenderShmat, BusyShapes, Busy!BusyTypeOK,
                      BusySegments, BusyContent, BusyReads, BusyPrinted, Segments, Before
  <2> QED
    BY <2>1, <2>2 DEF BusyInv
<1>3. CASE Busy!SenderTear
  <2>1. PICK t \in Busy!Digits(contentB[smap], Busy!Text) :
           contentB' = [contentB EXCEPT ![smap] = t]
    BY <1>3 DEF Busy!SenderTear
  <2>2. DOMAIN contentB' = Segments /\ \A s \in Segments \ {smap} : contentB'[s] = contentB[s]
    BY <1>1, <2>1 DEF BusyShapes
  <2>4. smap \in Segments /\ contentB'[smap] = t
    BY <1>1, <1>3, <2>1 DEF Busy!SenderTear, BusyShapes, Busy!BusyTypeOK, Segments
  <2>5. t # Busy!End
    <3>1. iB \in 1..(N + 1) /\ spcB = "write"
      BY <1>1, <1>3 DEF Busy!SenderTear, BusyShapes, Busy!BusyTypeOK
    <3>2. CASE iB = 1
      <4>1. contentB[smap] \in {Busy!End, Busy!Nothing}
        BY <1>1, <2>4, <3>1, <3>2 DEF BusyContent, Before
      <4> QED
        BY <4>1, BusyConstants DEF Busy!Digits, Busy!Torn
    <3>3. CASE iB > 1
      <4>1. contentB[smap] = iB - 1 /\ Busy!Text \in {iB, Busy!End}
        BY <1>1, <3>1, <3>3 DEF BusyContent, Busy!Text
      <4> QED
        BY <3>1, <3>3, <4>1, MixedNotEnd
    <3> QED
      BY <3>1, <3>2, <3>3, BusyConstants
  <2>3. spcB = "write" /\ spcB' = "writing" /\ UNCHANGED <<segment, smap, rmap, iB, rpcB, last>>
    BY <1>3 DEF Busy!SenderTear
  <2> QED
    BY <1>1, <2>2, <2>3, <2>4, <2>5
    DEF BusyInv, BusyShapes, Busy!BusyTypeOK, BusySegments, BusyContent, BusyReads, BusyPrinted
<1>4. CASE Busy!SenderWrite
  <2>1. contentB' = [contentB EXCEPT ![smap] = Busy!Text]
    BY <1>4 DEF Busy!SenderWrite
  <2>2. smap \in Segments
    BY <1>1, <1>4 DEF Busy!SenderWrite, BusyShapes, Busy!BusyTypeOK, Segments
  <2>3. /\ DOMAIN contentB' = Segments /\ contentB'[smap] = Busy!Text
        /\ \A s \in Segments \ {smap} : contentB'[s] = contentB[s]
    BY <1>1, <2>1, <2>2 DEF BusyShapes
  <2>4. iB \in 1..(N + 1) /\ UNCHANGED <<segment, smap, rmap, rpcB, last>>
        /\ spcB \in {"write", "writing"}
    BY <1>1, <1>4 DEF Busy!SenderWrite, BusyShapes, Busy!BusyTypeOK
  <2>5. CASE iB <= N
    <3>1. Busy!Text = iB /\ spcB' = "write" /\ iB' = iB + 1 /\ iB # Busy!End
      BY <1>4, <2>4, <2>5, BusyConstants DEF Busy!SenderWrite, Busy!Text
    <3> QED
      BY <1>1, <2>2, <2>3, <2>4, <2>5, <3>1, BusyConstants
      DEF BusyInv, BusyShapes, Busy!BusyTypeOK, BusySegments, BusyContent, BusyReads,
          BusyPrinted
  <2>6. CASE iB = N + 1
    <3>1. Busy!Text = Busy!End /\ spcB' = "done" /\ iB' = iB
      BY <1>4, <2>4, <2>6, BusyConstants DEF Busy!SenderWrite, Busy!Text
    <3> QED
      BY <1>1, <2>2, <2>3, <2>4, <2>6, <3>1, BusyConstants
      DEF BusyInv, BusyShapes, Busy!BusyTypeOK, BusySegments, BusyContent, BusyReads,
          BusyPrinted
  <2> QED
    BY <2>4, <2>5, <2>6, BusyConstants
<1> QED
  BY <1>2, <1>3, <1>4, <1>5, <1>6 DEF Busy!Sender

LEMMA BusyReceiverInv == BusyInv /\ Busy!Receiver => BusyInv'
<1> SUFFICES ASSUME BusyInv, Busy!Receiver PROVE BusyInv'
  OBVIOUS
<1>1. BusyShapes /\ BusySegments /\ BusyContent /\ BusyReads /\ BusyPrinted
  BY DEF BusyInv
<1>2. CASE Busy!ReceiverAttach
  BY <1>1, <1>2 DEF Busy!ReceiverAttach, Busy!Attached, BusyInv, BusyShapes, Busy!BusyTypeOK,
                    BusySegments, BusyContent, BusyReads, BusyPrinted
<1>3. CASE Busy!ReceiverCheckEnd
  <2>1. rmap = "left" /\ contentB[rmap] # Busy!End => smap = "left" /\ (iB > 1 \/ spcB = "writing")
    BY <1>1, BusyConstants DEF BusyShapes, Busy!BusyTypeOK, BusyContent, Before, Segments
  <2>2. rmap = "new" /\ contentB[rmap] = Busy!End => spcB = "done"
    BY <1>1, BusyConstants DEF BusyShapes, Busy!BusyTypeOK, BusyContent, Before, Segments
  <2> QED
    BY <1>1, <1>3, <2>1, <2>2
    DEF Busy!ReceiverCheckEnd, BusyInv, BusyShapes, Busy!BusyTypeOK, BusySegments, BusyContent,
        BusyReads, BusyPrinted
<1>4. CASE Busy!ReceiverCheckEmpty
  <2>1. rmap = "new" /\ contentB[rmap] # Busy!Nothing =>
          smap = "new" /\ (iB > 1 \/ spcB = "writing")
    BY <1>1, BusyConstants DEF BusyShapes, Busy!BusyTypeOK, BusyContent, Before, Segments
  <2> QED
    BY <1>1, <1>4, <2>1
    DEF Busy!ReceiverCheckEmpty, BusyInv, BusyShapes, Busy!BusyTypeOK, BusySegments, BusyContent,
        BusyReads, BusyPrinted
<1>5. CASE Busy!ReceiverPrint
  <2>1. last'.text = contentB[rmap] /\ (last'.half <=> spcB = "writing")
    BY <1>5 DEF Busy!ReceiverPrint
  <2>2. spcB # "writing" => contentB[rmap] \in {Busy!End} \cup 1..(iB - 1)
    BY <1>1, <1>5, BusyConstants
    DEF Busy!ReceiverPrint, BusyShapes, Busy!BusyTypeOK, BusyContent, BusyReads
  <2>3. BusyPrinted'
    BY <1>5, <2>1, <2>2 DEF Busy!ReceiverPrint, BusyPrinted
  <2> QED
    BY <1>1, <1>5, <2>3
    DEF Busy!ReceiverPrint, BusyInv, BusyShapes, Busy!BusyTypeOK, BusySegments, BusyContent,
        BusyReads
<1>6. CASE Busy!ReceiverRmid
  BY <1>1, <1>6 DEF Busy!ReceiverRmid, BusyInv, BusyShapes, Busy!BusyTypeOK,
                    BusySegments, BusyContent, BusyReads, BusyPrinted
<1> QED
  BY <1>2, <1>3, <1>4, <1>5, <1>6 DEF Busy!Receiver

LEMMA BusyNextInv == BusyInv /\ [Busy!BusyNext]_busyV => BusyInv'
<1>1. BusyInv /\ UNCHANGED busyV => BusyInv'
  BY DEF busyV, BusyInv, BusyShapes, Busy!BusyTypeOK, BusySegments, BusyContent, BusyReads,
         BusyPrinted
<1> QED
  BY <1>1, BusySenderInv, BusyReceiverInv DEF Busy!BusyNext

\* One more print, of a whole text after a whole text.
LEMMA BusyStepForward ==
  BusyInv /\ [Busy!BusyNext]_busyV =>
    (last' # last /\ ~last.half /\ ~last'.half /\ last'.text # Busy!End
       => last'.text >= last.text)
<1> SUFFICES ASSUME BusyInv, [Busy!BusyNext]_busyV,
                    last' # last, ~last.half, ~last'.half, last'.text # Busy!End
             PROVE  last'.text >= last.text
  OBVIOUS
<1>1. Busy!ReceiverPrint
  BY DEF busyV, Busy!BusyNext, Busy!Sender, Busy!Receiver, Busy!SenderShmget,
         Busy!SenderShmgetAgain, Busy!SenderShmat, Busy!SenderTear, Busy!SenderWrite,
         Busy!ReceiverAttach, Busy!ReceiverCheckEnd, Busy!ReceiverCheckEmpty,
         Busy!ReceiverRmid
<1>2. last'.text = contentB[rmap] /\ spcB # "writing" /\ rpcB = "print"
  BY <1>1 DEF Busy!ReceiverPrint
<1>3. iB \in 1..(N + 1) /\ spcB \in {"write", "done"} /\ smap = rmap
  BY <1>2 DEF BusyInv, BusyShapes, Busy!BusyTypeOK, BusyReads
<1>4. last'.text = iB - 1 /\ iB > 1
  BY <1>2, <1>3 DEF BusyInv, BusyContent, BusyReads
<1>5. last.text \in {-1, 0} \cup 1..(iB - 1)
  BY BusyConstants DEF BusyInv, BusyPrinted
<1> QED
  BY <1>3, <1>4, <1>5, BusyConstants

(***************************************************************************)
(* PosixShm: any number of processes and texts.                            *)
(***************************************************************************)

\* An object is made by its process, which has sized it, is about to, or could not.
Made(q) == q \in sized \/ pcP[q] \in {"ftruncate", "exit"}

ShmInv ==
  /\ Posix!ShmTypeOK
  /\ name # Posix!Nobody => Made(name)
  /\ \A p \in ShmProcess : map[p] # Posix!Nobody => Made(map[p])
  /\ \A p \in ShmProcess : pcP[p] \in {"start", "open"} => p \notin sized
  /\ \A p \in ShmProcess : pcP[p] = "ftruncate" => map[p] = p
  /\ \A p \in ShmProcess : pcP[p] = "menu" =>
       map[p] \in ShmProcess /\ (map[p] = p => p \in sized)
  /\ (\A p \in ShmProcess : pcP[p] = "start")
       \/ name # Posix!Nobody \/ \E q \in ShmProcess : pcP[q] = "done"

LEMMA ShmConstants == Posix!Nobody \notin ShmProcess
  BY ExamplesAssumption DEF Posix!ShmAssumption

LEMMA ShmInitInv == Posix!ShmInit => ShmInv
  BY ShmConstants
  DEF Posix!ShmInit, ShmInv, Posix!ShmTypeOK, Posix!Contents, Posix!Empty, Made

\* What a step of p may change for the rest of the invariant.
LEMMA ShmContents ==
  ASSUME ShmInv, NEW p \in ShmProcess, Posix!Works(p) \/ Posix!Chooses(p)
  PROVE  /\ contentP' \in [ShmProcess -> Posix!Contents]
         /\ shown' \in [ShmProcess -> Posix!Contents]
<1>1. /\ contentP \in [ShmProcess -> Posix!Contents] /\ shown \in [ShmProcess -> Posix!Contents]
      /\ sized \subseteq ShmProcess
  BY DEF ShmInv, Posix!ShmTypeOK
<1>2. CASE Posix!Works(p) \/ Posix!Quit(p) \/ Posix!Answer(p)
  BY <1>1, <1>2 DEF Posix!Works, Posix!Quit, Posix!Answer, Posix!Create, Posix!Ftruncate,
                    Posix!Open, Posix!Fault
<1>3. CASE Posix!Write(p)
  <2>1. PICK t \in ShmText : contentP' = [contentP EXCEPT ![map[p]] = Posix!Over(@, t)]
    BY <1>3 DEF Posix!Write
  <2>2. \A c \in Posix!Contents : Posix!Over(c, t) \in Posix!Contents
    BY DEF Posix!Over, Posix!Contents
  <2>3. contentP' \in [ShmProcess -> Posix!Contents]
    BY <1>1, <2>1, <2>2
  <2> QED
    BY <1>1, <1>3, <2>3 DEF Posix!Write
<1>4. CASE Posix!Show(p)
  <2>1. map[p] \in ShmProcess
    BY <1>1, <1>4 DEF Posix!Show
  <2> QED
    BY <1>1, <1>4, <2>1 DEF Posix!Show
<1> QED
  BY <1>2, <1>3, <1>4 DEF Posix!Chooses

LEMMA ShmStepInv ==
  ASSUME ShmInv, NEW p \in ShmProcess, Posix!Works(p) \/ Posix!Chooses(p)
  PROVE  ShmInv'
<1>1. contentP' \in [ShmProcess -> Posix!Contents] /\ shown' \in [ShmProcess -> Posix!Contents]
  BY ShmContents
<1>2. CASE Posix!Create(p) /\ name = Posix!Nobody
  BY <1>1, <1>2, ShmConstants DEF Posix!Create, ShmInv, Posix!ShmTypeOK, Made
<1>3. CASE Posix!Create(p) /\ name # Posix!Nobody
  BY <1>1, <1>3, ShmConstants DEF Posix!Create, ShmInv, Posix!ShmTypeOK, Made
<1>4. CASE Posix!Ftruncate(p)
  BY <1>1, <1>4, ShmConstants DEF Posix!Ftruncate, ShmInv, Posix!ShmTypeOK, Made
<1>5. CASE Posix!Open(p)
  BY <1>1, <1>5, ShmConstants DEF Posix!Open, ShmInv, Posix!ShmTypeOK, Made
<1>6. CASE Posix!Fault(p)
  BY <1>1, <1>6, ShmConstants DEF Posix!Fault, ShmInv, Posix!ShmTypeOK, Made
<1>7. CASE Posix!Write(p)
  BY <1>1, <1>7 DEF Posix!Write, ShmInv, Posix!ShmTypeOK, Made
<1>8. CASE Posix!Show(p)
  BY <1>1, <1>8 DEF Posix!Show, ShmInv, Posix!ShmTypeOK, Made
<1>9. CASE Posix!Quit(p)
  BY <1>1, <1>9, ShmConstants DEF Posix!Quit, ShmInv, Posix!ShmTypeOK, Made
<1>10. CASE Posix!Answer(p)
  BY <1>1, <1>10, ShmConstants DEF Posix!Answer, ShmInv, Posix!ShmTypeOK, Made
<1> QED
  BY <1>2, <1>3, <1>4, <1>5, <1>6, <1>7, <1>8, <1>9, <1>10 DEF Posix!Works, Posix!Chooses

LEMMA ShmNextInv == ShmInv /\ [Posix!ShmNext]_posixV => ShmInv'
<1>1. ShmInv /\ UNCHANGED posixV => ShmInv'
  BY DEF posixV, ShmInv, Posix!ShmTypeOK, Made
<1> QED
  BY <1>1, ShmStepInv DEF Posix!ShmNext

\* A step that ends a process by SIGBUS or after a second shm_open().
LEMMA ShmFailures ==
  ASSUME ShmInv, [Posix!ShmNext]_posixV, NEW p \in ShmProcess
  PROVE  /\ pcP[p] # "SIGBUS" /\ pcP'[p] = "SIGBUS" =>
              map[p] # p /\ pcP[map[p]] \in {"ftruncate", "exit"}
         /\ pcP[p] = "open" /\ pcP'[p] = "exit" =>
              \E q \in ShmProcess \ {p} : pcP[q] = "done"
<1>1. CASE UNCHANGED posixV
  BY <1>1 DEF posixV
<1>2. CASE Posix!ShmNext
  <2>1. PICK r \in ShmProcess : Posix!Works(r) \/ Posix!Chooses(r)
    BY <1>2 DEF Posix!ShmNext
  <2>2. pcP \in [ShmProcess -> {"start", "ftruncate", "open", "menu", "ask",
                                "done", "exit", "SIGBUS"}]
    BY DEF ShmInv, Posix!ShmTypeOK
  <2>3. CASE pcP[p] # "SIGBUS" /\ pcP'[p] = "SIGBUS"
    <3>1. r = p /\ Posix!Fault(p)
      BY <2>1, <2>2, <2>3 DEF Posix!Works, Posix!Chooses, Posix!Create, Posix!Ftruncate,
         Posix!Open, Posix!Fault, Posix!Write, Posix!Show, Posix!Quit, Posix!Answer
    <3> QED
      BY <2>3, <3>1, ShmConstants DEF Posix!Fault, ShmInv, Made
  <2>4. CASE pcP[p] = "open" /\ pcP'[p] = "exit"
    <3>1. r = p /\ Posix!Open(p) /\ name = Posix!Nobody
      BY <2>1, <2>2, <2>4 DEF Posix!Works, Posix!Chooses, Posix!Create, Posix!Ftruncate,
         Posix!Open, Posix!Fault, Posix!Write, Posix!Show, Posix!Quit, Posix!Answer
    <3> QED
      BY <2>4, <3>1 DEF ShmInv
  <2> QED
    BY <2>3, <2>4
<1> QED
  BY <1>1, <1>2

(***************************************************************************)
(* FifoPair: any number of senders, lines and places in the pipe.          *)
(***************************************************************************)

Alive(p) == ~Fifos!Ended(p)

FifoShapes ==
  /\ pcF \in [Fifos!Process -> {"mkfifo", "open", "opening", "loop", "write",
                                "done", "failed", "killed"}]
  /\ existsF \in BOOLEAN /\ met \subseteq Fifos!Process
  /\ pipe \in Seq(QueueSender \X (0..MaxLines)) /\ Len(pipe) \in 0..Room
  /\ msg \in [QueueSender -> 0..MaxLines] /\ typedF \in [QueueSender -> 0..MaxLines]
  /\ held \in [QueueSender -> Fifos!Text]
  /\ input \in [QueueSender -> Fifos!Text \cup {"none", "eof"}]
  /\ shownF \in [QueueSender -> 0..MaxLines]
  /\ pcF[Fifos!Receiver] # "write"

\* The kernel empties a pipe that nobody holds, and one without a reader is empty at first.
FifoHeld ==
  /\ (\E p \in Fifos!Process : Fifos!Holds(p)) \/ pipe = <<>>
  /\ pcF[Fifos!Receiver] \in {"mkfifo", "open"} => pipe = <<>>

\* A sender has fetched all that was typed but the line it is about to fetch.
FifoTyped ==
  \A s \in QueueSender :
    typedF[s] = msg[s] \/ (typedF[s] = msg[s] + 1 /\ pcF[s] = "loop" /\ input[s] = "line")

\* It has written all it has fetched but the line it is about to write.
FifoWritten(s) ==
  pcF[s] \in {"mkfifo", "open", "opening", "loop"} \/ (pcF[s] = "write" /\ held[s] = "empty")

FifoOrder ==
  /\ Fifos!LinesInOrder
  /\ Alive(Fifos!Receiver) =>
       \A s \in QueueSender : FifoWritten(s) =>
         msg[s] = Fifos!LastOf(s, pipe, Len(pipe), shownF[s])

FifoInv == FifoShapes /\ FifoHeld /\ FifoTyped /\ FifoOrder

\* Every set of naturals has a least element.
Less == {ss \in Nat \X Nat : ss[1] < ss[2]}
LEMMA LeastNatural ==
  ASSUME NEW T \in SUBSET Nat, T # {} PROVE \E x \in T : \A y \in T : x <= y
<1>1. IsWellFoundedOn(Less, Nat)
  BY NatLessThanWellFounded, Zenon DEF OpToRel, Less
<1>2. PICK x \in T : \A y \in T : ~ (<<y, x>> \in Less)
  BY <1>1, WFMin
<1>3. \A y \in T : ~(y < x)
  BY <1>2 DEF Less
<1> QED
  BY <1>3

\* The last line of s among the first n of q is the k-th.
IsLast(q, s, n, k) == k \in 1..n /\ q[k][1] = s /\ \A j \in (k + 1)..n : q[j][1] # s

LEMMA LastExists ==
  ASSUME NEW q, NEW s, NEW n \in Nat, NEW m \in 1..n, q[m][1] = s
  PROVE  \E k \in 1..n : IsLast(q, s, n, k)
<1> DEFINE T == {d \in 0..(n - 1) : q[n - d][1] = s}
<1>1. T \in SUBSET Nat /\ n - m \in T
  OBVIOUS
<1>2. PICK d \in T : \A y \in T : d <= y
  BY <1>1, LeastNatural
<1>3. n - d \in 1..n /\ q[n - d][1] = s
  OBVIOUS
<1>4. ASSUME NEW j \in (n - d + 1)..n PROVE q[j][1] # s
  <2>1. n - j \in 0..(n - 1) /\ n - j < d /\ n - (n - j) = j
    OBVIOUS
  <2>2. n - j \notin T
    BY <1>2, <2>1
  <2> QED
    BY <2>1, <2>2
<1> QED
  BY <1>3, <1>4 DEF IsLast

LEMMA LastOfIs ==
  ASSUME NEW q, NEW s, NEW n \in Nat, NEW x, NEW k, IsLast(q, s, n, k)
  PROVE  Fifos!LastOf(s, q, n, x) = q[k][2]
<1> DEFINE c == CHOOSE m \in 1..n : q[m][1] = s /\ \A j \in (m + 1)..n : q[j][1] # s
<1>1. k \in 1..n /\ q[k][1] = s /\ \A j \in (k + 1)..n : q[j][1] # s
  BY DEF IsLast
<1>2. c \in 1..n /\ q[c][1] = s /\ \A j \in (c + 1)..n : q[j][1] # s
  BY <1>1
<1>3. Fifos!LastOf(s, q, n, x) = q[c][2]
  BY <1>1 DEF Fifos!LastOf
<1> HIDE DEF c
<1>4. c = k
  BY <1>1, <1>2
<1> QED
  BY <1>3, <1>4

LEMMA LastOfNone ==
  ASSUME NEW q, NEW s, NEW n \in Nat, NEW x, \A k \in 1..n : q[k][1] # s
  PROVE  Fifos!LastOf(s, q, n, x) = x
  BY DEF Fifos!LastOf

\* Lines appended to the pipe do not change what came before them.
LEMMA LastOfPrefix ==
  ASSUME NEW q, NEW r, NEW s, NEW n \in Nat, NEW x, \A k \in 1..n : q[k] = r[k]
  PROVE  Fifos!LastOf(s, q, n, x) = Fifos!LastOf(s, r, n, x)
<1>1. CASE \A k \in 1..n : q[k][1] # s
  BY <1>1, LastOfNone
<1>2. CASE \E k \in 1..n : q[k][1] = s
  <2>1. PICK k \in 1..n : IsLast(q, s, n, k)
    BY <1>2, LastExists
  <2>2. IsLast(r, s, n, k)
    BY <2>1 DEF IsLast
  <2> QED
    BY <2>1, <2>2, LastOfIs
<1> QED
  BY <1>1, <1>2

LEMMA LastOfNext ==
  ASSUME NEW q, NEW s, NEW n \in Nat, NEW x
  PROVE  Fifos!LastOf(s, q, n + 1, x) =
           IF q[n + 1][1] = s THEN q[n + 1][2] ELSE Fifos!LastOf(s, q, n, x)
<1>1. CASE q[n + 1][1] = s
  <2>1. IsLast(q, s, n + 1, n + 1)
    BY <1>1 DEF IsLast
  <2> QED
    BY <1>1, <2>1, LastOfIs
<1>2. CASE q[n + 1][1] # s /\ \A k \in 1..n : q[k][1] # s
  <2>1. \A k \in 1..(n + 1) : q[k][1] # s
    BY <1>2
  <2> QED
    BY <1>2, <2>1, LastOfNone
<1>3. CASE q[n + 1][1] # s /\ \E k \in 1..n : q[k][1] = s
  <2>1. PICK k \in 1..n : IsLast(q, s, n, k)
    BY <1>3, LastExists
  <2>2. IsLast(q, s, n + 1, k)
    BY <1>3, <2>1 DEF IsLast
  <2> QED
    BY <1>3, <2>1, <2>2, LastOfIs
<1> QED
  BY <1>1, <1>2, <1>3

LEMMA FifoConstants ==
  /\ Fifos!Process = QueueSender \cup {Fifos!Receiver} /\ Fifos!Receiver \notin QueueSender
  /\ Room \in Nat \ {0} /\ MaxLines \in Nat
  BY ExamplesAssumption DEF Fifos!FifoAssumption, Fifos!Process

LEMMA FifoInitInv == Fifos!FifoInit => FifoInv
<1> SUFFICES ASSUME Fifos!FifoInit PROVE FifoInv
  OBVIOUS
<1>1. pipe = <<>> /\ Len(pipe) = 0 /\ DOMAIN pipe = {} /\ pipe \in Seq(QueueSender \X (0..MaxLines))
  BY DEF Fifos!FifoInit
<1>2. \A s \in QueueSender : Fifos!LastOf(s, pipe, Len(pipe), shownF[s]) = shownF[s]
  BY <1>1, LastOfNone
<1>3. /\ pcF = [p \in Fifos!Process |-> "mkfifo"] /\ shownF = [s \in QueueSender |-> 0]
      /\ msg = [s \in QueueSender |-> 0] /\ typedF = [s \in QueueSender |-> 0]
      /\ input = [s \in QueueSender |-> "none"] /\ held \in [QueueSender -> Fifos!Text]
  BY DEF Fifos!FifoInit
<1>4. FifoOrder
  BY <1>1, <1>2, <1>3, FifoConstants DEF FifoOrder, Fifos!LinesInOrder
<1> QED
  BY <1>1, <1>3, <1>4, FifoConstants DEF Fifos!FifoInit, FifoInv, FifoShapes, FifoHeld, FifoTyped

\* The order is that of the lines in the pipe, shown and in the buffers.
LEMMA FifoOrderKept ==
  ASSUME FifoOrder, UNCHANGED <<pipe, msg, shownF>>,
         Alive(Fifos!Receiver)' => Alive(Fifos!Receiver),
         \A s \in QueueSender :
           /\ pcF'[s] = "write" => pcF[s] = "write"
           /\ FifoWritten(s)' => FifoWritten(s)
  PROVE  FifoOrder'
<1>1. CASE Alive(Fifos!Receiver)'
  BY <1>1 DEF FifoOrder, Fifos!LinesInOrder, Alive
<1>2. CASE ~Alive(Fifos!Receiver)'
  BY <1>2 DEF FifoOrder, Fifos!LinesInOrder, Alive
<1> QED
  BY <1>1, <1>2

\* Who leaves takes with it at most what nobody can read any more.
LEMMA FifoLeaves ==
  ASSUME FifoInv, NEW p \in Fifos!Process, NEW how \in {"done", "killed"},
         pcF[p] \in {"opening", "loop", "write"}, Fifos!Leaves(p, how),
         UNCHANGED <<existsF, met, msg, typedF, shownF>>,
         held' \in [QueueSender -> Fifos!Text],
         input' \in [QueueSender -> Fifos!Text \cup {"none", "eof"}],
         \A q \in QueueSender \ {p} : held'[q] = held[q] /\ input'[q] = input[q],
         p \in QueueSender => typedF[p] = msg[p]
  PROVE  FifoInv'
<1>1. FifoShapes /\ FifoHeld /\ FifoTyped /\ FifoOrder
  BY DEF FifoInv
<1>2. /\ pcF' \in [Fifos!Process -> {"mkfifo", "open", "opening", "loop", "write",
                                     "done", "failed", "killed"}]
      /\ pcF'[p] = how /\ \A q \in Fifos!Process \ {p} : pcF'[q] = pcF[q]
  BY <1>1 DEF Fifos!Leaves, FifoShapes
<1>3. /\ pipe' = pipe \/ pipe' = <<>>
      /\ (\E q \in Fifos!Process \ {p} : pcF[q] \in {"opening", "loop", "write"}) \/ pipe' = <<>>
      /\ Alive(Fifos!Receiver)' => pipe' = pipe
    <2>1. /\ pipe' = pipe \/ pipe' = <<>>
          /\ (\E q \in Fifos!Process \ {p} : Fifos!Holds(q)) \/ pipe' = <<>>
          /\ (\E q \in Fifos!Process \ {p} : Fifos!Holds(q)) => pipe' = pipe
      BY DEF Fifos!Leaves
    <2>2. CASE Alive(Fifos!Receiver)' /\ pcF[Fifos!Receiver] \in {"opening", "loop"}
      <3>1. Fifos!Receiver \in Fifos!Process \ {p} /\ Fifos!Holds(Fifos!Receiver)
        BY <1>2, <2>2, FifoConstants DEF Alive, Fifos!Ended, Fifos!Holds
      <3> QED
        BY <2>1, <3>1 DEF Fifos!Holds
    <2>3. CASE Alive(Fifos!Receiver)' /\ pcF[Fifos!Receiver] \notin {"opening", "loop"}
      <3>1. pcF[Fifos!Receiver] \in {"mkfifo", "open"}
        BY <1>1, <1>2, <2>3, FifoConstants DEF Alive, Fifos!Ended, FifoShapes
      <3> QED
        BY <1>1, <2>1, <3>1 DEF Fifos!Holds, FifoHeld
    <2> QED
      BY <2>1, <2>2, <2>3 DEF Fifos!Holds
<1>4. FifoShapes'
  <2>1. pipe' \in Seq(QueueSender \X (0..MaxLines)) /\ Len(pipe') \in 0..Room
    <3>1. <<>> \in Seq(QueueSender \X (0..MaxLines)) /\ Len(<<>>) = 0
      OBVIOUS
    <3>2. CASE pipe' = <<>>
      BY <3>1, <3>2, FifoConstants
    <3>3. CASE pipe' = pipe
      BY <1>1, <3>3 DEF FifoShapes
    <3> QED
      BY <1>3, <3>2, <3>3
  <2>2. pcF'[Fifos!Receiver] # "write"
    BY <1>1, <1>2, FifoConstants DEF FifoShapes
  <2> QED
    BY <1>1, <1>2, <2>1, <2>2 DEF FifoShapes
<1>5. FifoHeld'
  <2>1. pcF'[Fifos!Receiver] \in {"mkfifo", "open"} => pcF[Fifos!Receiver] = pcF'[Fifos!Receiver]
    BY <1>2, FifoConstants
  <2> QED
    BY <1>1, <1>2, <1>3, <2>1 DEF FifoHeld, Fifos!Holds
<1>6. FifoTyped'
  BY <1>1, <1>2, FifoConstants DEF FifoTyped
<1>7. FifoOrder'
  <2>1. CASE Alive(Fifos!Receiver)'
    <3>1. Alive(Fifos!Receiver) /\ pipe' = pipe
      BY <1>2, <1>3, <2>1, FifoConstants DEF Alive, Fifos!Ended
    <3> QED
      BY <1>1, <1>2, <3>1, FifoConstants, FifoOrderKept DEF FifoWritten
  <2>2. CASE ~Alive(Fifos!Receiver)'
    BY <2>2 DEF FifoOrder, Alive, Fifos!LinesInOrder
  <2> QED
    BY <2>1, <2>2
<1> QED
  BY <1>4, <1>5, <1>6, <1>7 DEF FifoInv

LEMMA FifoOpensInv ==
  ASSUME FifoInv, NEW p \in Fifos!Process,
         Fifos!Mkfifo(p) \/ Fifos!Open(p) \/ Fifos!OpenReturns(p)
  PROVE  FifoInv'
<1>1. FifoShapes /\ FifoHeld /\ FifoTyped /\ FifoOrder
  BY DEF FifoInv
<1>2. PICK j \in {"open", "failed", "opening", "loop"} :
        /\ pcF' = [pcF EXCEPT ![p] = j]
        /\ j = "open" \/ j = "failed" => pcF[p] = "mkfifo"
        /\ j = "opening" => pcF[p] = "open"
        /\ j = "loop" => pcF[p] = "opening"
  BY DEF Fifos!Mkfifo, Fifos!Open, Fifos!OpenReturns
<1>3. /\ pcF' \in [Fifos!Process -> {"mkfifo", "open", "opening", "loop", "write",
                                     "done", "failed", "killed"}]
      /\ pcF'[p] = j /\ \A q \in Fifos!Process \ {p} : pcF'[q] = pcF[q]
      /\ pcF[p] \in {"mkfifo", "open", "opening"}
  BY <1>1, <1>2 DEF FifoShapes
<1>4. UNCHANGED <<pipe, msg, held, typedF, input, shownF>>
  BY DEF Fifos!Mkfifo, Fifos!Open, Fifos!OpenReturns
<1>5. existsF' \in BOOLEAN /\ met' \subseteq Fifos!Process
  <2>1. \A q \in Fifos!Process : Fifos!Partners(q) \subseteq Fifos!Process
    BY FifoConstants DEF Fifos!Partners, Fifos!Writers
  <2>2. CASE Fifos!Mkfifo(p)
    BY <1>1, <2>2 DEF Fifos!Mkfifo, FifoShapes
  <2>3. CASE Fifos!Open(p)
    BY <1>1, <2>1, <2>3 DEF Fifos!Open, FifoShapes
  <2>4. CASE Fifos!OpenReturns(p)
    BY <1>1, <2>4 DEF Fifos!OpenReturns, FifoShapes
  <2> QED
    BY <2>2, <2>3, <2>4
<1>6. FifoShapes'
  <2>1. pcF'[Fifos!Receiver] # "write"
    BY <1>1, <1>3, FifoConstants DEF FifoShapes
  <2> QED
    BY <1>1, <1>3, <1>4, <1>5, <2>1 DEF FifoShapes
<1>7. FifoHeld'
  BY <1>1, <1>2, <1>3, <1>4 DEF FifoHeld, Fifos!Holds
<1>8. FifoTyped'
  BY <1>1, <1>2, <1>3, <1>4, FifoConstants DEF FifoTyped
<1>9. FifoOrder'
  BY <1>1, <1>2, <1>3, <1>4, FifoConstants, FifoOrderKept DEF Alive, Fifos!Ended, FifoWritten
<1> QED
  BY <1>6, <1>7, <1>8, <1>9 DEF FifoInv

LEMMA FifoTypesInv == ASSUME FifoInv, NEW s \in QueueSender, Fifos!Types(s) PROVE FifoInv'
<1>1. FifoShapes /\ FifoHeld /\ FifoTyped /\ FifoOrder
  BY DEF FifoInv
<1>2. /\ UNCHANGED <<pcF, existsF, met, pipe, msg, held, shownF>>
      /\ pcF[s] = "loop" /\ input[s] = "none"
      /\ \E x \in Fifos!Text \cup {"eof"} :
           /\ input' = [input EXCEPT ![s] = x]
           /\ \/ typedF' = typedF
              \/ /\ x = "line" /\ typedF' = [typedF EXCEPT ![s] = typedF[s] + 1]
                 /\ typedF[s] < MaxLines
  BY DEF Fifos!Types, Fifos!Text
<1>7. /\ input' \in [QueueSender -> Fifos!Text \cup {"none", "eof"}]
      /\ \A q \in QueueSender \ {s} : input'[q] = input[q]
      /\ typedF' = typedF \/ input'[s] = "line"
  BY <1>1, <1>2 DEF FifoShapes
<1>3. /\ typedF' \in [QueueSender -> 0..MaxLines]
      /\ typedF'[s] - typedF[s] \in {0, 1} /\ \A q \in QueueSender \ {s} : typedF'[q] = typedF[q]
  <2>1. typedF \in [QueueSender -> 0..MaxLines] /\ typedF[s] \in 0..MaxLines
    BY <1>1 DEF FifoShapes
  <2>2. CASE typedF' = typedF
    BY <2>1, <2>2
  <2>3. CASE typedF' = [typedF EXCEPT ![s] = typedF[s] + 1] /\ typedF[s] < MaxLines
    <3>1. typedF[s] + 1 \in 0..MaxLines
      BY <2>1, <2>3, FifoConstants
    <3> QED
      BY <2>1, <2>3, <3>1
  <2> QED
    BY <1>2, <2>2, <2>3
<1>4. FifoShapes' /\ FifoHeld'
  BY <1>1, <1>2, <1>3, <1>7 DEF FifoShapes, FifoHeld, Fifos!Holds
<1>5. FifoTyped'
  BY <1>1, <1>2, <1>3, <1>7 DEF FifoTyped, FifoShapes
<1>6. FifoOrder'
  BY <1>1, <1>2, FifoOrderKept DEF Alive, Fifos!Ended, FifoWritten
<1> QED
  BY <1>4, <1>5, <1>6 DEF FifoInv

LEMMA FifoFgetsInv == ASSUME FifoInv, NEW s \in QueueSender, Fifos!Fgets(s) PROVE FifoInv'
<1>1. FifoShapes /\ FifoHeld /\ FifoTyped /\ FifoOrder
  BY DEF FifoInv
<1>2. s \in Fifos!Process /\ s # Fifos!Receiver /\ pcF[s] = "loop"
  BY FifoConstants DEF Fifos!Fgets
<1>5. /\ held' \in [QueueSender -> Fifos!Text]
      /\ input' \in [QueueSender -> Fifos!Text \cup {"none", "eof"}]
      /\ \A q \in QueueSender \ {s} : held'[q] = held[q] /\ input'[q] = input[q]
      /\ input[s] = "line" => held'[s] = "line"
  <2>1. CASE input[s] = "eof"
    BY <1>1, <2>1 DEF Fifos!Fgets, FifoShapes
  <2>2. CASE input[s] # "eof"
    <3>1. input[s] \in Fifos!Text
      BY <1>1, <2>2 DEF Fifos!Fgets, FifoShapes
    <3> QED
      BY <1>1, <2>2, <3>1 DEF Fifos!Fgets, FifoShapes
  <2> QED
    BY <2>1, <2>2
<1>6. /\ msg' \in [QueueSender -> 0..MaxLines]
      /\ msg'[s] = typedF[s] /\ \A q \in QueueSender \ {s} : msg'[q] = msg[q]
  BY <1>1 DEF Fifos!Fgets, FifoShapes
<1>7. UNCHANGED <<existsF, met, typedF, shownF>>
  BY DEF Fifos!Fgets
<1>8. held'[s] # "line" => typedF[s] = msg[s] /\ msg' = msg
  <2>1. held'[s] # "line" => typedF[s] = msg[s]
    BY <1>1, <1>5 DEF FifoTyped
  <2> QED
    BY <1>1, <1>6, <2>1 DEF FifoShapes
<1>3. CASE held'[s] = "quit"
  <2>1. Fifos!Leaves(s, "done")
    BY <1>3 DEF Fifos!Fgets
  <2> QED
    BY <1>2, <1>3, <1>5, <1>7, <1>8, <2>1, FifoLeaves
<1>4. CASE held'[s] # "quit"
  <2>0. pcF' = [pcF EXCEPT ![s] = "write"] /\ UNCHANGED pipe
    BY <1>4 DEF Fifos!Fgets
  <2>1. /\ pcF' \in [Fifos!Process -> {"mkfifo", "open", "opening", "loop", "write",
                                       "done", "failed", "killed"}]
        /\ pcF'[s] = "write" /\ \A q \in Fifos!Process \ {s} : pcF'[q] = pcF[q]
    BY <1>1, <1>2, <2>0 DEF FifoShapes
  <2>4. pcF'[Fifos!Receiver] = pcF[Fifos!Receiver]
    BY <1>2, <2>1, FifoConstants
  <2>5. FifoShapes' /\ FifoHeld'
    BY <1>1, <1>2, <1>5, <1>6, <1>7, <2>0, <2>1, <2>4 DEF FifoShapes, FifoHeld, Fifos!Holds
  <2>6. FifoTyped'
    <3>1. ASSUME NEW q \in QueueSender \ {s}
          PROVE  /\ pcF'[q] = pcF[q] /\ msg'[q] = msg[q] /\ input'[q] = input[q]
                 /\ typedF'[q] = typedF[q]
      BY <1>5, <1>6, <1>7, <2>1, FifoConstants
    <3>2. typedF'[s] = msg'[s]
      BY <1>6, <1>7
    <3> QED
      BY <1>1, <3>1, <3>2 DEF FifoTyped
  <2>7. FifoOrder'
    <3>1. CASE Alive(Fifos!Receiver)'
      <4>1. Alive(Fifos!Receiver) /\ Fifos!LinesInOrder
        BY <1>1, <2>4, <3>1 DEF Alive, Fifos!Ended, FifoOrder
      <4> DEFINE final(q) == Fifos!LastOf(q, pipe, Len(pipe), shownF[q])
      <4>2. msg[s] = final(s) /\ msg'[s] - msg[s] \in {0, 1} /\ msg[s] \in Int
        <5>1. msg[s] = final(s)
          BY <1>1, <1>2, <4>1 DEF FifoOrder, FifoWritten
        <5>2. msg[s] \in Int /\ (typedF[s] = msg[s] \/ typedF[s] = msg[s] + 1)
          BY <1>1 DEF FifoTyped, FifoShapes
        <5> QED
          BY <1>6, <5>1, <5>2
      <4>3. msg'[s] - final(s) \in {0, 1} /\ (held'[s] = "empty" => msg'[s] = final(s))
        BY <1>8, <4>2
      <4>4. \A q \in QueueSender \ {s} :
              /\ pcF'[q] = "write" => msg'[q] - final(q) \in {0, 1}
              /\ FifoWritten(q)' => msg'[q] = final(q)
        BY <1>1, <1>5, <1>6, <2>1, <4>1, FifoConstants
        DEF FifoOrder, FifoWritten, Fifos!LinesInOrder, Alive
      <4>5. \A q \in QueueSender : \A k \in DOMAIN pipe :
              pipe[k][1] = q => pipe[k][2] - Fifos!LastOf(q, pipe, k - 1, shownF[q]) \in {0, 1}
        BY <4>1 DEF Fifos!LinesInOrder, Alive
      <4> HIDE DEF final
      <4>6. \A q \in QueueSender :
              /\ pcF'[q] = "write" => msg'[q] - final(q) \in {0, 1}
              /\ FifoWritten(q)' => msg'[q] = final(q)
        BY <2>1, <4>3, <4>4 DEF FifoWritten
      <4> QED
        BY <1>7, <2>0, <4>5, <4>6 DEF FifoOrder, Fifos!LinesInOrder, final
    <3>2. CASE ~Alive(Fifos!Receiver)'
      BY <3>2 DEF FifoOrder, Alive, Fifos!LinesInOrder
    <3> QED
      BY <3>1, <3>2
  <2> QED
    BY <2>5, <2>6, <2>7 DEF FifoInv
<1> QED
  BY <1>3, <1>4

\* A text that is empty is written without a trace.
LEMMA FifoNothingInv ==
  ASSUME FifoInv, NEW s \in QueueSender, Fifos!WriteNothing(s) PROVE FifoInv'
<1>1. FifoShapes /\ FifoHeld /\ FifoTyped /\ FifoOrder
  BY DEF FifoInv
<1>2. s \in Fifos!Process /\ s # Fifos!Receiver /\ pcF[s] = "write" /\ held[s] = "empty"
  BY FifoConstants DEF Fifos!WriteNothing
<1>3. UNCHANGED <<existsF, met, pipe, msg, held, typedF, input, shownF>>
  BY DEF Fifos!WriteNothing
<1>4. /\ pcF' \in [Fifos!Process -> {"mkfifo", "open", "opening", "loop", "write",
                                     "done", "failed", "killed"}]
      /\ pcF'[s] = "loop" /\ \A q \in Fifos!Process \ {s} : pcF'[q] = pcF[q]
      /\ pcF'[Fifos!Receiver] = pcF[Fifos!Receiver]
  BY <1>1, <1>2, FifoConstants DEF FifoShapes, Fifos!WriteNothing
<1>5. FifoShapes' /\ FifoHeld' /\ FifoTyped'
  BY <1>1, <1>2, <1>3, <1>4, FifoConstants DEF FifoShapes, FifoHeld, Fifos!Holds, FifoTyped
<1>6. FifoOrder'
  BY <1>1, <1>2, <1>3, <1>4, FifoConstants, FifoOrderKept DEF Alive, Fifos!Ended, FifoWritten
<1> QED
  BY <1>5, <1>6 DEF FifoInv

LEMMA FifoWriteInv == ASSUME FifoInv, NEW s \in QueueSender, Fifos!Write(s) PROVE FifoInv'
<1>1. FifoShapes /\ FifoHeld /\ FifoTyped /\ FifoOrder
  BY DEF FifoInv
<1>2. s \in Fifos!Process /\ s # Fifos!Receiver /\ pcF[s] = "write"
  BY FifoConstants DEF Fifos!Write
<1>3. UNCHANGED <<existsF, met, msg, held, typedF, input, shownF>> /\ held[s] # "empty"
  BY DEF Fifos!Write
<1>4. CASE Fifos!Leaves(s, "killed")
  <2>1. /\ typedF[s] = msg[s] /\ held' \in [QueueSender -> Fifos!Text]
        /\ input' \in [QueueSender -> Fifos!Text \cup {"none", "eof"}]
    BY <1>1, <1>2, <1>3 DEF FifoShapes, FifoTyped
  <2> QED
    BY <1>2, <1>3, <1>4, <2>1, FifoLeaves
<1>5. CASE /\ pcF[Fifos!Receiver] \in {"opening", "loop"} /\ Len(pipe) < Room
           /\ pipe' = Append(pipe, <<s, msg[s]>>)
           /\ pcF' = [pcF EXCEPT ![s] = "loop"]
  <2>1. /\ pcF' \in [Fifos!Process -> {"mkfifo", "open", "opening", "loop", "write",
                                       "done", "failed", "killed"}]
        /\ pcF'[s] = "loop" /\ \A q \in Fifos!Process \ {s} : pcF'[q] = pcF[q]
        /\ pcF'[Fifos!Receiver] = pcF[Fifos!Receiver]
    BY <1>1, <1>2, <1>5, FifoConstants DEF FifoShapes
  <2>2. PICK n \in Nat : n = Len(pipe)
    BY <1>1 DEF FifoShapes
  <2>3. /\ pipe' \in Seq(QueueSender \X (0..MaxLines)) /\ Len(pipe') = n + 1
        /\ \A k \in 1..n : pipe'[k] = pipe[k]
        /\ pipe'[n + 1] = <<s, msg[s]>>
    <3>1. <<s, msg[s]>> \in QueueSender \X (0..MaxLines)
      BY <1>1 DEF FifoShapes
    <3>2. pipe \in Seq(QueueSender \X (0..MaxLines))
      BY <1>1 DEF FifoShapes
    <3> QED
      BY <1>5, <2>2, <3>1, <3>2, AppendProperties
  <2>4. DOMAIN pipe = 1..n /\ DOMAIN pipe' = 1..(n + 1)
    BY <1>1, <2>2, <2>3 DEF FifoShapes
  <2>5. FifoShapes'
    BY <1>1, <1>3, <1>5, <2>1, <2>2, <2>3, FifoConstants DEF FifoShapes
  <2>6. FifoHeld'
    BY <1>2, <1>5, <2>1 DEF FifoHeld, Fifos!Holds
  <2>7. FifoTyped'
    BY <1>1, <1>2, <1>3, <2>1, FifoConstants DEF FifoTyped
  <2>8. FifoOrder'
    <3>1. Alive(Fifos!Receiver) /\ Fifos!LinesInOrder
      BY <1>1, <1>5 DEF Alive, Fifos!Ended, FifoOrder
    <3> DEFINE old(q, k) == Fifos!LastOf(q, pipe, k, shownF[q])
               new(q, k) == Fifos!LastOf(q, pipe', k, shownF[q])
    <3>2. \A q \in QueueSender : \A k \in 0..n : new(q, k) = old(q, k)
      <4> SUFFICES ASSUME NEW q \in QueueSender, NEW k \in 0..n PROVE new(q, k) = old(q, k)
        OBVIOUS
      <4>1. \A m \in 1..k : pipe'[m] = pipe[m]
        BY <2>3
      <4> QED
        BY <4>1, LastOfPrefix
    <3>3. \A q \in QueueSender : new(q, n + 1) = IF q = s THEN msg[s] ELSE new(q, n)
      BY <2>3, LastOfNext
    <3>4. /\ \A q \in QueueSender : \A k \in 1..n :
               pipe[k][1] = q => pipe[k][2] - old(q, k - 1) \in {0, 1}
          /\ msg[s] - old(s, n) \in {0, 1}
          /\ \A q \in QueueSender : pcF[q] = "write" => msg[q] - old(q, n) \in {0, 1}
      BY <1>2, <2>2, <2>4, <3>1 DEF Fifos!LinesInOrder, Alive
    <3>5. \A q \in QueueSender : FifoWritten(q) => msg[q] = old(q, n)
      BY <1>1, <2>2, <3>1 DEF FifoOrder
    <3> HIDE DEF old, new
    <3>6. \A q \in QueueSender : \A k \in 1..(n + 1) :
            pipe'[k][1] = q => pipe'[k][2] - new(q, k - 1) \in {0, 1}
      <4> SUFFICES ASSUME NEW q \in QueueSender, NEW k \in 1..(n + 1), pipe'[k][1] = q
                   PROVE  pipe'[k][2] - new(q, k - 1) \in {0, 1}
        OBVIOUS
      <4>1. CASE k \in 1..n
        <5>1. new(q, k - 1) = old(q, k - 1) /\ pipe'[k] = pipe[k]
          BY <2>3, <3>2, <4>1
        <5> QED
          BY <3>4, <4>1, <5>1
      <4>2. CASE k = n + 1
        <5>1. q = s /\ pipe'[k][2] = msg[s] /\ k - 1 = n /\ new(q, n) = old(q, n)
          BY <2>3, <3>2, <4>2
        <5> QED
          BY <3>4, <5>1
      <4> QED
        BY <4>1, <4>2
    <3>7. \A q \in QueueSender :
            /\ pcF'[q] = "write" => msg[q] - new(q, n + 1) \in {0, 1}
            /\ FifoWritten(q)' => msg[q] = new(q, n + 1)
      <4> SUFFICES ASSUME NEW q \in QueueSender
                   PROVE  /\ pcF'[q] = "write" => msg[q] - new(q, n + 1) \in {0, 1}
                          /\ FifoWritten(q)' => msg[q] = new(q, n + 1)
        OBVIOUS
      <4>1. CASE q = s
        BY <2>1, <3>3, <4>1
      <4>2. CASE q # s
        <5>1. /\ pcF'[q] = pcF[q] /\ new(q, n + 1) = old(q, n)
              /\ FifoWritten(q)' => FifoWritten(q)
          BY <1>3, <2>1, <3>2, <3>3, <4>2, FifoConstants DEF FifoWritten
        <5> QED
          BY <3>4, <3>5, <5>1
      <4> QED
        BY <4>1, <4>2
    <3> QED
      BY <1>3, <2>3, <2>4, <3>6, <3>7 DEF FifoOrder, Fifos!LinesInOrder, new
  <2> QED
    BY <2>5, <2>6, <2>7, <2>8 DEF FifoInv
<1> QED
  BY <1>4, <1>5 DEF Fifos!Write

LEMMA FifoReadInv == FifoInv /\ Fifos!Read => FifoInv'
<1> SUFFICES ASSUME FifoInv, Fifos!Read PROVE FifoInv'
  OBVIOUS
<1>1. FifoShapes /\ FifoHeld /\ FifoTyped /\ FifoOrder
  BY DEF FifoInv
<1>2. CASE Fifos!ReadNoEnd
  <2> DEFINE final(q) == Fifos!LastOf(q, pipe, Len(pipe), shownF[q])
  <2>1. /\ pcF[Fifos!Receiver] = "loop" /\ pipe' = <<>>
        /\ shownF' = [q \in QueueSender |-> final(q)]
        /\ UNCHANGED <<pcF, existsF, met, msg, held, typedF, input>>
    BY <1>2 DEF Fifos!ReadNoEnd
  <2>2. Len(pipe') = 0 /\ DOMAIN pipe' = {} /\ pipe' \in Seq(QueueSender \X (0..MaxLines))
    BY <2>1
  <2>3. \A q \in QueueSender : final(q) \in 0..MaxLines
    <3> SUFFICES ASSUME NEW q \in QueueSender PROVE final(q) \in 0..MaxLines
      OBVIOUS
    <3>1. PICK n \in Nat : n = Len(pipe) /\ \A k \in 1..n : pipe[k] \in QueueSender \X (0..MaxLines)
      BY <1>1 DEF FifoShapes
    <3>2. CASE \A k \in 1..n : pipe[k][1] # q
      <4>1. final(q) = shownF[q]
        BY <3>1, <3>2, LastOfNone
      <4> HIDE DEF final
      <4> QED
        BY <1>1, <4>1 DEF FifoShapes
    <3>3. CASE \E k \in 1..n : pipe[k][1] = q
      <4>1. PICK k \in 1..n : IsLast(pipe, q, n, k)
        BY <3>3, LastExists
      <4> QED
        BY <3>1, <4>1, LastOfIs
    <3> QED
      BY <3>2, <3>3
  <2>4. \A q \in QueueSender : Fifos!LastOf(q, pipe', Len(pipe'), shownF'[q]) = final(q)
    BY <2>1, <2>2, LastOfNone
  <2>5. FifoShapes' /\ FifoHeld' /\ FifoTyped'
    BY <1>1, <2>1, <2>2, <2>3, FifoConstants DEF FifoShapes, FifoHeld, FifoTyped, Fifos!Holds
  <2>6. FifoOrder'
    <3>1. Alive(Fifos!Receiver)
      BY <2>1 DEF Alive, Fifos!Ended
    <3>2. \A q \in QueueSender :
            /\ pcF[q] = "write" => msg[q] - final(q) \in {0, 1}
            /\ FifoWritten(q) => msg[q] = final(q)
      BY <1>1, <3>1 DEF FifoOrder, Fifos!LinesInOrder, Alive
    <3> HIDE DEF final
    <3> QED
      BY <2>1, <2>2, <2>4, <3>2 DEF FifoOrder, FifoWritten, Fifos!LinesInOrder
  <2> QED
    BY <2>5, <2>6 DEF FifoInv
<1>3. CASE pcF[Fifos!Receiver] = "loop" /\ Fifos!Leaves(Fifos!Receiver, "done")
           /\ UNCHANGED <<existsF, met, msg, held, typedF, input, shownF>>
  BY <1>1, <1>3, FifoLeaves, FifoConstants DEF FifoShapes
<1> QED
  BY <1>2, <1>3 DEF Fifos!Read

LEMMA FifoNextInv == FifoInv /\ [Fifos!FifoNext]_fifoV => FifoInv'
<1> SUFFICES ASSUME FifoInv, [Fifos!FifoNext]_fifoV PROVE FifoInv'
  OBVIOUS
<1>1. CASE Fifos!Interrupt
  BY <1>1, FifoLeaves, FifoConstants DEF Fifos!Interrupt, FifoInv, FifoShapes
<1>2. ASSUME NEW s \in QueueSender, Fifos!Types(s) PROVE FifoInv'
  BY <1>2, FifoTypesInv
<1>3. ASSUME NEW p \in Fifos!Process, Fifos!Step(p) PROVE FifoInv'
  BY <1>3, FifoOpensInv, FifoFgetsInv, FifoWriteInv, FifoNothingInv, FifoReadInv
  DEF Fifos!Step
<1>4. CASE UNCHANGED fifoV
  BY <1>4 DEF fifoV, FifoInv, FifoShapes, FifoHeld, FifoTyped, FifoOrder, FifoWritten,
              Fifos!LinesInOrder, Fifos!Holds, Alive, Fifos!Ended
<1> QED
  BY <1>1, <1>2, <1>3, <1>4 DEF Fifos!FifoNext

(***************************************************************************)
(* QueueTalk: any number of ex05-1 senders, lines and places in a queue.   *)
(***************************************************************************)

TalkPlaces == {"msgget", "fgets", "msgsnd", "msgrcv", "asleep", "show", "rmid", "done"}
SenderPlaces == {"msgget", "fgets", "msgsnd", "done"}

TalkShapes ==
  /\ kind \in {"oneway", "talk"} /\ exists \subseteq 1..2
  /\ queue \in [1..2 -> Seq(Queues!Message)] /\ \A k \in 1..2 : Len(queue[k]) <= Room
  /\ id \in [Queues!Process -> [1..2 -> {"none", "live", "gone"}]]
  /\ buf \in [Queues!Process -> Queues!Message] /\ rbuf \in [Queues!Process -> Queues!Message]
  /\ typed \in [Queues!Process -> 0..MaxLines]
  /\ \A p \in Queues!Process : buf[p][1] = p
  /\ ghost \subseteq Queues!Process /\ lost \subseteq Queues!Message
  /\ heardEnd \in Queues!Process \cup {Queues!Nobody}

\* Where each program can be.
TalkPcs ==
  /\ pcQ \in [Queues!Process -> TalkPlaces]
  /\ \A p \in Queues!Process \ Queues!Running : pcQ[p] = "msgget"
  /\ \A p \in QueueSender : pcQ[p] \in SenderPlaces
  /\ pcQ["receiver"] \notin {"fgets", "msgsnd"} /\ pcQ["first"] # "rmid"

\* The identifiers of who removes the queues, and of the others before that.
TalkIds ==
  /\ kind = "oneway" =>
       /\ \A p \in Queues!Process : pcQ[p] = "msgget" => id[p][1] = "none"
       /\ pcQ["receiver"] \notin {"msgget", "done"} => id["receiver"][1] = "live"
       /\ pcQ["receiver"] # "done" => \A p \in Queues!Process : id[p][1] # "gone"
       /\ pcQ["receiver"] = "done" =>
            (1 \in exists <=> \E p \in QueueSender : id[p][1] = "live")
       /\ heardEnd = Queues!Nobody => pcQ["receiver"] \notin {"rmid", "done"}
  /\ kind = "talk" =>
       /\ pcQ["second"] \notin {"msgget", "rmid", "done"} =>
            id["second"][1] = "live" /\ id["second"][2] = "live"
       /\ pcQ["second"] = "rmid" => id["second"][1] = "live" \/ 1 \notin exists
       /\ pcQ["second"] = "done" => exists = {}
       /\ pcQ["second"] \in {"rmid", "done"} => pcQ["first"] # "msgget"
       /\ pcQ["second"] \notin {"rmid", "done"} =>
            \A p \in Queues!Process : \A k \in 1..2 : id[p][k] # "gone"

\* ex05-1/2: the "end" of a sender is behind its lines, in the queue and when it is read.
EndsLast ==
  kind = "oneway" =>
    /\ \A j \in DOMAIN queue[1] : Queues!IsEnd(queue[1][j]) =>
         /\ pcQ[queue[1][j][1]] = "done"
         /\ \A k \in DOMAIN queue[1] : k > j => queue[1][k][1] # queue[1][j][1]
    /\ \A j \in DOMAIN queue[1] : queue[1][j][1] \in QueueSender
    /\ pcQ["receiver"] = "asleep" => queue[1] = <<>>
    /\ pcQ["receiver"] = "show" =>
         /\ rbuf["receiver"][1] \in QueueSender
         /\ Queues!IsEnd(rbuf["receiver"]) =>
              /\ pcQ[rbuf["receiver"][1]] = "done"
              /\ \A k \in DOMAIN queue[1] : queue[1][k][1] # rbuf["receiver"][1]
    /\ heardEnd # Queues!Nobody =>
         /\ heardEnd \in QueueSender /\ pcQ[heardEnd] = "done"
         /\ pcQ["receiver"] \in {"rmid", "done"}
         /\ \A k \in DOMAIN queue[1] : queue[1][k][1] # heardEnd

\* exercise-1/2: the two speak in turn.
InTurn ==
  kind = "talk" =>
    /\ \A j \in DOMAIN queue[1] : queue[1][j][1] = "first"
    /\ pcQ["second"] \in {"show", "fgets", "msgsnd"} =>
         /\ queue[1] = <<>> /\ queue[2] = <<>>
         /\ pcQ["first"] \in {"msgrcv", "asleep", "done"}
    /\ pcQ["second"] \in {"msgget", "msgrcv", "asleep"} =>
         /\ queue[1] # <<>> => /\ Len(queue[1]) = 1 /\ queue[2] = <<>>
                               /\ pcQ["first"] \in {"msgrcv", "asleep", "done"}
         /\ queue[2] # <<>> => /\ Len(queue[2]) = 1 /\ queue[1] = <<>>
                               /\ pcQ["first"] \in {"msgrcv", "done"}
    /\ pcQ["second"] \in {"rmid", "done"} =>
         \A j \in DOMAIN queue[2] : queue[2][j] = Queues!End("second")

TalkInv ==
  TalkShapes /\ TalkPcs /\ TalkIds /\ EndsLast /\ InTurn /\ Queues!OnlyEndsLose

LEMMA TalkConstants ==
  /\ Queues!Process = QueueSender \cup {"receiver", "first", "second"}
  /\ "receiver" \notin QueueSender /\ "first" \notin QueueSender /\ "second" \notin QueueSender
  /\ Queues!Nobody \notin Queues!Process /\ Room \in Nat \ {0} /\ MaxLines \in Nat
  BY ExamplesAssumption DEF Queues!QueueAssumption, Queues!Process, Queues!Nobody

LEMMA TalkRunning ==
  /\ kind = "oneway" => Queues!Running = QueueSender \cup {"receiver"}
  /\ kind = "talk" => Queues!Running = {"first", "second"}
  BY DEF Queues!Running

LEMMA TalkMessages ==
  /\ \A p \in Queues!Process : \A n \in 0..(MaxLines + 1) :
       <<p, n>> \in Queues!Message /\ <<p, n>>[1] = p
  /\ \A m \in Queues!Message : m[1] \in Queues!Process
  BY DEF Queues!Message

LEMMA TalkInitInv == Queues!TalkInit => TalkInv
<1> SUFFICES ASSUME Queues!TalkInit PROVE TalkInv
  OBVIOUS
<1>1. /\ queue = [k \in 1..2 |-> <<>>] /\ pcQ = [p \in Queues!Process |-> "msgget"]
      /\ id = [p \in Queues!Process |-> [k \in 1..2 |-> "none"]]
      /\ ghost = {} /\ lost = {} /\ heardEnd = Queues!Nobody /\ exists = {}
      /\ typed = [p \in Queues!Process |-> 0] /\ rbuf = buf
  BY DEF Queues!TalkInit
<1>2. queue[1] = <<>> /\ queue[2] = <<>> /\ DOMAIN <<>> = {} /\ Len(<<>>) = 0
  BY <1>1
<1>3. buf \in [Queues!Process -> Queues!Message] /\ \A p \in Queues!Process : buf[p][1] = p
  <2>1. PICK g \in {0, MaxLines + 1} : buf = [p \in Queues!Process |-> <<p, g>>]
    BY DEF Queues!TalkInit
  <2>2. g \in 0..(MaxLines + 1)
    BY TalkConstants
  <2>3. \A p \in Queues!Process : <<p, g>> \in Queues!Message /\ <<p, g>>[1] = p
    BY <2>2, TalkMessages
  <2> QED
    BY <2>1, <2>3
<1>4. TalkShapes
  <2>1. queue \in [1..2 -> Seq(Queues!Message)]
    BY <1>1
  <2> QED
    BY <1>1, <1>2, <1>3, <2>1, TalkConstants DEF TalkShapes, Queues!TalkInit
<1>5. TalkPcs /\ TalkIds
  BY <1>1, TalkConstants DEF TalkPcs, TalkIds, TalkPlaces, SenderPlaces
<1>6. EndsLast /\ InTurn /\ Queues!OnlyEndsLose
  BY <1>1, <1>2, TalkConstants DEF EndsLast, InTurn, Queues!OnlyEndsLose
<1> QED
  BY <1>4, <1>5, <1>6 DEF TalkInv

LEMMA TalkMsggetInv == ASSUME TalkInv, NEW p \in Queues!Running, Queues!Msgget(p) PROVE TalkInv'
<1>1. TalkShapes /\ TalkPcs /\ TalkIds /\ EndsLast /\ InTurn /\ Queues!OnlyEndsLose
  BY DEF TalkInv
<1>2. p \in Queues!Process /\ pcQ[p] = "msgget"
      /\ UNCHANGED <<kind, queue, buf, rbuf, typed, eof, ghost, lost, heardEnd>>
  BY <1>1, TalkRunning, TalkConstants DEF Queues!Msgget, TalkShapes
<1>0. PICK k : k = IF id[p][1] = "none" THEN 1 ELSE 2
  OBVIOUS
<1>3. /\ k = IF id[p][1] = "none" THEN 1 ELSE 2
      /\ k \in 1..2
      /\ exists' = exists \cup {k}
      /\ id' = [id EXCEPT ![p][k] = "live"]
      /\ pcQ' = [pcQ EXCEPT ![p] =
                   IF kind = "talk" /\ k = 1 THEN "msgget"
                   ELSE IF p \in {"receiver", "second"} THEN "msgrcv" ELSE "fgets"]
  BY <1>0 DEF Queues!Msgget
<1>4. /\ id' \in [Queues!Process -> [1..2 -> {"none", "live", "gone"}]]
      /\ id'[p][k] = "live" /\ \A j \in 1..2 \ {k} : id'[p][j] = id[p][j]
      /\ \A q \in Queues!Process \ {p} : id'[q] = id[q]
  BY <1>1, <1>2, <1>3 DEF TalkShapes
<1>5. PICK c : /\ pcQ' = [pcQ EXCEPT ![p] = c]
               /\ c = IF kind = "talk" /\ k = 1 THEN "msgget"
                      ELSE IF p \in {"receiver", "second"} THEN "msgrcv" ELSE "fgets"
  BY <1>3
<1>6. /\ pcQ' \in [Queues!Process -> TalkPlaces] /\ pcQ'[p] = c
      /\ \A q \in Queues!Process \ {p} : pcQ'[q] = pcQ[q]
  BY <1>1, <1>2, <1>5 DEF TalkPcs, TalkPlaces
<1>7. TalkShapes'
  BY <1>1, <1>2, <1>3, <1>4 DEF TalkShapes
<1>8. TalkPcs'
  <2>1. \A q \in QueueSender : pcQ'[q] \in SenderPlaces
    BY <1>1, <1>5, <1>6, TalkConstants DEF TalkPcs, SenderPlaces
  <2>2. \A q \in Queues!Process \ Queues!Running : pcQ'[q] = "msgget"
    BY <1>1, <1>6 DEF TalkPcs
  <2>3. pcQ'["receiver"] \notin {"fgets", "msgsnd"} /\ pcQ'["first"] # "rmid"
    BY <1>1, <1>5, <1>6, TalkConstants DEF TalkPcs
  <2> QED
    BY <1>2, <1>6, <2>1, <2>2, <2>3 DEF TalkPcs, Queues!Running
<1>9. TalkIds'
  <2>1. CASE kind = "oneway"
    <3>1. k = 1 /\ c # "msgget" /\ c # "done" /\ c # "rmid"
      BY <1>1, <1>2, <1>3, <1>5, <2>1 DEF TalkIds
    <3>2. p \in QueueSender \cup {"receiver"}
      BY <2>1, TalkRunning
    <3> QED
      BY <1>1, <1>2, <1>3, <1>4, <1>6, <2>1, <3>1, <3>2, TalkConstants DEF TalkIds
  <2>2. CASE kind = "talk"
    <3>1. p \in {"first", "second"}
      BY <2>2, TalkRunning
    <3>2. pcQ["second"] \notin {"rmid", "done"} /\ c # "rmid" /\ c # "done"
      BY <1>1, <1>2, <1>5, <2>2, <3>1 DEF TalkIds
    <3>3. pcQ'["second"] \notin {"rmid", "done"}
      BY <1>6, <3>2, TalkConstants
    <3>4. \A q \in Queues!Process : \A j \in 1..2 : id'[q][j] # "gone"
      BY <1>1, <1>4, <2>2, <3>2 DEF TalkIds
    <3>5. pcQ'["second"] # "msgget" => id'["second"][1] = "live" /\ id'["second"][2] = "live"
      <4>1. CASE p = "second"
        <5>1. id[p][1] \in {"none", "live"}
          BY <1>1, <1>2, <2>2, <3>2 DEF TalkIds, TalkShapes
        <5> QED
          BY <1>3, <1>4, <1>5, <1>6, <2>2, <4>1, <5>1
      <4>2. CASE p = "first"
        BY <1>1, <1>4, <1>6, <2>2, <3>2, <4>2, TalkConstants DEF TalkIds
      <4> QED
        BY <3>1, <4>1, <4>2
    <3> QED
      BY <1>2, <2>2, <3>3, <3>4, <3>5 DEF TalkIds
  <2> QED
    BY <1>1, <2>1, <2>2 DEF TalkShapes
<1>10. EndsLast'
  <2>1. CASE kind = "oneway"
    <3>1. \A q \in Queues!Process : pcQ[q] \in {"done", "rmid", "show"} => pcQ'[q] = pcQ[q]
      BY <1>2, <1>6
    <3>2. c # "show" /\ c # "asleep"
      BY <1>5
    <3> QED
      BY <1>1, <1>2, <1>6, <2>1, <3>1, <3>2, TalkConstants DEF EndsLast
  <2>2. CASE kind # "oneway"
    BY <1>2, <2>2 DEF EndsLast
  <2> QED
    BY <2>1, <2>2
<1>11. InTurn'
  <2>1. CASE kind = "talk"
    <3>1. p \in {"first", "second"}
      BY <2>1, TalkRunning
    <3>2. c \in {"msgget", "msgrcv", "fgets"} /\ (p = "second" => c # "fgets")
      BY <1>5
    <3>3. CASE p = "second"
      BY <1>1, <1>2, <1>6, <2>1, <3>2, <3>3, TalkConstants DEF InTurn
    <3>4. CASE p = "first"
      <4>1. pcQ["second"] \in {"msgget", "msgrcv", "asleep"} => queue[1] = <<>> /\ queue[2] = <<>>
        BY <1>1, <1>2, <2>1, <3>4 DEF InTurn
      <4> QED
        BY <1>1, <1>2, <1>6, <2>1, <3>4, <4>1, TalkConstants DEF InTurn
    <3> QED
      BY <3>1, <3>3, <3>4
  <2>2. CASE kind # "talk"
    BY <1>2, <2>2 DEF InTurn
  <2> QED
    BY <2>1, <2>2
<1>12. Queues!OnlyEndsLose'
  <2>1. pcQ["second"] \in {"rmid", "done"} => pcQ'["second"] \in {"rmid", "done"}
    BY <1>2, <1>6, TalkConstants
  <2> QED
    BY <1>1, <1>2, <2>1 DEF Queues!OnlyEndsLose
<1> QED
  BY <1>7, <1>8, <1>9, <1>10, <1>11, <1>12 DEF TalkInv

\* A program goes on, and perhaps wakes one that sleeps in msgrcv().
LEMMA TalkGoes ==
  ASSUME TalkInv, NEW p \in Queues!Running, NEW c \in TalkPlaces \ {"msgget"},
         pcQ' \in [Queues!Process -> TalkPlaces], pcQ'[p] = c,
         \A q \in Queues!Process \ {p} :
           pcQ'[q] = pcQ[q] \/ (pcQ[q] = "asleep" /\ pcQ'[q] = "show"),
         UNCHANGED <<kind, exists, id>>, pcQ[p] \notin {"msgget", "rmid", "done"},
         p \in QueueSender => c \in SenderPlaces,
         p = "receiver" => c \notin {"fgets", "msgsnd", "done"},
         p = "receiver" /\ c = "rmid" => heardEnd' # Queues!Nobody,
         heardEnd' # Queues!Nobody \/ heardEnd' = heardEnd,
         p = "first" => c # "rmid", p = "second" => c # "done",
         p = "second" /\ c = "rmid" => pcQ["first"] # "msgget"
  PROVE  TalkPcs' /\ TalkIds'
<1>1. TalkShapes /\ TalkPcs /\ TalkIds
  BY DEF TalkInv
<1>2. Queues!Running \subseteq Queues!Process
  BY TalkConstants DEF Queues!Running
<1>3. \A q \in Queues!Process \ {p} :
        /\ pcQ[q] # "asleep" => pcQ'[q] = pcQ[q]
        /\ \A x \in TalkPlaces \ {"asleep", "show"} : pcQ'[q] = x <=> pcQ[q] = x
  BY DEF TalkPlaces
<1>4. \A q \in QueueSender : pcQ'[q] \in SenderPlaces
  <2>1. \A q \in QueueSender : pcQ[q] # "asleep"
    BY <1>1 DEF TalkPcs, SenderPlaces
  <2> QED
    BY <1>1, <1>3, <2>1, TalkConstants DEF TalkPcs
<1>5. \A q \in Queues!Process \ Queues!Running : pcQ'[q] = "msgget"
  BY <1>1, <1>3 DEF TalkPcs, TalkPlaces
<1>6. pcQ'["receiver"] \notin {"fgets", "msgsnd"} /\ pcQ'["first"] # "rmid"
  BY <1>1, <1>3, TalkConstants DEF TalkPcs, TalkPlaces
<1>7. TalkPcs'
  BY <1>4, <1>5, <1>6 DEF TalkPcs, Queues!Running
<1>8. CASE kind = "oneway"
  <2>1. p \in QueueSender \cup {"receiver"} /\ p # "second"
    BY <1>8, TalkRunning, TalkConstants
  <2>2. \A q \in Queues!Process : pcQ'[q] = "msgget" <=> pcQ[q] = "msgget"
    BY <1>2, <1>3 DEF TalkPlaces
  <2>3. \A x \in {"msgget", "done"} : pcQ'["receiver"] = x <=> pcQ["receiver"] = x
    BY <1>3, <2>2, TalkConstants DEF TalkPlaces
  <2>4. pcQ'["receiver"] = "rmid" => pcQ["receiver"] = "rmid" \/ heardEnd' # Queues!Nobody
    BY <1>3, TalkConstants DEF TalkPlaces
  <2> QED
    BY <1>1, <1>7, <1>8, <2>1, <2>2, <2>3, <2>4 DEF TalkIds
<1>9. CASE kind = "talk"
  <2>1. p \in {"first", "second"} /\ p # "receiver"
    BY <1>9, TalkRunning
  <2>2. pcQ'["first"] = "msgget" <=> pcQ["first"] = "msgget"
    BY <1>3, <2>1, TalkConstants DEF TalkPlaces
  <2>3. CASE p = "first"
    <3>1. \A x \in {"msgget", "rmid", "done"} : pcQ'["second"] = x <=> pcQ["second"] = x
      BY <1>3, <2>3, TalkConstants DEF TalkPlaces
    <3> QED
      BY <1>1, <1>7, <1>9, <2>2, <3>1 DEF TalkIds
  <2>4. CASE p = "second"
    BY <1>1, <1>7, <1>9, <2>2, <2>4 DEF TalkIds
  <2> QED
    BY <2>1, <2>3, <2>4
<1> QED
  BY <1>1, <1>8, <1>9 DEF TalkShapes

LEMMA TalkFgetsInv == ASSUME TalkInv, NEW p \in Queues!Running, Queues!Fgets(p) PROVE TalkInv'
<1>1. TalkShapes /\ TalkPcs /\ TalkIds /\ EndsLast /\ InTurn /\ Queues!OnlyEndsLose
  BY DEF TalkInv
<1>2. p \in Queues!Process /\ pcQ[p] = "fgets" /\ pcQ' = [pcQ EXCEPT ![p] = "msgsnd"]
      /\ UNCHANGED <<kind, exists, queue, id, rbuf, ghost, lost, heardEnd>>
  BY <1>1, TalkRunning, TalkConstants DEF Queues!Fgets, TalkShapes
<1>3. /\ pcQ' \in [Queues!Process -> TalkPlaces] /\ pcQ'[p] = "msgsnd"
      /\ \A q \in Queues!Process \ {p} : pcQ'[q] = pcQ[q]
      /\ p # "receiver"
  BY <1>1, <1>2 DEF TalkPcs, TalkPlaces
<1>4. PICK n, b :
        /\ n \in 0..(MaxLines + 1)
        /\ b = <<p, n>> \/ b = buf[p]
        /\ buf' = [buf EXCEPT ![p] = b]
        /\ typed' = typed \/ (typed' = [typed EXCEPT ![p] = n] /\ n <= MaxLines)
  <2>1. typed[p] \in 0..MaxLines /\ buf = [buf EXCEPT ![p] = buf[p]] /\ 0 \in 0..(MaxLines + 1)
    BY <1>1, <1>2, TalkConstants DEF TalkShapes
  <2>2. CASE /\ typed[p] < MaxLines /\ typed' = [typed EXCEPT ![p] = typed[p] + 1]
             /\ buf' = [buf EXCEPT ![p] = <<p, typed'[p]>>]
    <3>1. typed'[p] = typed[p] + 1 /\ typed[p] + 1 \in 0..(MaxLines + 1) /\ typed[p] + 1 <= MaxLines
      BY <1>1, <1>2, <2>1, <2>2, TalkConstants DEF TalkShapes
    <3> QED
      BY <2>2, <3>1
  <2>3. CASE buf' = [buf EXCEPT ![p] = Queues!End(p)] /\ typed' = typed
    BY <2>1, <2>3 DEF Queues!End
  <2>4. CASE UNCHANGED <<typed, buf>>
    BY <2>1, <2>4
  <2> QED
    BY <2>2, <2>3, <2>4 DEF Queues!Fgets
<1>5. TalkShapes'
  <2>1. b \in Queues!Message /\ b[1] = p
    BY <1>1, <1>2, <1>4, TalkMessages DEF TalkShapes
  <2>2. buf' \in [Queues!Process -> Queues!Message] /\ \A q \in Queues!Process : buf'[q][1] = q
    BY <1>1, <1>2, <1>4, <2>1 DEF TalkShapes
  <2>3. typed' \in [Queues!Process -> 0..MaxLines]
    BY <1>1, <1>2, <1>4, TalkConstants DEF TalkShapes
  <2> QED
    BY <1>1, <1>2, <2>2, <2>3 DEF TalkShapes
<1>6. TalkPcs' /\ TalkIds'
  BY <1>2, <1>3, TalkGoes DEF TalkPlaces, SenderPlaces
<1>7. \A q \in Queues!Process : \A x \in {"done", "rmid", "show"} : pcQ'[q] = x <=> pcQ[q] = x
  BY <1>2, <1>3
<1>8. EndsLast'
  <2>1. CASE kind = "oneway"
    BY <1>1, <1>2, <1>7, <2>1, TalkConstants DEF EndsLast
  <2>2. CASE kind # "oneway"
    BY <1>2, <2>2 DEF EndsLast
  <2> QED
    BY <2>1, <2>2
<1>9. InTurn'
  <2>1. CASE kind = "talk"
    <3>1. p \in {"first", "second"}
      BY <2>1, TalkRunning
    <3>2. CASE p = "second"
      BY <1>1, <1>2, <1>3, <2>1, <3>2, TalkConstants DEF InTurn
    <3>3. CASE p = "first"
      BY <1>1, <1>2, <1>3, <2>1, <3>3, TalkConstants DEF InTurn
    <3> QED
      BY <3>1, <3>2, <3>3
  <2>2. CASE kind # "talk"
    BY <1>2, <2>2 DEF InTurn
  <2> QED
    BY <2>1, <2>2
<1>10. Queues!OnlyEndsLose'
  BY <1>1, <1>2, <1>7, TalkConstants DEF Queues!OnlyEndsLose
<1> QED
  BY <1>5, <1>6, <1>8, <1>9, <1>10 DEF TalkInv

\* What is behind msgsnd(), and who may be there.
LEMMA AfterSending ==
  ASSUME TalkInv, NEW p \in Queues!Running, pcQ[p] = "msgsnd",
         NEW c, c = Queues!AfterSend(p)
  PROVE  /\ kind = "oneway" =>
              /\ p \in QueueSender /\ Queues!Out(p) = 1
              /\ c = IF buf[p][2] = 0 THEN "done" ELSE "fgets"
         /\ kind = "talk" /\ p = "first" =>
              Queues!Out(p) = 1 /\ c = IF buf[p][2] = 0 THEN "done" ELSE "msgrcv"
         /\ kind = "talk" /\ p = "second" =>
              Queues!Out(p) = 2 /\ c = IF buf[p][2] = 0 THEN "rmid" ELSE "msgrcv"
         /\ kind = "talk" => p \in {"first", "second"}
         /\ buf[p] \in Queues!Message /\ buf[p] = <<p, buf[p][2]>> /\ p \in Queues!Process
<1>1. TalkShapes /\ TalkPcs
  BY DEF TalkInv
<1>2. p \in Queues!Process
  BY <1>1, TalkRunning, TalkConstants DEF TalkShapes
<1>3. buf[p] \in Queues!Message /\ buf[p] = <<p, buf[p][2]>>
  BY <1>1, <1>2 DEF TalkShapes, Queues!Message
<1>4. kind = "oneway" => p \in QueueSender /\ p # "second"
  BY <1>1, TalkRunning, TalkConstants DEF TalkPcs
<1>5. kind = "talk" => p \in {"first", "second"}
  BY TalkRunning
<1> QED
  BY <1>2, <1>3, <1>4, <1>5 DEF Queues!Out, Queues!AfterSend, Queues!IsEnd

\* The invariant of the places, for a program that has sent.
LEMMA TalkSent ==
  ASSUME TalkInv, NEW p \in Queues!Running, pcQ[p] = "msgsnd",
         pcQ' \in [Queues!Process -> TalkPlaces], pcQ'[p] = Queues!AfterSend(p),
         \A q \in Queues!Process \ {p} :
           pcQ'[q] = pcQ[q] \/ (pcQ[q] = "asleep" /\ pcQ'[q] = "show"),
         UNCHANGED <<kind, exists, id, heardEnd>>
  PROVE  TalkPcs' /\ TalkIds'
<1>1. TalkShapes /\ InTurn /\ TalkPcs
  BY DEF TalkInv
<1>2. PICK c : c = Queues!AfterSend(p)
  OBVIOUS
<1>3. c \in {"done", "fgets", "msgrcv", "rmid"} /\ kind \in {"oneway", "talk"}
      /\ (c = "rmid" => kind = "talk" /\ p = "second")
      /\ (c = "done" => p # "second") /\ (c = "msgrcv" => kind = "talk")
      /\ p # "receiver"
  BY <1>1, <1>2, AfterSending, TalkConstants DEF TalkShapes, TalkPcs
<1>4. p = "second" /\ kind = "talk" => pcQ["first"] # "msgget"
  BY <1>1 DEF InTurn
<1>5. p \in QueueSender => c \in SenderPlaces
  BY <1>1, <1>2, <1>3, AfterSending, TalkConstants DEF SenderPlaces
<1> QED
  BY <1>2, <1>3, <1>4, <1>5, TalkGoes, TalkConstants DEF TalkPlaces

LEMMA TalkDropInv ==
  ASSUME TalkInv, NEW p \in Queues!Running, pcQ[p] = "msgsnd", id[p][Queues!Out(p)] = "gone",
         Queues!Drop(p), UNCHANGED <<kind, exists, id, buf, typed, eof, ghost, heardEnd>>
  PROVE  TalkInv'
<1>1. TalkShapes /\ TalkPcs /\ TalkIds /\ EndsLast /\ InTurn /\ Queues!OnlyEndsLose
  BY DEF TalkInv
<1>2. PICK c : c = Queues!AfterSend(p)
  OBVIOUS
<1>3. p \in Queues!Process /\ buf[p] \in Queues!Message /\ buf[p][1] = p
  BY <1>1, AfterSending DEF TalkShapes
<1>4. /\ lost' = lost \cup {buf[p]} /\ pcQ' = [pcQ EXCEPT ![p] = c] /\ UNCHANGED <<queue, rbuf>>
  BY <1>2 DEF Queues!Drop
<1>5. c \in {"done", "fgets", "msgrcv", "rmid"}
  BY <1>1, <1>2, AfterSending DEF TalkShapes
<1>6. /\ pcQ' \in [Queues!Process -> TalkPlaces] /\ pcQ'[p] = c
      /\ \A q \in Queues!Process \ {p} : pcQ'[q] = pcQ[q]
  BY <1>1, <1>3, <1>4, <1>5 DEF TalkPcs, TalkPlaces
<1>7. TalkShapes'
  BY <1>1, <1>3, <1>4 DEF TalkShapes
<1>8. TalkPcs' /\ TalkIds'
  BY <1>2, <1>6, TalkSent
<1>9. CASE kind = "oneway"
  <2>1. p \in QueueSender /\ Queues!Out(p) = 1 /\ c \in {"done", "fgets"}
    BY <1>2, <1>9, AfterSending
  <2>2. pcQ["receiver"] = "done" /\ heardEnd # Queues!Nobody /\ heardEnd # p
    BY <1>1, <1>3, <1>9, <2>1 DEF TalkIds, EndsLast
  <2>3. Queues!OnlyEndsLose'
    BY <1>1, <1>3, <1>4, <1>9, <2>2 DEF Queues!OnlyEndsLose, TalkIds
  <2>4. EndsLast'
    BY <1>1, <1>4, <1>6, <1>9, <2>1, <2>2, TalkConstants DEF EndsLast
  <2>5. InTurn'
    BY <1>9 DEF InTurn
  <2> QED
    BY <1>7, <1>8, <2>3, <2>4, <2>5 DEF TalkInv
<1>10. CASE kind = "talk"
  <2>1. pcQ["second"] \in {"rmid", "done"} /\ p = "first"
    BY <1>1, <1>3, <1>10, AfterSending DEF TalkIds
  <2>2. pcQ'["second"] = pcQ["second"]
    BY <1>6, <2>1, TalkConstants
  <2>3. Queues!OnlyEndsLose'
    BY <1>1, <1>3, <1>4, <1>10, <2>1, <2>2 DEF Queues!OnlyEndsLose
  <2>4. EndsLast' /\ InTurn'
    BY <1>1, <1>4, <1>10, <2>1, <2>2 DEF EndsLast, InTurn
  <2> QED
    BY <1>7, <1>8, <2>3, <2>4 DEF TalkInv
<1> QED
  BY <1>1, <1>9, <1>10 DEF TalkShapes

LEMMA TalkHandOverInv ==
  ASSUME TalkInv, NEW p \in Queues!Running, pcQ[p] = "msgsnd", NEW r \in Queues!Running,
         pcQ[r] = "asleep", Queues!In(r) = Queues!Out(p),
         rbuf' = [rbuf EXCEPT ![r] = buf[p]],
         pcQ' = [pcQ EXCEPT ![p] = Queues!AfterSend(p), ![r] = "show"],
         UNCHANGED <<kind, exists, queue, id, buf, typed, eof, ghost, lost, heardEnd>>
  PROVE  TalkInv'
<1>1. TalkShapes /\ TalkPcs /\ TalkIds /\ EndsLast /\ InTurn /\ Queues!OnlyEndsLose
  BY DEF TalkInv
<1>2. PICK c : c = Queues!AfterSend(p)
  OBVIOUS
<1>3. /\ p \in Queues!Process /\ r \in Queues!Process /\ p # r
      /\ buf[p] \in Queues!Message /\ buf[p] = <<p, buf[p][2]>> /\ buf[p][1] = p
  BY <1>1, AfterSending, TalkRunning, TalkConstants DEF TalkShapes
<1>5. c \in {"done", "fgets", "msgrcv", "rmid"}
  BY <1>1, <1>2, AfterSending DEF TalkShapes
<1>4. pcQ' = [pcQ EXCEPT ![p] = c, ![r] = "show"]
  BY <1>2
<1>6. /\ pcQ' \in [Queues!Process -> TalkPlaces] /\ pcQ'[p] = c /\ pcQ'[r] = "show"
      /\ \A q \in Queues!Process \ {p, r} : pcQ'[q] = pcQ[q]
  BY <1>1, <1>3, <1>4, <1>5 DEF TalkPcs, TalkPlaces
<1>7. rbuf' \in [Queues!Process -> Queues!Message] /\ rbuf'[r] = buf[p]
  BY <1>1, <1>3 DEF TalkShapes
<1>8. TalkShapes'
  BY <1>1, <1>7 DEF TalkShapes
<1>9. TalkPcs' /\ TalkIds'
  BY <1>2, <1>3, <1>6, TalkSent
<1>10. Queues!OnlyEndsLose'
  <2>1. pcQ["second"] \in {"rmid", "done"} => pcQ'["second"] = pcQ["second"]
    BY <1>6, TalkConstants
  <2> QED
    BY <1>1, <2>1 DEF Queues!OnlyEndsLose
<1>11. CASE kind = "oneway"
  <2>1. p \in QueueSender /\ c = IF buf[p][2] = 0 THEN "done" ELSE "fgets"
    BY <1>2, <1>11, AfterSending
  <2>2. r = "receiver"
    BY <1>1, <1>11, TalkRunning DEF TalkPcs, SenderPlaces
  <2>3. queue[1] = <<>> /\ DOMAIN queue[1] = {}
    BY <1>1, <1>11, <2>2 DEF EndsLast
  <2>4. heardEnd = Queues!Nobody
    BY <1>1, <1>11, <2>2 DEF EndsLast
  <2>5. EndsLast'
    BY <1>3, <1>6, <1>7, <1>11, <2>1, <2>2, <2>3, <2>4 DEF EndsLast, Queues!IsEnd
  <2> QED
    BY <1>8, <1>9, <1>10, <1>11, <2>5 DEF TalkInv, InTurn
<1>12. CASE kind = "talk"
  <2>1. CASE p = "first"
    <3>1. r = "second" /\ c \in {"done", "msgrcv"}
      BY <1>2, <1>3, <1>12, <2>1, AfterSending, TalkRunning
    <3>2. queue[1] = <<>> /\ queue[2] = <<>>
      BY <1>1, <1>12, <2>1, <3>1 DEF InTurn
    <3> QED
      BY <1>6, <1>8, <1>9, <1>10, <1>12, <2>1, <3>1, <3>2 DEF TalkInv, InTurn, EndsLast
  <2>2. CASE p = "second"
    <3>1. r = "first" /\ c \in {"rmid", "msgrcv"}
      BY <1>2, <1>3, <1>12, <2>2, AfterSending, TalkRunning
    <3>2. queue[1] = <<>> /\ queue[2] = <<>>
      BY <1>1, <1>12, <2>2, <3>1 DEF InTurn
    <3> QED
      BY <1>6, <1>8, <1>9, <1>10, <1>12, <2>2, <3>1, <3>2 DEF TalkInv, InTurn, EndsLast
  <2> QED
    BY <1>12, <2>1, <2>2, TalkRunning
<1> QED
  BY <1>1, <1>11, <1>12 DEF TalkShapes

\* One message more in a queue, or its oldest one less.
LEMMA QueueAppended ==
  ASSUME NEW S, NEW q \in Seq(S), NEW m \in S, NEW q2, q2 = Append(q, m)
  PROVE  /\ q2 \in Seq(S) /\ Len(q2) = Len(q) + 1
         /\ DOMAIN q = 1..Len(q) /\ DOMAIN q2 = 1..(Len(q) + 1)
         /\ \A j \in 1..Len(q) : q2[j] = q[j]
         /\ q2[Len(q) + 1] = m /\ Len(q) \in Nat
  BY AppendProperties

LEMMA QueueShortened ==
  ASSUME NEW S, NEW q \in Seq(S), q # <<>>, NEW q2, q2 = Tail(q)
  PROVE  /\ q2 \in Seq(S) /\ Len(q2) = Len(q) - 1 /\ Len(q) \in Nat \ {0}
         /\ DOMAIN q = 1..Len(q) /\ DOMAIN q2 = 1..(Len(q) - 1)
         /\ \A j \in 1..(Len(q) - 1) : q2[j] = q[j + 1]
         /\ Head(q) = q[1] /\ q[1] \in S
  BY HeadTailProperties, EmptySeq

LEMMA TalkQueuesInv ==
  ASSUME TalkInv, NEW p \in Queues!Running, pcQ[p] = "msgsnd",
         NEW k, k = Queues!Out(p), Len(queue[k]) < Room,
         \A r \in Queues!Running : ~(pcQ[r] = "asleep" /\ Queues!In(r) = k),
         queue' = [queue EXCEPT ![k] = Append(queue[k], buf[p])],
         pcQ' = [pcQ EXCEPT ![p] = Queues!AfterSend(p)],
         UNCHANGED <<kind, exists, rbuf, id, buf, typed, eof, ghost, lost, heardEnd>>
  PROVE  TalkInv'
<1>1. TalkShapes /\ TalkPcs /\ TalkIds /\ EndsLast /\ InTurn /\ Queues!OnlyEndsLose
  BY DEF TalkInv
<1>2. PICK c : c = Queues!AfterSend(p)
  OBVIOUS
<1>3. /\ p \in Queues!Process
      /\ buf[p] \in Queues!Message /\ buf[p] = <<p, buf[p][2]>> /\ buf[p][1] = p
  BY <1>1, AfterSending DEF TalkShapes
<1>4. c \in {"done", "fgets", "msgrcv", "rmid"} /\ pcQ' = [pcQ EXCEPT ![p] = c] /\ k \in 1..2
  BY <1>1, <1>2, AfterSending DEF TalkShapes
<1>5. /\ pcQ' \in [Queues!Process -> TalkPlaces] /\ pcQ'[p] = c
      /\ \A q \in Queues!Process \ {p} : pcQ'[q] = pcQ[q]
  BY <1>1, <1>3, <1>4 DEF TalkPcs, TalkPlaces
<1>6. PICK q, q2, n :
        q = queue[k] /\ q2 = Append(q, buf[p]) /\ n = Len(q) /\ q \in Seq(Queues!Message)
  BY <1>1, <1>4 DEF TalkShapes
<1>7. /\ q2 \in Seq(Queues!Message) /\ Len(q2) = n + 1 /\ n \in Nat
      /\ DOMAIN q = 1..n /\ DOMAIN q2 = 1..(n + 1)
      /\ \A j \in 1..n : q2[j] = q[j]
      /\ q2[n + 1] = buf[p]
  BY <1>3, <1>6, QueueAppended
<1>8. queue'[k] = q2 /\ \A x \in 1..2 \ {k} : queue'[x] = queue[x]
  BY <1>1, <1>4, <1>6 DEF TalkShapes
<1>9. TalkShapes'
  <2>1. queue' \in [1..2 -> Seq(Queues!Message)]
    BY <1>1, <1>4, <1>6, <1>7 DEF TalkShapes
  <2>2. \A j \in 1..2 : Len(queue'[j]) <= Room
    BY <1>1, <1>4, <1>6, <1>7, <1>8, TalkConstants DEF TalkShapes
  <2> QED
    BY <1>1, <2>1, <2>2 DEF TalkShapes
<1>10. TalkPcs' /\ TalkIds'
  BY <1>2, <1>5, TalkSent
<1>11. Queues!OnlyEndsLose'
  <2>1. pcQ["second"] \in {"rmid", "done"} => pcQ'["second"] = pcQ["second"]
    BY <1>5, TalkConstants
  <2> QED
    BY <1>1, <2>1 DEF Queues!OnlyEndsLose
<1>12. CASE kind = "oneway"
  <2>1. p \in QueueSender /\ k = 1 /\ c = IF buf[p][2] = 0 THEN "done" ELSE "fgets"
    BY <1>2, <1>12, AfterSending
  <2>2. pcQ["receiver"] # "asleep"
    <3>1. "receiver" \in Queues!Running /\ Queues!In("receiver") = 1
      BY <1>12, TalkRunning DEF Queues!In
    <3> QED
      BY <2>1, <3>1
  <2>3. \A a \in Queues!Process : pcQ[a] = "done" => pcQ'[a] = "done" /\ a # p
    BY <1>5
  <2>4. pcQ'["receiver"] = pcQ["receiver"]
    BY <1>5, <2>1, TalkConstants
  <2>5. EndsLast'
    <3>1. \A j \in 1..(n + 1) : Queues!IsEnd(q2[j]) =>
            /\ pcQ'[q2[j][1]] = "done"
            /\ \A x \in 1..(n + 1) : x > j => q2[x][1] # q2[j][1]
      <4> SUFFICES ASSUME NEW j \in 1..(n + 1), Queues!IsEnd(q2[j])
                   PROVE  /\ pcQ'[q2[j][1]] = "done"
                          /\ \A x \in 1..(n + 1) : x > j => q2[x][1] # q2[j][1]
        OBVIOUS
      <4>1. CASE j = n + 1
        BY <1>3, <1>5, <1>7, <2>1, <4>1 DEF Queues!IsEnd
      <4>2. CASE j \in 1..n
        <5>1. /\ q[j] \in Queues!Message /\ q2[j] = q[j] /\ pcQ[q[j][1]] = "done"
              /\ \A x \in 1..n : x > j => q[x][1] # q[j][1]
          BY <1>1, <1>6, <1>7, <1>12, <2>1, <4>2 DEF EndsLast
        <5>2. q[j][1] \in Queues!Process
          BY <5>1, TalkMessages
        <5> QED
          BY <1>3, <1>7, <2>3, <4>2, <5>1, <5>2
      <4> QED
        BY <1>7, <4>1, <4>2
    <3>2. \A j \in 1..(n + 1) : q2[j][1] \in QueueSender
      BY <1>1, <1>3, <1>6, <1>7, <1>12, <2>1 DEF EndsLast
    <3>3. \A a \in QueueSender :
            pcQ[a] = "done" /\ (\A j \in 1..n : q[j][1] # a) =>
              pcQ'[a] = "done" /\ \A j \in 1..(n + 1) : q2[j][1] # a
      BY <1>3, <1>7, <2>3, TalkConstants
    <3>4. /\ DOMAIN queue[1] = 1..n /\ queue[1] = q
          /\ DOMAIN queue'[1] = 1..(n + 1) /\ queue'[1] = q2
      BY <1>6, <1>7, <1>8, <2>1
    <3>5. pcQ["receiver"] = "show" => rbuf["receiver"][1] \in QueueSender
      BY <1>1, <1>12 DEF EndsLast
    <3>6. pcQ["receiver"] = "show" /\ Queues!IsEnd(rbuf["receiver"]) =>
            /\ pcQ'[rbuf["receiver"][1]] = "done"
            /\ \A j \in 1..(n + 1) : q2[j][1] # rbuf["receiver"][1]
      BY <1>1, <1>12, <3>3, <3>4, <3>5 DEF EndsLast
    <3>7. heardEnd # Queues!Nobody =>
            /\ heardEnd \in QueueSender /\ pcQ'[heardEnd] = "done"
            /\ pcQ["receiver"] \in {"rmid", "done"}
            /\ \A j \in 1..(n + 1) : q2[j][1] # heardEnd
      BY <1>1, <1>12, <3>3, <3>4 DEF EndsLast
    <3>8. /\ \A j \in DOMAIN queue'[1] : Queues!IsEnd(queue'[1][j]) =>
               /\ pcQ'[queue'[1][j][1]] = "done"
               /\ \A x \in DOMAIN queue'[1] : x > j => queue'[1][x][1] # queue'[1][j][1]
          /\ \A j \in DOMAIN queue'[1] : queue'[1][j][1] \in QueueSender
      BY <1>7, <3>1, <3>2, <3>4
    <3>9. pcQ'["receiver"] = "show" =>
            /\ rbuf'["receiver"][1] \in QueueSender
            /\ Queues!IsEnd(rbuf'["receiver"]) =>
                 /\ pcQ'[rbuf'["receiver"][1]] = "done"
                 /\ \A j \in DOMAIN queue'[1] : queue'[1][j][1] # rbuf'["receiver"][1]
      BY <2>4, <3>4, <3>5, <3>6
    <3>10. heardEnd' # Queues!Nobody =>
             /\ heardEnd' \in QueueSender /\ pcQ'[heardEnd'] = "done"
             /\ pcQ'["receiver"] \in {"rmid", "done"}
             /\ \A j \in DOMAIN queue'[1] : queue'[1][j][1] # heardEnd'
      BY <2>4, <3>4, <3>7
    <3> QED
      BY <2>2, <2>4, <3>8, <3>9, <3>10 DEF EndsLast, Queues!IsEnd
  <2> QED
    BY <1>9, <1>10, <1>11, <1>12, <2>5 DEF TalkInv, InTurn
<1>13. CASE kind = "talk"
  <2>1. CASE p = "first"
    <3>1. k = 1 /\ c \in {"done", "msgrcv"}
      BY <1>2, <1>13, <2>1, AfterSending
    <3>2. pcQ'["second"] = pcQ["second"] /\ pcQ["second"] \in TalkPlaces /\ queue'[2] = queue[2]
      BY <1>1, <1>5, <1>8, <2>1, <3>1, TalkConstants DEF TalkPcs
    <3>3. /\ pcQ["second"] \in {"msgget", "msgrcv", "asleep"} => queue[1] = <<>> /\ queue[2] = <<>>
          /\ pcQ["second"] \notin {"show", "fgets", "msgsnd"}
      BY <1>1, <1>13, <2>1 DEF InTurn
    <3>4. \A j \in DOMAIN queue'[1] : queue'[1][j][1] = "first"
      BY <1>1, <1>3, <1>6, <1>7, <1>8, <1>13, <2>1, <3>1 DEF InTurn
    <3>5. queue[1] = <<>> => Len(queue'[1]) = 1
      BY <1>6, <1>7, <1>8, <3>1
    <3>6. InTurn'
      BY <1>1, <1>5, <1>13, <2>1, <3>1, <3>2, <3>3, <3>4, <3>5 DEF InTurn
    <3> QED
      BY <1>9, <1>10, <1>11, <1>13, <3>6 DEF TalkInv, EndsLast
  <2>2. CASE p = "second"
    <3>1. k = 2 /\ c = IF buf[p][2] = 0 THEN "rmid" ELSE "msgrcv"
      BY <1>2, <1>13, <2>2, AfterSending
    <3>2. pcQ'["first"] = pcQ["first"] /\ queue'[1] = queue[1]
      BY <1>1, <1>5, <1>8, <2>2, <3>1, TalkConstants DEF TalkPcs
    <3>3. "first" \in Queues!Running /\ Queues!In("first") = 2
      BY <1>13, TalkRunning DEF Queues!In
    <3>4. queue[1] = <<>> /\ queue[2] = <<>> /\ pcQ["first"] \in {"msgrcv", "done"}
      BY <1>1, <1>13, <2>2, <3>1, <3>3 DEF InTurn
    <3>5. n = 0 /\ Len(queue'[2]) = 1 /\ DOMAIN queue'[2] = 1..1 /\ queue'[2][1] = buf[p]
      BY <1>6, <1>7, <1>8, <3>1, <3>4
    <3>6. c = "rmid" => buf[p] = Queues!End("second")
      BY <1>3, <2>2, <3>1 DEF Queues!End
    <3>7. InTurn'
      BY <1>1, <1>5, <1>13, <2>2, <3>1, <3>2, <3>4, <3>5, <3>6 DEF InTurn
    <3> QED
      BY <1>9, <1>10, <1>11, <1>13, <3>7 DEF TalkInv, EndsLast
  <2> QED
    BY <1>13, <2>1, <2>2, TalkRunning
<1> QED
  BY <1>1, <1>12, <1>13 DEF TalkShapes

LEMMA TalkMsgsndInv == ASSUME TalkInv, NEW p \in Queues!Running, Queues!Msgsnd(p) PROVE TalkInv'
<1>1. CASE id[p][Queues!Out(p)] = "gone"
  BY <1>1, TalkDropInv DEF Queues!Msgsnd
<1>2. CASE \E r \in {r \in Queues!Running : pcQ[r] = "asleep" /\ Queues!In(r) = Queues!Out(p)} :
             /\ rbuf' = [rbuf EXCEPT ![r] = buf[p]]
             /\ pcQ' = [pcQ EXCEPT ![p] = Queues!AfterSend(p), ![r] = "show"]
             /\ UNCHANGED <<queue, lost>>
  BY <1>2, TalkHandOverInv DEF Queues!Msgsnd
<1>3. CASE /\ {r \in Queues!Running : pcQ[r] = "asleep" /\ Queues!In(r) = Queues!Out(p)} = {}
           /\ Len(queue[Queues!Out(p)]) < Room
           /\ queue' = [queue EXCEPT ![Queues!Out(p)] = Append(queue[Queues!Out(p)], buf[p])]
           /\ pcQ' = [pcQ EXCEPT ![p] = Queues!AfterSend(p)]
           /\ UNCHANGED <<rbuf, lost>>
  <2>1. \A r \in Queues!Running : ~(pcQ[r] = "asleep" /\ Queues!In(r) = Queues!Out(p))
    BY <1>3
  <2> QED
    BY <1>3, <2>1, TalkQueuesInv DEF Queues!Msgsnd
<1> QED
  BY <1>1, <1>2, <1>3 DEF Queues!Msgsnd, Queues!Deliver

\* Who is in msgrcv().
LEMMA TalkWaits ==
  ASSUME TalkInv, NEW p \in Queues!Running, pcQ[p] = "msgrcv"
  PROVE  p \in Queues!Process /\ p \notin QueueSender /\ Queues!In(p) \in 1..2
<1>1. p \in Queues!Process
  BY TalkRunning, TalkConstants DEF TalkInv, TalkShapes
<1>2. p \notin QueueSender
  BY DEF TalkInv, TalkPcs, SenderPlaces
<1> QED
  BY <1>1, <1>2 DEF Queues!In

\* msgrcv() on a removed queue: only first comes to it, once second has ended.
LEMMA TalkGoneInv ==
  ASSUME TalkInv, NEW p \in Queues!Running, pcQ[p] = "msgrcv", id[p][Queues!In(p)] = "gone",
         pcQ' = [pcQ EXCEPT ![p] = "show"], ghost' = ghost \cup {p},
         UNCHANGED <<kind, exists, queue, id, buf, rbuf, typed, eof, lost, heardEnd>>
  PROVE  TalkInv'
<1>1. TalkShapes /\ TalkPcs /\ TalkIds /\ EndsLast /\ InTurn /\ Queues!OnlyEndsLose
  BY DEF TalkInv
<1>2. p \in Queues!Process /\ Queues!In(p) \in 1..2
  BY TalkWaits
<1>3. kind = "talk" /\ p = "first" /\ pcQ["second"] \in {"rmid", "done"}
  <2>1. CASE kind = "oneway"
    <3>1. p = "receiver"
      BY <1>1, <2>1, TalkRunning DEF TalkPcs, SenderPlaces
    <3> QED
      BY <1>1, <2>1, <3>1, TalkConstants DEF TalkIds, Queues!In
  <2>2. CASE kind = "talk"
    BY <1>1, <1>2, <2>2, TalkRunning DEF TalkIds
  <2> QED
    BY <1>1, <2>1, <2>2 DEF TalkShapes
<1>4. /\ pcQ' \in [Queues!Process -> TalkPlaces] /\ pcQ'[p] = "show"
      /\ \A q \in Queues!Process \ {p} : pcQ'[q] = pcQ[q]
  BY <1>1, <1>2 DEF TalkPcs, TalkPlaces
<1>5. TalkPcs' /\ TalkIds'
  BY <1>3, <1>4, TalkGoes, TalkConstants DEF TalkPlaces
<1>6. TalkShapes'
  BY <1>1, <1>2 DEF TalkShapes
<1>7. pcQ'["second"] = pcQ["second"]
  BY <1>3, <1>4, TalkConstants
<1>8. Queues!OnlyEndsLose' /\ EndsLast' /\ InTurn'
  BY <1>1, <1>3, <1>7 DEF Queues!OnlyEndsLose, EndsLast, InTurn
<1> QED
  BY <1>5, <1>6, <1>8 DEF TalkInv

\* msgrcv() on an empty queue.
LEMMA TalkSleepInv ==
  ASSUME TalkInv, NEW p \in Queues!Running, pcQ[p] = "msgrcv", queue[Queues!In(p)] = <<>>,
         pcQ' = [pcQ EXCEPT ![p] = "asleep"],
         UNCHANGED <<kind, exists, queue, id, buf, rbuf, typed, eof, ghost, lost, heardEnd>>
  PROVE  TalkInv'
<1>1. TalkShapes /\ TalkPcs /\ TalkIds /\ EndsLast /\ InTurn /\ Queues!OnlyEndsLose
  BY DEF TalkInv
<1>2. p \in Queues!Process /\ p \notin QueueSender
  BY TalkWaits
<1>4. /\ pcQ' \in [Queues!Process -> TalkPlaces] /\ pcQ'[p] = "asleep"
      /\ \A q \in Queues!Process \ {p} : pcQ'[q] = pcQ[q]
  BY <1>1, <1>2 DEF TalkPcs, TalkPlaces
<1>5. TalkPcs' /\ TalkIds'
  BY <1>2, <1>4, TalkGoes, TalkConstants DEF TalkPlaces
<1>6. TalkShapes'
  BY <1>1 DEF TalkShapes
<1>7. Queues!OnlyEndsLose'
  <2>1. pcQ["second"] \in {"rmid", "done"} => pcQ'["second"] = pcQ["second"]
    BY <1>4, TalkConstants
  <2> QED
    BY <1>1, <2>1 DEF Queues!OnlyEndsLose
<1>8. CASE kind = "oneway"
  <2>1. p = "receiver" /\ queue[1] = <<>>
    BY <1>2, <1>8, TalkRunning DEF Queues!In
  <2>2. heardEnd = Queues!Nobody
    BY <1>1, <1>8, <2>1 DEF EndsLast
  <2>3. EndsLast'
    BY <1>1, <1>4, <1>8, <2>1, <2>2, TalkConstants DEF EndsLast
  <2> QED
    BY <1>5, <1>6, <1>7, <1>8, <2>3 DEF TalkInv, InTurn
<1>9. CASE kind = "talk"
  <2>1. CASE p = "first"
    <3>1. queue[2] = <<>> /\ pcQ'["second"] = pcQ["second"]
      BY <1>4, <2>1, TalkConstants DEF Queues!In
    <3>2. InTurn'
      BY <1>1, <1>4, <1>9, <2>1, <3>1 DEF InTurn
    <3> QED
      BY <1>5, <1>6, <1>7, <1>9, <3>2 DEF TalkInv, EndsLast
  <2>2. CASE p = "second"
    <3>1. queue[1] = <<>> /\ pcQ'["first"] = pcQ["first"]
      BY <1>4, <2>2, TalkConstants DEF Queues!In
    <3>2. InTurn'
      BY <1>1, <1>4, <1>9, <2>2, <3>1 DEF InTurn
    <3> QED
      BY <1>5, <1>6, <1>7, <1>9, <3>2 DEF TalkInv, EndsLast
  <2> QED
    BY <1>9, <2>1, <2>2, TalkRunning
<1> QED
  BY <1>1, <1>8, <1>9 DEF TalkShapes

\* msgrcv() of the oldest message.
LEMMA TalkTakeInv ==
  ASSUME TalkInv, NEW p \in Queues!Running, pcQ[p] = "msgrcv",
         NEW k, k = Queues!In(p), queue[k] # <<>>,
         rbuf' = [rbuf EXCEPT ![p] = Head(queue[k])],
         queue' = [queue EXCEPT ![k] = Tail(queue[k])],
         pcQ' = [pcQ EXCEPT ![p] = "show"],
         UNCHANGED <<kind, exists, id, buf, typed, eof, ghost, lost, heardEnd>>
  PROVE  TalkInv'
<1>1. TalkShapes /\ TalkPcs /\ TalkIds /\ EndsLast /\ InTurn /\ Queues!OnlyEndsLose
  BY DEF TalkInv
<1>2. p \in Queues!Process /\ p \notin QueueSender /\ k \in 1..2
  BY TalkWaits
<1>4. /\ pcQ' \in [Queues!Process -> TalkPlaces] /\ pcQ'[p] = "show"
      /\ \A q \in Queues!Process \ {p} : pcQ'[q] = pcQ[q]
  BY <1>1, <1>2 DEF TalkPcs, TalkPlaces
<1>5. TalkPcs' /\ TalkIds'
  BY <1>2, <1>4, TalkGoes, TalkConstants DEF TalkPlaces
<1>6. PICK q, q2, n :
        /\ q = queue[k] /\ q2 = Tail(q) /\ n = Len(q) /\ q \in Seq(Queues!Message) /\ q # <<>>
        /\ n <= Room
  <2>1. queue[k] \in Seq(Queues!Message) /\ Len(queue[k]) <= Room
    BY <1>1, <1>2 DEF TalkShapes
  <2> QED
    BY <2>1
<1>7. /\ q2 \in Seq(Queues!Message) /\ Len(q2) = n - 1 /\ n \in Nat \ {0}
      /\ DOMAIN q = 1..n /\ DOMAIN q2 = 1..(n - 1)
      /\ \A j \in 1..(n - 1) : q2[j] = q[j + 1]
      /\ Head(q) = q[1] /\ q[1] \in Queues!Message
  BY <1>6, QueueShortened
<1>8. /\ queue'[k] = q2 /\ \A x \in 1..2 \ {k} : queue'[x] = queue[x]
      /\ rbuf'[p] = q[1] /\ rbuf' \in [Queues!Process -> Queues!Message]
  BY <1>1, <1>2, <1>6, <1>7 DEF TalkShapes
<1>9. TalkShapes'
  <2>1. queue' \in [1..2 -> Seq(Queues!Message)]
    BY <1>1, <1>2, <1>6, <1>7 DEF TalkShapes
  <2>2. \A j \in 1..2 : Len(queue'[j]) <= Room
    BY <1>1, <1>2, <1>6, <1>7, <1>8, TalkConstants DEF TalkShapes
  <2> QED
    BY <1>1, <1>8, <2>1, <2>2 DEF TalkShapes
<1>10. Queues!OnlyEndsLose'
  <2>1. pcQ["second"] \in {"rmid", "done"} => pcQ'["second"] = pcQ["second"]
    BY <1>4, TalkConstants
  <2> QED
    BY <1>1, <2>1 DEF Queues!OnlyEndsLose
<1>11. CASE kind = "oneway"
  <2>1. p = "receiver" /\ k = 1
    BY <1>2, <1>11, TalkRunning DEF Queues!In
  <2>2. heardEnd = Queues!Nobody /\ \A a \in QueueSender : pcQ'[a] = pcQ[a]
    BY <1>1, <1>4, <1>11, <2>1, TalkConstants DEF EndsLast
  <2>3. DOMAIN queue[1] = 1..n /\ queue[1] = q /\ DOMAIN queue'[1] = 1..(n - 1) /\ queue'[1] = q2
    BY <1>6, <1>7, <1>8, <2>1
  <2>4. \A j \in 1..n : /\ q[j][1] \in QueueSender
                        /\ Queues!IsEnd(q[j]) =>
                             /\ pcQ'[q[j][1]] = "done"
                             /\ \A x \in 1..n : x > j => q[x][1] # q[j][1]
    BY <1>1, <1>7, <1>11, <2>2, <2>3 DEF EndsLast
  <2>5. \A j \in 1..(n - 1) : /\ q2[j][1] \in QueueSender
                              /\ Queues!IsEnd(q2[j]) =>
                                   /\ pcQ'[q2[j][1]] = "done"
                                   /\ \A x \in 1..(n - 1) : x > j => q2[x][1] # q2[j][1]
    BY <1>7, <2>4
  <2>6. /\ q[1][1] \in QueueSender
        /\ Queues!IsEnd(q[1]) => /\ pcQ'[q[1][1]] = "done"
                                 /\ \A x \in 1..(n - 1) : q2[x][1] # q[1][1]
    BY <1>7, <2>4
  <2>7. /\ \A j \in DOMAIN queue'[1] : Queues!IsEnd(queue'[1][j]) =>
             /\ pcQ'[queue'[1][j][1]] = "done"
             /\ \A x \in DOMAIN queue'[1] : x > j => queue'[1][x][1] # queue'[1][j][1]
        /\ \A j \in DOMAIN queue'[1] : queue'[1][j][1] \in QueueSender
    BY <1>7, <2>3, <2>5
  <2>8. /\ rbuf'["receiver"][1] \in QueueSender
        /\ Queues!IsEnd(rbuf'["receiver"]) =>
             /\ pcQ'[rbuf'["receiver"][1]] = "done"
             /\ \A j \in DOMAIN queue'[1] : queue'[1][j][1] # rbuf'["receiver"][1]
    BY <1>7, <1>8, <2>1, <2>3, <2>6
  <2>9. EndsLast'
    BY <1>4, <2>1, <2>2, <2>7, <2>8 DEF EndsLast, Queues!IsEnd
  <2> QED
    BY <1>5, <1>9, <1>10, <1>11, <2>9 DEF TalkInv, InTurn
<1>12. CASE kind = "talk"
  <2>1. CASE p = "first"
    <3>1. k = 2 /\ pcQ'["second"] = pcQ["second"] /\ queue'[1] = queue[1]
      BY <1>4, <1>8, <2>1, TalkConstants DEF Queues!In
    <3>2. pcQ["second"] \in {"msgget", "msgrcv", "asleep"} => queue[1] = <<>> /\ queue'[2] = <<>>
      <4>1. pcQ["second"] \in {"msgget", "msgrcv", "asleep"} => n = 1 /\ queue[1] = <<>>
        BY <1>1, <1>6, <1>12, <3>1 DEF InTurn
      <4>2. n = 1 => q2 = <<>>
        BY <1>7, EmptySeq
      <4> QED
        BY <1>8, <3>1, <4>1, <4>2
    <3>3. pcQ["second"] \notin {"show", "fgets", "msgsnd"}
      BY <1>1, <1>6, <1>12, <3>1 DEF InTurn
    <3>4. pcQ["second"] \in {"rmid", "done"} =>
            \A j \in DOMAIN queue'[2] : queue'[2][j] = Queues!End("second")
      BY <1>1, <1>6, <1>7, <1>8, <1>12, <3>1 DEF InTurn
    <3>5. InTurn'
      BY <1>1, <1>12, <3>1, <3>2, <3>3, <3>4 DEF InTurn, Queues!End
    <3> QED
      BY <1>5, <1>9, <1>10, <1>12, <3>5 DEF TalkInv, EndsLast
  <2>2. CASE p = "second"
    <3>1. k = 1 /\ pcQ'["first"] = pcQ["first"] /\ queue'[2] = queue[2]
      BY <1>4, <1>8, <2>2, TalkConstants DEF Queues!In
    <3>2. n = 1 /\ queue[2] = <<>> /\ pcQ["first"] \in {"msgrcv", "asleep", "done"}
      BY <1>1, <1>6, <1>12, <2>2, <3>1 DEF InTurn
    <3>3. q2 = <<>> /\ queue'[1] = <<>>
      BY <1>7, <1>8, <3>1, <3>2, EmptySeq
    <3>5. InTurn'
      BY <1>1, <1>4, <1>12, <2>2, <3>1, <3>2, <3>3 DEF InTurn
    <3> QED
      BY <1>5, <1>9, <1>10, <1>12, <3>5 DEF TalkInv, EndsLast
  <2> QED
    BY <1>12, <2>1, <2>2, TalkRunning
<1> QED
  BY <1>1, <1>11, <1>12 DEF TalkShapes

LEMMA TalkMsgrcvInv == ASSUME TalkInv, NEW p \in Queues!Running, Queues!Msgrcv(p) PROVE TalkInv'
<1>1. CASE id[p][Queues!In(p)] = "gone"
  BY <1>1, TalkGoneInv DEF Queues!Msgrcv
<1>2. CASE id[p][Queues!In(p)] # "gone" /\ queue[Queues!In(p)] = <<>>
  BY <1>2, TalkSleepInv DEF Queues!Msgrcv
<1>3. CASE id[p][Queues!In(p)] # "gone" /\ queue[Queues!In(p)] # <<>>
  BY <1>3, TalkTakeInv DEF Queues!Msgrcv
<1> QED
  BY <1>1, <1>2, <1>3

LEMMA TalkShowInv == ASSUME TalkInv, NEW p \in Queues!Running, Queues!Show(p) PROVE TalkInv'
<1>1. TalkShapes /\ TalkPcs /\ TalkIds /\ EndsLast /\ InTurn /\ Queues!OnlyEndsLose
  BY DEF TalkInv
<1>2. /\ pcQ[p] = "show" /\ p \in Queues!Process /\ p \notin QueueSender
      /\ UNCHANGED <<kind, exists, queue, id, buf, rbuf, typed, eof, ghost, lost>>
  <2>1. p \in Queues!Process
    BY <1>1, TalkRunning, TalkConstants DEF TalkShapes
  <2> QED
    BY <1>1, <2>1 DEF Queues!Show, TalkPcs, SenderPlaces
<1>3. PICK c :
        /\ pcQ' = [pcQ EXCEPT ![p] = c]
        /\ \/ /\ Queues!IsEnd(rbuf[p]) /\ heardEnd' = rbuf[p][1]
              /\ c = IF p = "first" THEN "done" ELSE "rmid"
           \/ /\ ~Queues!IsEnd(rbuf[p]) /\ heardEnd' = heardEnd
              /\ c = IF p = "receiver" THEN "msgrcv" ELSE "fgets"
  BY DEF Queues!Show
<1>4. rbuf[p] \in Queues!Message /\ rbuf[p][1] \in Queues!Process
      /\ rbuf[p][1] # Queues!Nobody
  BY <1>1, <1>2, TalkMessages, TalkConstants DEF TalkShapes
<1>5. /\ pcQ' \in [Queues!Process -> TalkPlaces] /\ pcQ'[p] = c
      /\ \A q \in Queues!Process \ {p} : pcQ'[q] = pcQ[q]
  BY <1>1, <1>2, <1>3 DEF TalkPcs, TalkPlaces
<1>6. TalkShapes'
  BY <1>1, <1>2, <1>3, <1>4 DEF TalkShapes
<1>7. CASE kind = "oneway"
  <2>1. p = "receiver" /\ heardEnd = Queues!Nobody /\ lost = {} /\ c \in {"rmid", "msgrcv"}
    <3>1. p = "receiver"
      BY <1>2, <1>7, TalkRunning
    <3>2. heardEnd = Queues!Nobody
      BY <1>1, <1>2, <1>7, <3>1 DEF EndsLast
    <3>3. lost = {}
      BY <1>1, <1>7, <3>2 DEF Queues!OnlyEndsLose
    <3> QED
      BY <1>3, <3>1, <3>2, <3>3
  <2>2. TalkPcs' /\ TalkIds'
    BY <1>2, <1>3, <1>4, <1>5, <2>1, TalkGoes, TalkConstants DEF TalkPlaces
  <2>3. Queues!OnlyEndsLose'
    BY <1>1, <1>2, <1>5, <1>7, <2>1, TalkConstants DEF Queues!OnlyEndsLose
  <2>4. \A a \in QueueSender : pcQ'[a] = pcQ[a]
    BY <1>5, <2>1, TalkConstants
  <2>5. EndsLast'
    <3>1. CASE Queues!IsEnd(rbuf[p]) /\ heardEnd' = rbuf[p][1] /\ c = "rmid"
      BY <1>1, <1>2, <1>5, <1>7, <2>1, <2>4, <3>1 DEF EndsLast, Queues!IsEnd
    <3>2. CASE heardEnd' = heardEnd /\ c = "msgrcv"
      BY <1>1, <1>2, <1>5, <1>7, <2>1, <2>4, <3>2 DEF EndsLast, Queues!IsEnd
    <3> QED
      BY <1>3, <2>1, <3>1, <3>2
  <2> QED
    BY <1>2, <1>6, <1>7, <2>2, <2>3, <2>5 DEF TalkInv, InTurn
<1>8. CASE kind = "talk"
  <2>1. p \in {"first", "second"}
    BY <1>8, TalkRunning
  <2>2. p = "second" => /\ pcQ["first"] # "msgget" /\ c \in {"rmid", "fgets"}
                        /\ queue[1] = <<>> /\ queue[2] = <<>>
                        /\ pcQ["first"] \in {"msgrcv", "asleep", "done"}
    BY <1>1, <1>2, <1>3, <1>8 DEF InTurn
  <2>3. p = "first" => /\ c \in {"done", "fgets"}
                       /\ pcQ["second"] \notin {"show", "fgets", "msgsnd"}
                       /\ pcQ["second"] \in {"msgget", "msgrcv", "asleep"} =>
                            queue[1] = <<>> /\ queue[2] = <<>>
    BY <1>1, <1>2, <1>3, <1>8 DEF InTurn
  <2>4. TalkPcs' /\ TalkIds'
    BY <1>2, <1>3, <1>4, <1>5, <2>1, <2>2, <2>3, TalkGoes, TalkConstants DEF TalkPlaces
  <2>5. Queues!OnlyEndsLose'
    <3>1. pcQ["second"] \in {"rmid", "done"} => pcQ'["second"] = pcQ["second"]
      BY <1>2, <1>5, <2>1, TalkConstants
    <3> QED
      BY <1>1, <1>2, <1>8, <3>1 DEF Queues!OnlyEndsLose
  <2>6. InTurn'
    <3>1. CASE p = "first"
      <4>1. pcQ'["second"] = pcQ["second"]
        BY <1>5, <3>1, TalkConstants
      <4> QED
        BY <1>1, <1>2, <1>8, <2>3, <3>1, <4>1 DEF InTurn, Queues!End
    <3>2. CASE p = "second"
      <4>1. pcQ'["first"] = pcQ["first"]
        BY <1>5, <3>2, TalkConstants
      <4> QED
        BY <1>1, <1>2, <1>5, <1>8, <2>2, <3>2, <4>1 DEF InTurn, Queues!End
    <3> QED
      BY <2>1, <3>1, <3>2
  <2> QED
    BY <1>2, <1>6, <1>8, <2>4, <2>5, <2>6 DEF TalkInv, EndsLast
<1> QED
  BY <1>1, <1>7, <1>8 DEF TalkShapes

\* What is in a queue are messages.
LEMMA QueueContents ==
  ASSUME TalkShapes, NEW k \in 1..2
  PROVE  {queue[k][j] : j \in DOMAIN queue[k]} \subseteq Queues!Message
<1>1. queue[k] \in Seq(Queues!Message)
  BY DEF TalkShapes
<1>2. \A j \in DOMAIN queue[k] : queue[k][j] \in Queues!Message
  BY <1>1
<1> QED
  BY <1>2

\* msgctl(IPC_RMID) of queue k by program p, with the programs that sleep on it.
LEMMA TalkRemoves ==
  ASSUME TalkInv, NEW p \in Queues!Process, NEW k \in 1..2, NEW asleep \in SUBSET Queues!Running,
         lost' = lost \cup {queue[k][j] : j \in DOMAIN queue[k]},
         queue' = [queue EXCEPT ![k] = <<>>],
         id' = [r \in Queues!Process |-> [id[r] EXCEPT ![k] = IF @ = "live" THEN "gone" ELSE @]],
         ghost' = ghost \cup asleep, exists' = exists \ {k},
         UNCHANGED <<kind, buf, rbuf, typed, eof, heardEnd>>
  PROVE  /\ TalkShapes'
         /\ queue'[k] = <<>> /\ \A x \in 1..2 \ {k} : queue'[x] = queue[x]
         /\ \A r \in Queues!Process :
              /\ id'[r][k] # "live" /\ (id[r][k] = "none" => id'[r][k] = "none")
              /\ \A x \in 1..2 \ {k} : id'[r][x] = id[r][x]
<1>1. TalkShapes
  BY DEF TalkInv
<1>2. Queues!Running \subseteq Queues!Process
  BY <1>1, TalkRunning, TalkConstants DEF TalkShapes
<1>3. queue' \in [1..2 -> Seq(Queues!Message)] /\ queue'[k] = <<>>
      /\ \A x \in 1..2 \ {k} : queue'[x] = queue[x]
  <2>1. <<>> \in Seq(Queues!Message)
    OBVIOUS
  <2> QED
    BY <1>1, <2>1 DEF TalkShapes
<1>4. \A x \in 1..2 : Len(queue'[x]) <= Room
  <2>1. Len(<<>>) = 0
    OBVIOUS
  <2> QED
    BY <1>1, <1>3, <2>1, TalkConstants DEF TalkShapes
<1>5. \A r \in Queues!Process :
        /\ id'[r] = [id[r] EXCEPT ![k] = IF id[r][k] = "live" THEN "gone" ELSE id[r][k]]
        /\ id[r] \in [1..2 -> {"none", "live", "gone"}]
  BY <1>1 DEF TalkShapes
<1>6. \A r \in Queues!Process :
        /\ id'[r] \in [1..2 -> {"none", "live", "gone"}]
        /\ id'[r][k] # "live" /\ (id[r][k] = "none" => id'[r][k] = "none")
        /\ \A x \in 1..2 \ {k} : id'[r][x] = id[r][x]
  BY <1>5
<1>7. id' \in [Queues!Process -> [1..2 -> {"none", "live", "gone"}]]
  BY <1>6
<1>8. lost' \subseteq Queues!Message /\ ghost' \subseteq Queues!Process
  BY <1>1, <1>2, QueueContents DEF TalkShapes
<1>9. exists' \subseteq 1..2
  BY <1>1 DEF TalkShapes
<1> QED
  BY <1>1, <1>3, <1>4, <1>6, <1>7, <1>8, <1>9 DEF TalkShapes

LEMMA TalkRmidInv == ASSUME TalkInv, NEW p \in Queues!Running, Queues!Rmid(p) PROVE TalkInv'
<1>1. TalkShapes /\ TalkPcs /\ TalkIds /\ EndsLast /\ InTurn /\ Queues!OnlyEndsLose
  BY DEF TalkInv
<1>2. pcQ[p] = "rmid" /\ p \in Queues!Process /\ p \notin QueueSender /\ p # "first"
  <2>1. p \in Queues!Process
    BY <1>1, TalkRunning, TalkConstants DEF TalkShapes
  <2> QED
    BY <1>1, <2>1 DEF Queues!Rmid, TalkPcs, SenderPlaces
<1>3. PICK k, asleep :
        /\ k = IF id[p][1] = "live" THEN 1 ELSE 2
        /\ asleep = {r \in Queues!Running : pcQ[r] = "asleep" /\ Queues!In(r) = k}
  OBVIOUS
<1>4. /\ lost' = lost \cup {queue[k][j] : j \in DOMAIN queue[k]}
      /\ exists' = exists \ {k} /\ queue' = [queue EXCEPT ![k] = <<>>]
      /\ id' = [r \in Queues!Process |-> [id[r] EXCEPT ![k] = IF @ = "live" THEN "gone" ELSE @]]
      /\ ghost' = ghost \cup asleep
      /\ pcQ' = [r \in Queues!Process |->
                   IF r \in asleep THEN "show"
                   ELSE IF r = p /\ k + 1 \notin Queues!Removed THEN "done" ELSE pcQ[r]]
      /\ UNCHANGED <<kind, buf, rbuf, typed, eof, heardEnd>>
  BY <1>3 DEF Queues!Rmid
<1>5. k \in 1..2 /\ asleep \in SUBSET Queues!Running
  BY <1>3
<1>6. /\ TalkShapes'
      /\ queue'[k] = <<>> /\ \A x \in 1..2 \ {k} : queue'[x] = queue[x]
      /\ \A r \in Queues!Process :
           /\ id'[r][k] # "live" /\ (id[r][k] = "none" => id'[r][k] = "none")
           /\ \A x \in 1..2 \ {k} : id'[r][x] = id[r][x]
  BY <1>2, <1>4, <1>5, TalkRemoves
<1>7. pcQ' \in [Queues!Process -> TalkPlaces]
  BY <1>1, <1>4 DEF TalkPcs, TalkPlaces
<1>8. CASE kind = "oneway"
  <2>1. p = "receiver" /\ k = 1 /\ 2 \notin Queues!Removed
    BY <1>1, <1>2, <1>3, <1>8, TalkRunning DEF TalkIds, Queues!Removed
  <2>2. asleep = {}
    BY <1>1, <1>2, <1>3, <1>8, <2>1, TalkRunning DEF TalkPcs, SenderPlaces
  <2>3. pcQ'["receiver"] = "done" /\ \A r \in Queues!Process \ {"receiver"} : pcQ'[r] = pcQ[r]
    BY <1>2, <1>4, <2>1, <2>2
  <2>4. TalkPcs'
    BY <1>1, <1>4, <1>7, <1>8, <2>1, <2>3, TalkRunning, TalkConstants
    DEF TalkPcs, Queues!Running
  <2>5. heardEnd # Queues!Nobody
    BY <1>1, <1>2, <1>8, <2>1 DEF TalkIds
  <2>6. TalkIds'
    <3>1. \A q \in Queues!Process : pcQ'[q] = "msgget" => id'[q][1] = "none"
      BY <1>1, <1>6, <1>8, <2>1, <2>3 DEF TalkIds
    <3>2. 1 \notin exists' /\ \A q \in QueueSender : id'[q][1] # "live"
      <4>1. \A q \in Queues!Process : id'[q][1] # "live"
        BY <1>6, <2>1
      <4> QED
        BY <1>4, <2>1, <4>1, TalkConstants
    <3> QED
      BY <1>4, <1>8, <2>3, <2>5, <3>1, <3>2 DEF TalkIds
  <2>7. EndsLast'
    <3>1. queue'[1] = <<>> /\ DOMAIN queue'[1] = {}
      BY <1>6, <2>1
    <3>2. heardEnd \in QueueSender /\ pcQ[heardEnd] = "done" /\ pcQ'[heardEnd] = "done"
      BY <1>1, <1>8, <2>3, <2>5, TalkConstants DEF EndsLast
    <3> QED
      BY <1>4, <1>8, <2>3, <3>1, <3>2 DEF EndsLast
  <2>8. Queues!OnlyEndsLose'
    <3>1. \A m \in {queue[k][j] : j \in DOMAIN queue[k]} : m[1] # heardEnd
      BY <1>1, <1>8, <2>1, <2>5 DEF EndsLast
    <3>2. ghost = {}
      BY <1>1, <1>8, TalkConstants DEF Queues!OnlyEndsLose, TalkPcs, Queues!Running
    <3> QED
      BY <1>1, <1>4, <1>8, <2>2, <2>5, <3>1, <3>2 DEF Queues!OnlyEndsLose
  <2> QED
    BY <1>4, <1>6, <1>8, <2>4, <2>6, <2>7, <2>8 DEF TalkInv, InTurn
<1>9. CASE kind = "talk"
  <2>1. p = "second" /\ Queues!Removed = 1..2
    BY <1>2, <1>9, TalkRunning DEF Queues!Removed
  <2>2. CASE k = 1
    <3>1. asleep = {}
      BY <1>2, <1>3, <1>9, <2>1, <2>2, TalkRunning DEF Queues!In
    <3>2. pcQ' = pcQ
      BY <1>1, <1>4, <2>1, <2>2, <3>1 DEF TalkPcs
    <3>3. TalkPcs' /\ TalkIds'
      BY <1>1, <1>2, <1>4, <1>9, <2>1, <2>2, <3>2 DEF TalkPcs, TalkIds, Queues!Running
    <3>4. InTurn'
      <4>1. queue'[1] = <<>> /\ DOMAIN queue'[1] = {} /\ queue'[2] = queue[2]
        BY <1>6, <2>2
      <4> QED
        BY <1>1, <1>2, <1>9, <2>1, <3>2, <4>1 DEF InTurn, Queues!End
    <3>5. Queues!OnlyEndsLose'
      <4>1. \A m \in {queue[k][j] : j \in DOMAIN queue[k]} : m[1] = "first"
        BY <1>1, <1>9, <2>2 DEF InTurn
      <4> QED
        BY <1>1, <1>2, <1>4, <1>9, <2>1, <3>1, <3>2, <4>1 DEF Queues!OnlyEndsLose
    <3> QED
      BY <1>4, <1>6, <1>9, <3>3, <3>4, <3>5 DEF TalkInv, EndsLast
  <2>3. CASE k = 2
    <3>1. asleep \subseteq {"first"} /\ 1 \notin exists
      BY <1>1, <1>2, <1>3, <1>9, <2>1, <2>3, TalkRunning DEF TalkIds
    <3>2. /\ pcQ'["second"] = "done"
          /\ \A r \in Queues!Process \ {"first", "second"} : pcQ'[r] = pcQ[r]
          /\ pcQ'["first"] # "rmid" /\ (pcQ'["first"] = pcQ["first"] \/ pcQ'["first"] = "show")
      <4>1. 2 + 1 \notin 1..2
        OBVIOUS
      <4>2. pcQ["first"] # "rmid" /\ "first" \in Queues!Process
        BY <1>1, TalkConstants DEF TalkPcs
      <4> QED
        BY <1>2, <1>4, <2>1, <2>3, <3>1, <4>1, <4>2
    <3>3. TalkPcs'
      BY <1>1, <1>4, <1>7, <1>9, <3>2, TalkConstants DEF TalkPcs, Queues!Running
    <3>4. exists' = {}
      BY <1>1, <1>4, <2>3, <3>1 DEF TalkShapes
    <3>5. TalkIds'
      BY <1>1, <1>2, <1>4, <1>9, <2>1, <3>2, <3>4 DEF TalkIds
    <3>6. InTurn'
      <4>1. queue'[2] = <<>> /\ DOMAIN queue'[2] = {} /\ queue'[1] = queue[1]
        BY <1>6, <2>3
      <4> QED
        BY <1>1, <1>9, <3>2, <4>1 DEF InTurn
    <3>7. Queues!OnlyEndsLose'
      <4>1. \A m \in {queue[k][j] : j \in DOMAIN queue[k]} : m = Queues!End("second")
        BY <1>1, <1>2, <1>9, <2>1, <2>3 DEF InTurn
      <4>2. \A q \in ghost' : q = "first"
        BY <1>1, <1>4, <3>1 DEF Queues!OnlyEndsLose
      <4> QED
        BY <1>1, <1>4, <1>9, <3>2, <4>1, <4>2 DEF Queues!OnlyEndsLose, Queues!End
    <3> QED
      BY <1>4, <1>6, <1>9, <3>3, <3>5, <3>6, <3>7 DEF TalkInv, EndsLast
  <2> QED
    BY <1>5, <2>2, <2>3
<1> QED
  BY <1>1, <1>8, <1>9 DEF TalkShapes

LEMMA TalkNextInv == TalkInv /\ [Queues!TalkNext]_queueV => TalkInv'
<1> SUFFICES ASSUME TalkInv, [Queues!TalkNext]_queueV PROVE TalkInv'
  OBVIOUS
<1>1. CASE UNCHANGED queueV
  BY <1>1 DEF queueV, TalkInv, TalkShapes, TalkPcs, TalkIds, EndsLast, InTurn, Queues!OnlyEndsLose,
              Queues!Running
<1>2. ASSUME NEW p \in Queues!Running, Queues!Works(p) \/ Queues!Fgets(p) PROVE TalkInv'
  BY <1>2, TalkMsggetInv, TalkMsgsndInv, TalkMsgrcvInv, TalkShowInv, TalkRmidInv, TalkFgetsInv
  DEF Queues!Works
<1> QED
  BY <1>1, <1>2 DEF Queues!TalkNext

\* No queue is left.
LEMMA TalkQueuesRemoved == TalkInv => Queues!QueuesRemoved
  BY TalkConstants DEF TalkInv, TalkShapes, TalkPcs, TalkIds, Queues!QueuesRemoved, Queues!Running

------------------------------------------------------------------------------
(***************************************************************************)
(* SignalExamples: any signals from outside, any number of them.  What a   *)
(* thread blocks and has handlers for at each of its calls is read off the *)
(* lists of calls once, and the rest uses that.                            *)
(***************************************************************************)

SignalPrograms ==
  {"ch06_ex01", "ch06_ex02", "ch06_ex03", "ch06_ex04", "ch06_2_ex02", "ch06_2_ex03",
   "ch06_2_ex04", "ch06_2_ex05", "ch06_2_ex06", "ch06_2_exercise", "ch08_ex09", "ch08_ex10"}
Alarmed == {"ch06_2_ex05", "ch06_2_ex06"}
Threaded == {"ch08_ex09", "ch08_ex10"}

\* Thread t of program g blocks s at call k, handlers aside.
Blocks(g, t, k, s) ==
  \/ /\ t = "main" /\ k >= 2
     /\ \/ g = "ch06_ex01" /\ s \notin {"INT", "QUIT"}
        \/ g = "ch06_2_ex02" /\ (k <= 3 \/ s # "INT")
        \/ g = "ch06_2_ex03"
        \/ g = "ch06_2_ex04" /\ s # "INT"
        \/ g = "ch06_2_exercise" /\ s \notin {"INT", "USR1", "USR2"}
        \/ g \in Threaded /\ s # "INT"
  \/ /\ t # "main" /\ g = "ch08_ex09" /\ s # "INT"
     /\ k <= 2 \/ (t = "t1" /\ s # "USR1") \/ (t = "t2" /\ s # "USR2")
  \/ t # "main" /\ g = "ch08_ex10" /\ s # "INT"

\* Program g has a handler for s when its thread t is at call k.
Handles(g, t, k, s) ==
  \/ /\ t = "main" /\ k >= 2
     /\ \/ g = "ch06_ex02" /\ s = "INT"
        \/ g = "ch06_ex03" /\ s = "INT" /\ k <= 3
        \/ g = "ch06_ex04" /\ s = "INT"
        \/ g \in Alarmed /\ s = "ALRM"
        \/ g = "ch06_2_exercise" /\ s = "INT" /\ k >= 3
        \/ g = "ch06_2_exercise" /\ s = "USR1" /\ k >= 4
        \/ g = "ch06_2_exercise" /\ s = "USR2" /\ k >= 5
  \/ g = "ch08_ex09" /\ t = "t1" /\ s = "USR1" /\ k >= 2
  \/ g = "ch08_ex09" /\ t = "t2" /\ s = "USR2" /\ k >= 2

\* The call of main that creates thread t.
BornAt(g, t) ==
  IF g = "ch08_ex09" THEN IF t = "t1" THEN 2 ELSE 3
  ELSE IF t = "t3" THEN 2 ELSE IF t = "t1" THEN 3 ELSE 4

\* Call x is at place k of the list of thread t in program g.
SignalCallFacts(g, t, k, x) ==
  /\ x.set \subseteq Signals!Signal
  /\ \A s \in Signals!Sig : Blocks(g, t, k + 1, s) =>
       \/ x.op \in {"setmask", "block"} /\ s \in x.set
       \/ Blocks(g, t, k, s) /\ x.op # "setmask" /\ (x.op = "unblock" => s \notin x.set)
  /\ x.op = "suspend" => \A s \in Signals!Sig : Blocks(g, t, k, s) => s \in x.set
  /\ \A s \in Signals!Sig : Handles(g, t, k + 1, s) =>
       Handles(g, t, k, s) \/ (x.op = "handle" /\ x.arg = s)
  /\ x.op = "default" => g = "ch06_ex03" /\ t = "main" /\ k = 3 /\ x.arg = "INT"
  /\ x.op \in {"alarm", "timer"} => g \in Alarmed /\ t = "main" /\ k >= 2
  /\ x.op = "create" =>
       /\ g \in Threaded /\ t = "main" /\ k >= 2
       /\ x.arg \in {"t1", "t2", "t3"} /\ k = BornAt(g, x.arg)

SignalListFacts(g, t, list) ==
  /\ Len(list) \in Nat
  /\ \A k \in 1..Len(list) : SignalCallFacts(g, t, k, list[k])

SignalFactsOf(g) == \A t \in Signals!Thread : SignalListFacts(g, t, Signals!Code[g][t])

LEMMA SignalConstants == Outside \subseteq Signals!Signal \ {"ALRM"} /\ MaxSent \in Nat
  BY ExamplesAssumption DEF Signals!SignalAssumption, Signals!Signal

LEMMA SignalProgramList == DOMAIN Signals!Code = SignalPrograms
  BY DEF Signals!Code, SignalPrograms

LEMMA NoCalls == ASSUME NEW g, NEW t PROVE SignalListFacts(g, t, <<>>)
  BY DEF SignalListFacts

\* Programs of one thread.
LEMMA AloneFacts ==
  ASSUME NEW g \in SignalPrograms, NEW list, Signals!Code[g] = Signals!Alone(list),
         SignalListFacts(g, "main", list)
  PROVE  SignalFactsOf(g)
  BY NoCalls DEF SignalFactsOf, Signals!Alone, Signals!Thread

\* A list, call by call.
LEMMA ListOfOne ==
  ASSUME NEW g, NEW t, NEW a,
         SignalCallFacts(g, t, 1, a)
  PROVE  SignalListFacts(g, t, <<a>>)
  BY DEF SignalListFacts

LEMMA ListOfTwo ==
  ASSUME NEW g, NEW t, NEW a, NEW b,
         SignalCallFacts(g, t, 1, a), SignalCallFacts(g, t, 2, b)
  PROVE  SignalListFacts(g, t, <<a, b>>)
  BY DEF SignalListFacts

LEMMA ListOfThree ==
  ASSUME NEW g, NEW t, NEW a, NEW b, NEW c,
         SignalCallFacts(g, t, 1, a), SignalCallFacts(g, t, 2, b), SignalCallFacts(g, t, 3, c)
  PROVE  SignalListFacts(g, t, <<a, b, c>>)
  BY DEF SignalListFacts

LEMMA ListOfFour ==
  ASSUME NEW g, NEW t, NEW a, NEW b, NEW c, NEW d,
         SignalCallFacts(g, t, 1, a), SignalCallFacts(g, t, 2, b), SignalCallFacts(g, t, 3, c),
         SignalCallFacts(g, t, 4, d)
  PROVE  SignalListFacts(g, t, <<a, b, c, d>>)
  BY DEF SignalListFacts

LEMMA ListOfFive ==
  ASSUME NEW g, NEW t, NEW a, NEW b, NEW c, NEW d, NEW e,
         SignalCallFacts(g, t, 1, a), SignalCallFacts(g, t, 2, b), SignalCallFacts(g, t, 3, c),
         SignalCallFacts(g, t, 4, d), SignalCallFacts(g, t, 5, e)
  PROVE  SignalListFacts(g, t, <<a, b, c, d, e>>)
  BY DEF SignalListFacts

LEMMA ListOfSeven ==
  ASSUME NEW g, NEW t, NEW a, NEW b, NEW c, NEW d, NEW e, NEW f, NEW h,
         SignalCallFacts(g, t, 1, a), SignalCallFacts(g, t, 2, b), SignalCallFacts(g, t, 3, c),
         SignalCallFacts(g, t, 4, d), SignalCallFacts(g, t, 5, e), SignalCallFacts(g, t, 6, f),
         SignalCallFacts(g, t, 7, h)
  PROVE  SignalListFacts(g, t, <<a, b, c, d, e, f, h>>)
  BY DEF SignalListFacts

\* Each program of one thread, call by call and then as a list.
LEMMA AloneLists == \A g \in SignalPrograms \ Threaded : SignalFactsOf(g)
<1> USE SignalConstants
      DEF SignalCallFacts, Blocks, Handles, BornAt, Threaded, Alarmed, Signals!Signal, Signals!Sig,
          Signals!None, Signals!Call, Signals!SetMask, Signals!Block, Signals!Unblock,
          Signals!Handle, Signals!Default, Signals!Alarm, Signals!Timer, Signals!Pause,
          Signals!Suspend, Signals!Sigwait, Signals!Create, Signals!Join, Signals!Work,
          Signals!Forever
<1>1. /\ SignalCallFacts("ch06_ex01", "main", 1, Signals!SetMask(Signals!Sig \ {"INT", "QUIT"}))
      /\ SignalCallFacts("ch06_ex01", "main", 2, Signals!Forever)
  OBVIOUS
<1>2. /\ SignalCallFacts("ch06_ex02", "main", 1, Signals!Handle("INT", {"INT"}))
      /\ SignalCallFacts("ch06_ex02", "main", 2, Signals!Forever)
  OBVIOUS
<1>3. /\ SignalCallFacts("ch06_ex03", "main", 1, Signals!Handle("INT", {"INT", "QUIT"}))
      /\ SignalCallFacts("ch06_ex03", "main", 2, Signals!Work)
      /\ SignalCallFacts("ch06_ex03", "main", 3, Signals!Default("INT"))
      /\ SignalCallFacts("ch06_ex03", "main", 4, Signals!Forever)
  OBVIOUS
<1>4. /\ SignalCallFacts("ch06_ex04", "main", 1, Signals!Handle("INT", Signals!Sig))
      /\ SignalCallFacts("ch06_ex04", "main", 2, Signals!Forever)
  OBVIOUS
<1>5. /\ SignalCallFacts("ch06_2_ex02", "main", 1, Signals!Block(Signals!Sig))
      /\ SignalCallFacts("ch06_2_ex02", "main", 2, Signals!Work)
      /\ SignalCallFacts("ch06_2_ex02", "main", 3, Signals!Unblock({"INT"}))
      /\ SignalCallFacts("ch06_2_ex02", "main", 4, Signals!Forever)
  OBVIOUS
<1>6. /\ SignalCallFacts("ch06_2_ex03", "main", 1, Signals!SetMask(Signals!Sig))
      /\ SignalCallFacts("ch06_2_ex03", "main", 2, Signals!Work)
  OBVIOUS
<1>7. /\ SignalCallFacts("ch06_2_ex04", "main", 1, Signals!Block(Signals!Sig))
      /\ SignalCallFacts("ch06_2_ex04", "main", 2, Signals!Suspend(Signals!Sig \ {"INT"}))
  OBVIOUS
<1>8. /\ SignalCallFacts("ch06_2_ex05", "main", 1, Signals!Handle("ALRM", Signals!Sig))
      /\ SignalCallFacts("ch06_2_ex05", "main", 2, Signals!Alarm)
      /\ SignalCallFacts("ch06_2_ex05", "main", 3, Signals!Work)
      /\ SignalCallFacts("ch06_2_ex05", "main", 4, Signals!Pause)
  OBVIOUS
<1>9. /\ SignalCallFacts("ch06_2_ex06", "main", 1, Signals!Handle("ALRM", Signals!Sig))
      /\ SignalCallFacts("ch06_2_ex06", "main", 2, Signals!Timer)
      /\ SignalCallFacts("ch06_2_ex06", "main", 3, Signals!Forever)
  OBVIOUS
<1>10. /\ SignalCallFacts("ch06_2_exercise", "main", 1,
                          Signals!Block(Signals!Sig \ {"INT", "USR1", "USR2"}))
      /\ SignalCallFacts("ch06_2_exercise", "main", 2, Signals!Handle("INT", Signals!Sig))
      /\ SignalCallFacts("ch06_2_exercise", "main", 3, Signals!Handle("USR1", Signals!Sig))
      /\ SignalCallFacts("ch06_2_exercise", "main", 4, Signals!Handle("USR2", Signals!Sig))
      /\ SignalCallFacts("ch06_2_exercise", "main", 5, Signals!Forever)
  OBVIOUS
<1> HIDE SignalConstants
      DEF SignalCallFacts, Blocks, Handles, BornAt, Threaded, Alarmed, Signals!Signal, Signals!Sig,
          Signals!None, Signals!Call, Signals!SetMask, Signals!Block, Signals!Unblock,
          Signals!Handle, Signals!Default, Signals!Alarm, Signals!Timer, Signals!Pause,
          Signals!Suspend, Signals!Sigwait, Signals!Create, Signals!Join, Signals!Work,
          Signals!Forever
<1>11. SignalFactsOf("ch06_ex01")
  BY <1>1, ListOfTwo, AloneFacts DEF SignalPrograms, Signals!Code, Signals!Ch06Ex01
<1>12. SignalFactsOf("ch06_ex02")
  BY <1>2, ListOfTwo, AloneFacts DEF SignalPrograms, Signals!Code, Signals!Ch06Ex02
<1>13. SignalFactsOf("ch06_ex03")
  BY <1>3, ListOfFour, AloneFacts DEF SignalPrograms, Signals!Code, Signals!Ch06Ex03
<1>14. SignalFactsOf("ch06_ex04")
  BY <1>4, ListOfTwo, AloneFacts DEF SignalPrograms, Signals!Code, Signals!Ch06Ex04
<1>15. SignalFactsOf("ch06_2_ex02")
  BY <1>5, ListOfFour, AloneFacts DEF SignalPrograms, Signals!Code, Signals!Ch062Ex02
<1>16. SignalFactsOf("ch06_2_ex03")
  BY <1>6, ListOfTwo, AloneFacts DEF SignalPrograms, Signals!Code, Signals!Ch062Ex03
<1>17. SignalFactsOf("ch06_2_ex04")
  BY <1>7, ListOfTwo, AloneFacts DEF SignalPrograms, Signals!Code, Signals!Ch062Ex04
<1>18. SignalFactsOf("ch06_2_ex05")
  BY <1>8, ListOfFour, AloneFacts DEF SignalPrograms, Signals!Code, Signals!Ch062Ex05
<1>19. SignalFactsOf("ch06_2_ex06")
  BY <1>9, ListOfThree, AloneFacts DEF SignalPrograms, Signals!Code, Signals!Ch062Ex06
<1>20. SignalFactsOf("ch06_2_exercise")
  BY <1>10, ListOfFive, AloneFacts DEF SignalPrograms, Signals!Code, Signals!Ch062Exercise
<1> QED
  BY <1>11, <1>12, <1>13, <1>14, <1>15, <1>16, <1>17, <1>18, <1>19, <1>20
  DEF SignalPrograms, Threaded

LEMMA Ch08Ex09Facts == SignalFactsOf("ch08_ex09")
<1> USE SignalConstants
      DEF SignalCallFacts, Blocks, Handles, BornAt, Threaded, Alarmed, Signals!Signal, Signals!Sig,
          Signals!None, Signals!Call, Signals!SetMask, Signals!Block, Signals!Unblock,
          Signals!Handle, Signals!Default, Signals!Alarm, Signals!Timer, Signals!Pause,
          Signals!Suspend, Signals!Sigwait, Signals!Create, Signals!Join, Signals!Work,
          Signals!Forever
<1>1. /\ SignalCallFacts("ch08_ex09", "main", 1, Signals!SetMask(Signals!Sig \ {"INT"}))
      /\ SignalCallFacts("ch08_ex09", "main", 2, Signals!Create("t1"))
      /\ SignalCallFacts("ch08_ex09", "main", 3, Signals!Create("t2"))
      /\ SignalCallFacts("ch08_ex09", "main", 4, Signals!Join("t1"))
      /\ SignalCallFacts("ch08_ex09", "main", 5, Signals!Join("t2"))
  OBVIOUS
<1>2. /\ SignalCallFacts("ch08_ex09", "t1", 1, Signals!Handle("USR1", Signals!Sig))
      /\ SignalCallFacts("ch08_ex09", "t1", 2, Signals!Unblock({"USR1"}))
      /\ SignalCallFacts("ch08_ex09", "t1", 3, Signals!Work)
  OBVIOUS
<1>3. /\ SignalCallFacts("ch08_ex09", "t2", 1, Signals!Handle("USR2", Signals!Sig))
      /\ SignalCallFacts("ch08_ex09", "t2", 2, Signals!Unblock({"USR2"}))
      /\ SignalCallFacts("ch08_ex09", "t2", 3, Signals!Work)
  OBVIOUS
<1> HIDE SignalConstants
      DEF SignalCallFacts, Blocks, Handles, BornAt, Threaded, Alarmed, Signals!Signal, Signals!Sig,
          Signals!None, Signals!Call, Signals!SetMask, Signals!Block, Signals!Unblock,
          Signals!Handle, Signals!Default, Signals!Alarm, Signals!Timer, Signals!Pause,
          Signals!Suspend, Signals!Sigwait, Signals!Create, Signals!Join, Signals!Work,
          Signals!Forever
<1>4. SignalListFacts("ch08_ex09", "main", Signals!Ch08Ex09["main"])
  BY <1>1, ListOfFive DEF Signals!Ch08Ex09
<1>5. SignalListFacts("ch08_ex09", "t1", Signals!Ch08Ex09["t1"])
  BY <1>2, ListOfThree DEF Signals!Ch08Ex09
<1>6. SignalListFacts("ch08_ex09", "t2", Signals!Ch08Ex09["t2"])
  BY <1>3, ListOfThree DEF Signals!Ch08Ex09
<1>7. SignalListFacts("ch08_ex09", "t3", Signals!Ch08Ex09["t3"])
  BY NoCalls DEF Signals!Ch08Ex09
<1> QED
  BY <1>4, <1>5, <1>6, <1>7 DEF SignalFactsOf, Signals!Code, Signals!Thread

LEMMA Ch08Ex10Facts == SignalFactsOf("ch08_ex10")
<1> USE SignalConstants
      DEF SignalCallFacts, Blocks, Handles, BornAt, Threaded, Alarmed, Signals!Signal, Signals!Sig,
          Signals!None, Signals!Call, Signals!SetMask, Signals!Block, Signals!Unblock,
          Signals!Handle, Signals!Default, Signals!Alarm, Signals!Timer, Signals!Pause,
          Signals!Suspend, Signals!Sigwait, Signals!Create, Signals!Join, Signals!Work,
          Signals!Forever
<1>1. /\ SignalCallFacts("ch08_ex10", "main", 1, Signals!SetMask(Signals!Sig \ {"INT"}))
      /\ SignalCallFacts("ch08_ex10", "main", 2, Signals!Create("t3"))
      /\ SignalCallFacts("ch08_ex10", "main", 3, Signals!Create("t1"))
      /\ SignalCallFacts("ch08_ex10", "main", 4, Signals!Create("t2"))
      /\ SignalCallFacts("ch08_ex10", "main", 5, Signals!Join("t1"))
      /\ SignalCallFacts("ch08_ex10", "main", 6, Signals!Join("t2"))
      /\ SignalCallFacts("ch08_ex10", "main", 7, Signals!Join("t3"))
  OBVIOUS
<1>2. /\ SignalCallFacts("ch08_ex10", "t1", 1, Signals!Work)
  OBVIOUS
<1>3. /\ SignalCallFacts("ch08_ex10", "t2", 1, Signals!Work)
  OBVIOUS
<1>4. /\ SignalCallFacts("ch08_ex10", "t3", 1, Signals!Sigwait({"USR1", "USR2"}))
  OBVIOUS
<1> HIDE SignalConstants
      DEF SignalCallFacts, Blocks, Handles, BornAt, Threaded, Alarmed, Signals!Signal, Signals!Sig,
          Signals!None, Signals!Call, Signals!SetMask, Signals!Block, Signals!Unblock,
          Signals!Handle, Signals!Default, Signals!Alarm, Signals!Timer, Signals!Pause,
          Signals!Suspend, Signals!Sigwait, Signals!Create, Signals!Join, Signals!Work,
          Signals!Forever
<1>5. SignalListFacts("ch08_ex10", "main", Signals!Ch08Ex10["main"])
  BY <1>1, ListOfSeven DEF Signals!Ch08Ex10
<1>6. SignalListFacts("ch08_ex10", "t1", Signals!Ch08Ex10["t1"])
  BY <1>2, ListOfOne DEF Signals!Ch08Ex10
<1>7. SignalListFacts("ch08_ex10", "t2", Signals!Ch08Ex10["t2"])
  BY <1>3, ListOfOne DEF Signals!Ch08Ex10
<1>8. SignalListFacts("ch08_ex10", "t3", Signals!Ch08Ex10["t3"])
  BY <1>4, ListOfOne DEF Signals!Ch08Ex10
<1> QED
  BY <1>5, <1>6, <1>7, <1>8 DEF SignalFactsOf, Signals!Code, Signals!Thread

LEMMA SignalCall ==
  ASSUME progS \in DOMAIN Signals!Code, codeS = Signals!Code[progS], NEW t \in Signals!Thread,
         pcS[t] \in 0..(Len(codeS[t]) + 1), NEW o, Signals!At(t, o)
  PROVE  /\ SignalCallFacts(progS, t, pcS[t], codeS[t][pcS[t]])
         /\ codeS[t][pcS[t]].op = o
         /\ Len(codeS[t]) \in Nat /\ pcS[t] \in 1..Len(codeS[t])
         /\ inside[t] = Signals!None /\ statusS = "run"
<1>1. SignalFactsOf(progS)
  BY AloneLists, Ch08Ex09Facts, Ch08Ex10Facts, SignalProgramList DEF Threaded
<1>2. SignalListFacts(progS, t, codeS[t])
  BY <1>1 DEF SignalFactsOf
<1>3. Len(codeS[t]) \in Nat
  BY <1>2 DEF SignalListFacts
<1>4. pcS[t] \in 1..Len(codeS[t])
  BY <1>3 DEF Signals!At, Signals!Ended, Signals!Calls
<1>5. SignalCallFacts(progS, t, pcS[t], codeS[t][pcS[t]])
  BY <1>2, <1>4 DEF SignalListFacts
<1> QED
  BY <1>3, <1>4, <1>5 DEF Signals!At, Signals!Calls

SignalShapes ==
  /\ progS \in DOMAIN Signals!Code /\ codeS = Signals!Code[progS]
  /\ pcS \in [Signals!Thread -> Nat]
  /\ \A t \in Signals!Thread : pcS[t] \in 0..(Len(codeS[t]) + 1)
  /\ mask \in [Signals!Thread -> SUBSET Signals!Signal]
  /\ saved \in [Signals!Thread -> SUBSET Signals!Signal]
  /\ disp \in [Signals!Sig -> {"default", "handled"}]
  /\ saMask \in [Signals!Sig -> SUBSET Signals!Signal]
  /\ once \in BOOLEAN /\ (once => progS = "ch06_ex04")
  /\ pend \subseteq Signals!Sig /\ timer \in {"off", "once", "interval"}
  /\ statusS \in Signals!Sig \cup {"run", "exit"}

\* Threads that main has created, and those with a handler of theirs running.
SignalThreads ==
  /\ pcS["main"] # 0
  /\ \A t \in Signals!Thread \ {"main"} :
       pcS[t] # 0 => progS \in Threaded /\ pcS["main"] > BornAt(progS, t)
  /\ inside \in [Signals!Thread -> Signals!Sig \cup {Signals!None}]
  /\ \A t \in Signals!Thread : inside[t] # Signals!None =>
       pcS[t] \in 1..Len(codeS[t]) /\ inside[t] \in mask[t] \ saved[t]

SignalMasks ==
  \A t \in Signals!Thread : \A s \in Signals!Sig :
    pcS[t] # 0 /\ Blocks(progS, t, pcS[t], s) =>
      s \in mask[t] /\ (inside[t] # Signals!None => s \in saved[t])

SignalHandlers ==
  ~once => \A t \in Signals!Thread : \A s \in Signals!Sig :
             pcS[t] # 0 /\ Handles(progS, t, pcS[t], s) => disp[s] = "handled"

SignalAlarm ==
  "ALRM" \in pend \/ timer # "off" => progS \in Alarmed /\ pcS["main"] >= 2

SignalInv ==
  /\ SignalShapes /\ SignalThreads /\ SignalMasks /\ SignalHandlers /\ SignalAlarm
  /\ Signals!OnlyOpenSignalsKill

\* What a program undertakes not to die by, its threads block or have a handler for.
Kept(g, k, s) ==
  \/ Blocks(g, "main", k, s) /\ g \notin Threaded
  \/ Handles(g, "main", k, s)
  \/ g \in Alarmed /\ s = "ALRM" /\ k = 1
  \/ g \in Threaded /\ s # "INT" /\ k >= 2

LEMMA SurvivesOnly ==
  ASSUME progS \in SignalPrograms, NEW r \in Signals!Survives, NEW k \in r[2], NEW s \in r[1],
         s \in Signals!Sig
  PROVE  Kept(progS, k, s) /\ (progS = "ch06_ex04" => ~once)
<1> USE DEF Kept, Blocks, Handles, Threaded, Alarmed
<1>1. CASE progS \in {"ch06_ex01", "ch06_ex02", "ch06_ex03"}
  BY <1>1 DEF Signals!Survives
<1>2. CASE progS = "ch06_ex04"
  BY <1>2 DEF Signals!Survives
<1>3. CASE progS \in {"ch06_2_ex02", "ch06_2_ex03", "ch06_2_ex04"}
  BY <1>3 DEF Signals!Survives
<1>4. CASE progS \in {"ch06_2_ex05", "ch06_2_ex06"}
  BY <1>4 DEF Signals!Survives
<1>5. CASE progS = "ch06_2_exercise"
  BY <1>5 DEF Signals!Survives
<1>6. CASE progS \in {"ch08_ex09", "ch08_ex10"}
  BY <1>6 DEF Signals!Survives
<1> QED
  BY <1>1, <1>2, <1>3, <1>4, <1>5, <1>6 DEF SignalPrograms

LEMMA SurvivesSignals ==
  ASSUME progS \in SignalPrograms, NEW r \in Signals!Survives
  PROVE  "run" \notin r[1] /\ "exit" \notin r[1]
<1>1. "run" \notin Signals!Sig /\ "exit" \notin Signals!Sig
  BY SignalConstants DEF Signals!Sig, Signals!Signal
<1>2. CASE progS \in {"ch06_ex01", "ch06_ex02", "ch06_ex03"}
  BY <1>1, <1>2 DEF Signals!Survives
<1>3. CASE progS = "ch06_ex04"
  BY <1>1, <1>3 DEF Signals!Survives
<1>4. CASE progS \in {"ch06_2_ex02", "ch06_2_ex03", "ch06_2_ex04"}
  BY <1>1, <1>4 DEF Signals!Survives
<1>5. CASE progS \in {"ch06_2_ex05", "ch06_2_ex06"}
  BY <1>1, <1>5 DEF Signals!Survives
<1>6. CASE progS = "ch06_2_exercise"
  BY <1>1, <1>6 DEF Signals!Survives
<1>7. CASE progS \in {"ch08_ex09", "ch08_ex10"}
  BY <1>1, <1>7 DEF Signals!Survives
<1> QED
  BY <1>2, <1>3, <1>4, <1>5, <1>6, <1>7 DEF SignalPrograms

\* Who runs or has ended by itself is not killed.
LEMMA NotKilled ==
  ASSUME SignalInv, UNCHANGED <<progS, once>>, statusS' \in {"run", "exit"}
  PROVE  Signals!OnlyOpenSignalsKill'
<1>1. progS \in SignalPrograms
  BY SignalProgramList DEF SignalInv, SignalShapes
<1>2. Signals!Survives' = Signals!Survives
  BY DEF Signals!Survives
<1> QED
  BY <1>1, <1>2, SurvivesSignals DEF Signals!OnlyOpenSignalsKill

LEMMA SignalInitInv == Signals!SignalInit => SignalInv
<1> SUFFICES ASSUME Signals!SignalInit PROVE SignalInv
  OBVIOUS
<1>1. /\ progS \in DOMAIN Signals!Code /\ codeS = Signals!Code[progS]
      /\ pcS = [t \in Signals!Thread |-> IF t = "main" THEN 1 ELSE 0]
      /\ mask = [t \in Signals!Thread |-> {}] /\ saved = [t \in Signals!Thread |-> {}]
      /\ disp = [s \in Signals!Sig |-> "default"] /\ saMask = [s \in Signals!Sig |-> {}]
      /\ once \in BOOLEAN /\ (once => progS = "ch06_ex04")
      /\ pend = {} /\ inside = [t \in Signals!Thread |-> Signals!None]
      /\ timer = "off" /\ statusS = "run" /\ "main" \in Signals!Thread
  BY DEF Signals!SignalInit, Signals!Thread
<1>2. \A t \in Signals!Thread : Len(codeS[t]) \in Nat
  BY <1>1, AloneLists, Ch08Ex09Facts, Ch08Ex10Facts, SignalProgramList
  DEF Threaded, SignalFactsOf, SignalListFacts
<1>3. SignalShapes
  BY <1>1, <1>2 DEF SignalShapes
<1>4. SignalThreads /\ SignalAlarm
  BY <1>1 DEF SignalThreads, SignalAlarm
<1>5. SignalMasks /\ SignalHandlers
  BY <1>1 DEF SignalMasks, SignalHandlers, Blocks, Handles, Threaded
<1>6. Signals!OnlyOpenSignalsKill
  <2>1. progS \in SignalPrograms
    BY <1>1, SignalProgramList
  <2> QED
    BY <1>1, <2>1, SurvivesSignals DEF Signals!OnlyOpenSignalsKill
<1> QED
  BY <1>3, <1>4, <1>5, <1>6 DEF SignalInv

\* Thread t has done its call: what it blocks and what has a handler at the next one.
LEMMA SignalGoes ==
  ASSUME SignalInv, NEW t \in Signals!Thread, inside[t] = Signals!None,
         Len(codeS[t]) \in Nat, pcS[t] \in 1..Len(codeS[t]),
         pcS' = [pcS EXCEPT ![t] = pcS[t] + 1],
         UNCHANGED <<progS, codeS, once, pend, inside, saved, statusS>>, statusS = "run",
         mask' \in [Signals!Thread -> SUBSET Signals!Signal],
         \A q \in Signals!Thread \ {t} : mask'[q] = mask[q],
         \A s \in Signals!Sig : Blocks(progS, t, pcS[t] + 1, s) => s \in mask'[t],
         disp' \in [Signals!Sig -> {"default", "handled"}],
         saMask' \in [Signals!Sig -> SUBSET Signals!Signal],
         \A s \in Signals!Sig :
           \/ disp'[s] \in {disp[s], "handled"}
           \/ \A q \in Signals!Thread : ~Handles(progS, q, pcS'[q], s),
         \A s \in Signals!Sig : Handles(progS, t, pcS[t] + 1, s) =>
           Handles(progS, t, pcS[t], s) \/ disp'[s] = "handled",
         \/ timer' = timer
         \/ timer' \in {"once", "interval"} /\ progS \in Alarmed /\ t = "main" /\ pcS[t] >= 2
  PROVE  SignalInv'
<1>1. SignalShapes /\ SignalThreads /\ SignalMasks /\ SignalHandlers /\ SignalAlarm
  BY DEF SignalInv
<1>2. /\ pcS' \in [Signals!Thread -> Nat] /\ pcS'[t] = pcS[t] + 1 /\ pcS[t] \in Nat
      /\ \A q \in Signals!Thread \ {t} : pcS'[q] = pcS[q]
  BY <1>1 DEF SignalShapes
<1>3. SignalShapes'
  BY <1>1, <1>2 DEF SignalShapes
<1>4. SignalThreads'
  <2>1. "main" \in Signals!Thread /\ pcS'["main"] >= pcS["main"] /\ pcS["main"] \in Nat
    BY <1>1, <1>2 DEF SignalShapes, Signals!Thread
  <2>2. \A q \in Signals!Thread : BornAt(progS, q) \in Nat
    BY DEF BornAt
  <2>3. \A q \in Signals!Thread : pcS'[q] # 0 => pcS[q] # 0
    BY <1>2
  <2>4. \A q \in Signals!Thread : inside[q] # Signals!None => pcS'[q] = pcS[q] /\ mask'[q] = mask[q]
    BY <1>2
  <2> QED
    BY <1>1, <2>1, <2>2, <2>3, <2>4 DEF SignalThreads
<1>5. SignalMasks'
  BY <1>1, <1>2 DEF SignalMasks
<1>6. SignalHandlers'
  BY <1>1, <1>2 DEF SignalHandlers
<1>7. SignalAlarm'
  BY <1>1, <1>2 DEF SignalAlarm, SignalShapes, Signals!Thread
<1> QED
  BY <1>3, <1>4, <1>5, <1>6, <1>7, NotKilled DEF SignalInv

LEMMA SignalPlaces ==
  ASSUME SignalInv, NEW t \in Signals!Thread, NEW o, Signals!At(t, o)
  PROVE  /\ SignalCallFacts(progS, t, pcS[t], codeS[t][pcS[t]])
         /\ codeS[t][pcS[t]].op = o
         /\ Len(codeS[t]) \in Nat /\ pcS[t] \in 1..Len(codeS[t]) /\ pcS[t] \in Nat
         /\ inside[t] = Signals!None /\ statusS = "run"
         /\ \A s \in Signals!Sig : Blocks(progS, t, pcS[t], s) => s \in mask[t]
  BY SignalCall DEF SignalInv, SignalShapes, SignalMasks

LEMMA MaskCallInv ==
  ASSUME SignalInv, NEW t \in Signals!Thread, Signals!MaskCall(t) PROVE SignalInv'
<1>1. PICK o \in {"setmask", "block", "unblock"} :
        /\ Signals!At(t, o)
        /\ o = "setmask" => mask' = [mask EXCEPT ![t] = codeS[t][pcS[t]].set]
        /\ o = "block" => mask' = [mask EXCEPT ![t] = mask[t] \cup codeS[t][pcS[t]].set]
        /\ o = "unblock" => mask' = [mask EXCEPT ![t] = mask[t] \ codeS[t][pcS[t]].set]
  BY DEF Signals!MaskCall, Signals!Set, Signals!Calls
<1>2. PICK x : x = codeS[t][pcS[t]]
  OBVIOUS
<1>3. /\ SignalCallFacts(progS, t, pcS[t], x) /\ x.op = o
      /\ Len(codeS[t]) \in Nat /\ pcS[t] \in 1..Len(codeS[t])
      /\ inside[t] = Signals!None /\ statusS = "run"
      /\ \A s \in Signals!Sig : Blocks(progS, t, pcS[t], s) => s \in mask[t]
  BY <1>1, <1>2, SignalPlaces
<1>4. mask \in [Signals!Thread -> SUBSET Signals!Signal] /\ x.set \subseteq Signals!Signal
  BY <1>3 DEF SignalInv, SignalShapes, SignalCallFacts
<1>5. \A s \in Signals!Sig : Blocks(progS, t, pcS[t] + 1, s) =>
        \/ x.op \in {"setmask", "block"} /\ s \in x.set
        \/ Blocks(progS, t, pcS[t], s) /\ x.op # "setmask" /\ (x.op = "unblock" => s \notin x.set)
  BY <1>3 DEF SignalCallFacts
<1>6. /\ mask' \in [Signals!Thread -> SUBSET Signals!Signal]
      /\ \A q \in Signals!Thread \ {t} : mask'[q] = mask[q]
      /\ \A s \in Signals!Sig : Blocks(progS, t, pcS[t] + 1, s) => s \in mask'[t]
  <2>1. CASE o = "setmask"
    BY <1>1, <1>2, <1>3, <1>4, <1>5, <2>1
  <2>2. CASE o = "block"
    BY <1>1, <1>2, <1>3, <1>4, <1>5, <2>2
  <2>3. CASE o = "unblock"
    BY <1>1, <1>2, <1>3, <1>4, <1>5, <2>3
  <2> QED
    BY <2>1, <2>2, <2>3
<1>7. \A s \in Signals!Sig : Handles(progS, t, pcS[t] + 1, s) => Handles(progS, t, pcS[t], s)
  BY <1>3 DEF SignalCallFacts
<1>8. disp \in [Signals!Sig -> {"default", "handled"}]
      /\ saMask \in [Signals!Sig -> SUBSET Signals!Signal]
  BY DEF SignalInv, SignalShapes
<1>9. pcS' = [pcS EXCEPT ![t] = pcS[t] + 1]
      /\ UNCHANGED <<progS, codeS, once, pend, inside, saved, statusS, disp, saMask, timer>>
  BY DEF Signals!MaskCall, Signals!Goes
<1> QED
  BY <1>3, <1>6, <1>7, <1>8, <1>9, SignalGoes

\* A call that changes neither masks nor handlers.
LEMMA QuietCallInv ==
  ASSUME SignalInv, NEW t \in Signals!Thread, NEW o, Signals!At(t, o),
         o \notin {"setmask", "block", "handle"}, Signals!Goes(t),
         UNCHANGED <<progS, codeS, once, pend, inside, saved, statusS, mask, disp, saMask>>,
         \/ timer' = timer
         \/ timer' \in {"once", "interval"} /\ o \in {"alarm", "timer"}
  PROVE  SignalInv'
<1>1. PICK x : x = codeS[t][pcS[t]]
  OBVIOUS
<1>2. /\ SignalCallFacts(progS, t, pcS[t], x) /\ x.op = o
      /\ Len(codeS[t]) \in Nat /\ pcS[t] \in 1..Len(codeS[t])
      /\ inside[t] = Signals!None /\ statusS = "run"
      /\ \A s \in Signals!Sig : Blocks(progS, t, pcS[t], s) => s \in mask[t]
  BY <1>1, SignalPlaces
<1>3. \A s \in Signals!Sig : Blocks(progS, t, pcS[t] + 1, s) => s \in mask'[t]
  BY <1>2 DEF SignalCallFacts
<1>4. \A s \in Signals!Sig : Handles(progS, t, pcS[t] + 1, s) => Handles(progS, t, pcS[t], s)
  BY <1>2 DEF SignalCallFacts
<1>5. disp \in [Signals!Sig -> {"default", "handled"}]
      /\ saMask \in [Signals!Sig -> SUBSET Signals!Signal]
      /\ mask \in [Signals!Thread -> SUBSET Signals!Signal]
  BY DEF SignalInv, SignalShapes
<1>6. o \in {"alarm", "timer"} => progS \in Alarmed /\ t = "main" /\ pcS[t] >= 2
  BY <1>2 DEF SignalCallFacts
<1>7. pcS' = [pcS EXCEPT ![t] = pcS[t] + 1]
  BY DEF Signals!Goes
<1> QED
  BY <1>2, <1>3, <1>4, <1>5, <1>6, <1>7, SignalGoes

LEMMA HandlerCallInv ==
  ASSUME SignalInv, NEW t \in Signals!Thread, Signals!HandlerCall(t) PROVE SignalInv'
<1>1. PICK o \in {"handle", "default"} :
        /\ Signals!At(t, o)
        /\ disp' = [disp EXCEPT ![codeS[t][pcS[t]].arg] =
                      IF o = "handle" THEN "handled" ELSE "default"]
        /\ saMask' = saMask \/ saMask' = [saMask EXCEPT ![codeS[t][pcS[t]].arg] =
                                            codeS[t][pcS[t]].set]
  BY DEF Signals!HandlerCall, Signals!Set, Signals!Argument, Signals!Calls
<1>2. PICK x : x = codeS[t][pcS[t]]
  OBVIOUS
<1>3. /\ SignalCallFacts(progS, t, pcS[t], x) /\ x.op = o
      /\ Len(codeS[t]) \in Nat /\ pcS[t] \in 1..Len(codeS[t])
      /\ inside[t] = Signals!None /\ statusS = "run"
      /\ \A s \in Signals!Sig : Blocks(progS, t, pcS[t], s) => s \in mask[t]
  BY <1>1, <1>2, SignalPlaces
<1>4. /\ disp \in [Signals!Sig -> {"default", "handled"}]
      /\ saMask \in [Signals!Sig -> SUBSET Signals!Signal]
      /\ mask \in [Signals!Thread -> SUBSET Signals!Signal] /\ x.set \subseteq Signals!Signal
      /\ pcS \in [Signals!Thread -> Nat]
  BY <1>3 DEF SignalInv, SignalShapes, SignalCallFacts
<1>5. /\ pcS' = [pcS EXCEPT ![t] = pcS[t] + 1]
      /\ UNCHANGED <<progS, codeS, once, pend, inside, saved, statusS, mask, timer>>
  BY DEF Signals!HandlerCall, Signals!Goes
<1>6. \A s \in Signals!Sig : Blocks(progS, t, pcS[t] + 1, s) => s \in mask'[t]
  <2>1. \A s \in Signals!Sig : Blocks(progS, t, pcS[t] + 1, s) => Blocks(progS, t, pcS[t], s)
    BY <1>3 DEF SignalCallFacts
  <2> QED
    BY <1>3, <1>5, <2>1
<1>7. /\ disp' \in [Signals!Sig -> {"default", "handled"}]
      /\ saMask' \in [Signals!Sig -> SUBSET Signals!Signal]
      /\ \A s \in Signals!Sig : s # x.arg => disp'[s] = disp[s]
      /\ \A s \in Signals!Sig : s = x.arg =>
           disp'[s] = IF o = "handle" THEN "handled" ELSE "default"
  BY <1>1, <1>2, <1>4
<1>8. \A s \in Signals!Sig :
        \/ disp'[s] \in {disp[s], "handled"}
        \/ \A q \in Signals!Thread : ~Handles(progS, q, pcS'[q], s)
  <2>1. o = "default" =>
          progS = "ch06_ex03" /\ t = "main" /\ pcS[t] = 3 /\ x.arg = "INT"
    BY <1>3 DEF SignalCallFacts
  <2>2. o = "default" => \A q \in Signals!Thread : ~Handles(progS, q, pcS'[q], x.arg)
    BY <1>4, <1>5, <2>1 DEF Handles, Alarmed
  <2> QED
    BY <1>7, <2>2
<1>9. \A s \in Signals!Sig : Handles(progS, t, pcS[t] + 1, s) =>
        Handles(progS, t, pcS[t], s) \/ disp'[s] = "handled"
  BY <1>3, <1>7 DEF SignalCallFacts
<1> QED
  BY <1>3, <1>4, <1>5, <1>6, <1>7, <1>8, <1>9, SignalGoes

\* sigsuspend() takes a mask that is no smaller than what the thread undertakes to block.
LEMMA SuspendCallInv ==
  ASSUME SignalInv, NEW t \in Signals!Thread, Signals!SuspendCall(t) PROVE SignalInv'
<1>1. SignalShapes /\ SignalThreads /\ SignalMasks /\ SignalHandlers /\ SignalAlarm
  BY DEF SignalInv
<1>2. PICK x : x = codeS[t][pcS[t]]
  OBVIOUS
<1>3. /\ SignalCallFacts(progS, t, pcS[t], x) /\ x.op = "suspend"
      /\ inside[t] = Signals!None /\ statusS = "run"
  BY <1>2, SignalPlaces DEF Signals!SuspendCall
<1>4. /\ mask' = [mask EXCEPT ![t] = x.set]
      /\ UNCHANGED <<progS, codeS, pcS, disp, saMask, once, pend, inside, saved, timer, statusS>>
  BY <1>2 DEF Signals!SuspendCall, Signals!Set, Signals!Calls
<1>5. /\ x.set \subseteq Signals!Signal
      /\ \A s \in Signals!Sig : Blocks(progS, t, pcS[t], s) => s \in x.set
  BY <1>3 DEF SignalCallFacts
<1>6. /\ mask' \in [Signals!Thread -> SUBSET Signals!Signal] /\ mask'[t] = x.set
      /\ \A q \in Signals!Thread \ {t} : mask'[q] = mask[q]
  BY <1>1, <1>4, <1>5 DEF SignalShapes
<1>7. SignalShapes'
  BY <1>1, <1>4, <1>6 DEF SignalShapes
<1>8. SignalThreads'
  BY <1>1, <1>3, <1>4, <1>6 DEF SignalThreads
<1>9. SignalMasks' /\ SignalHandlers' /\ SignalAlarm'
  BY <1>1, <1>3, <1>4, <1>5, <1>6 DEF SignalMasks, SignalHandlers, SignalAlarm
<1> QED
  BY <1>3, <1>4, <1>7, <1>8, <1>9, NotKilled DEF SignalInv

\* What takes a signal from those pending, or adds one that is not of the timer.
LEMMA PendInv ==
  ASSUME SignalInv, pend' \subseteq Signals!Sig, "ALRM" \in pend' => "ALRM" \in pend,
         UNCHANGED <<progS, codeS, pcS, mask, disp, saMask, once, inside, saved, timer>>,
         statusS' \in {"run", "exit"}
  PROVE  SignalInv'
<1>1. SignalShapes /\ SignalThreads /\ SignalMasks /\ SignalHandlers /\ SignalAlarm
  BY DEF SignalInv
<1>2. SignalShapes' /\ SignalThreads'
  BY <1>1 DEF SignalShapes, SignalThreads
<1>3. SignalMasks' /\ SignalHandlers' /\ SignalAlarm'
  BY <1>1 DEF SignalMasks, SignalHandlers, SignalAlarm
<1> QED
  BY <1>2, <1>3, NotKilled DEF SignalInv

LEMMA ExpireInv == ASSUME SignalInv, Signals!Expire PROVE SignalInv'
<1>1. SignalShapes /\ SignalThreads /\ SignalMasks /\ SignalHandlers /\ SignalAlarm
  BY DEF SignalInv
<1>2. /\ UNCHANGED <<progS, codeS, pcS, mask, disp, saMask, once, inside, saved, statusS>>
      /\ statusS = "run" /\ pend' = pend \cup {"ALRM"} /\ timer # "off"
      /\ timer' \in {"off", timer}
  BY DEF Signals!Expire
<1>3. SignalShapes' /\ SignalThreads'
  BY <1>1, <1>2 DEF SignalShapes, SignalThreads, Signals!Sig
<1>4. SignalMasks' /\ SignalHandlers' /\ SignalAlarm'
  BY <1>1, <1>2 DEF SignalMasks, SignalHandlers, SignalAlarm
<1> QED
  BY <1>2, <1>3, <1>4, NotKilled DEF SignalInv

\* A new thread has the mask of main, which creates it once.
LEMMA SignalCreateInv ==
  ASSUME SignalInv, NEW t \in Signals!Thread, Signals!CreateCall(t) PROVE SignalInv'
<1>1. SignalShapes /\ SignalThreads /\ SignalMasks /\ SignalHandlers /\ SignalAlarm
  BY DEF SignalInv
<1>2. PICK x : x = codeS[t][pcS[t]]
  OBVIOUS
<1>3. /\ SignalCallFacts(progS, t, pcS[t], x) /\ x.op = "create"
      /\ Len(codeS[t]) \in Nat /\ pcS[t] \in 1..Len(codeS[t]) /\ pcS[t] \in Nat
      /\ inside[t] = Signals!None /\ statusS = "run"
      /\ \A s \in Signals!Sig : Blocks(progS, t, pcS[t], s) => s \in mask[t]
  BY <1>2, SignalPlaces DEF Signals!CreateCall
<1>4. PICK a \in {"t1", "t2", "t3"} : a = x.arg /\ pcS[t] = BornAt(progS, a)
  BY <1>3 DEF SignalCallFacts
<1>5. progS \in Threaded /\ t = "main" /\ pcS[t] >= 2
  BY <1>3 DEF SignalCallFacts
<1>6. pcS[a] = 0 /\ inside[a] = Signals!None /\ a # t /\ a \in Signals!Thread
  <2>1. pcS["main"] = BornAt(progS, a) /\ a \in Signals!Thread \ {"main"}
    BY <1>4, <1>5 DEF Signals!Thread
  <2>2. pcS[a] = 0
    BY <1>1, <1>3, <1>5, <2>1 DEF SignalThreads
  <2> QED
    BY <1>1, <1>5, <2>1, <2>2 DEF SignalThreads
<1>7. /\ UNCHANGED <<progS, codeS, disp, saMask, once, pend, inside, saved, timer>>
      /\ \/ /\ pcS' = [pcS EXCEPT ![t] = pcS[t] + 1, ![a] = 1]
            /\ mask' = [mask EXCEPT ![a] = mask[t]] /\ statusS' = statusS
         \/ statusS' = "exit" /\ UNCHANGED <<pcS, mask>>
  BY <1>2, <1>4 DEF Signals!CreateCall, Signals!Argument, Signals!Calls
<1>8. CASE statusS' = "exit" /\ UNCHANGED <<pcS, mask>>
  BY <1>1, <1>7, <1>8, PendInv DEF SignalShapes
<1>9. CASE /\ pcS' = [pcS EXCEPT ![t] = pcS[t] + 1, ![a] = 1]
           /\ mask' = [mask EXCEPT ![a] = mask[t]] /\ statusS' = statusS
  <2>1. /\ pcS' \in [Signals!Thread -> Nat] /\ pcS'[t] = pcS[t] + 1 /\ pcS'[a] = 1
        /\ \A q \in Signals!Thread \ {t, a} : pcS'[q] = pcS[q]
    BY <1>1, <1>3, <1>6, <1>9 DEF SignalShapes
  <2>2. /\ mask' \in [Signals!Thread -> SUBSET Signals!Signal] /\ mask'[a] = mask[t]
        /\ \A q \in Signals!Thread \ {a} : mask'[q] = mask[q]
    BY <1>1, <1>6, <1>9 DEF SignalShapes
  <2>3. SignalShapes'
    <3>1. Len(codeS[a]) \in Nat
      <4>1. SignalFactsOf(progS)
        BY <1>1, AloneLists, Ch08Ex09Facts, Ch08Ex10Facts, SignalProgramList
        DEF Threaded, SignalShapes
      <4> QED
        BY <1>1, <1>6, <4>1 DEF SignalFactsOf, SignalListFacts, SignalShapes
    <3>2. codeS' = codeS /\ 1 \in 0..(Len(codeS[a]) + 1)
          /\ pcS[t] + 1 \in 0..(Len(codeS[t]) + 1)
      BY <1>3, <1>7, <3>1
    <3>3. \A q \in Signals!Thread : pcS'[q] \in 0..(Len(codeS'[q]) + 1)
      <4> SUFFICES ASSUME NEW q \in Signals!Thread PROVE pcS'[q] \in 0..(Len(codeS[q]) + 1)
        BY <3>2
      <4>1. CASE q = t
        BY <2>1, <3>2, <4>1
      <4>2. CASE q = a
        BY <2>1, <3>2, <4>2
      <4>3. CASE q \notin {t, a}
        BY <1>1, <2>1, <4>3 DEF SignalShapes
      <4> QED
        BY <4>1, <4>2, <4>3
    <3> QED
      BY <1>1, <1>7, <1>9, <2>1, <2>2, <3>3 DEF SignalShapes
  <2>4. SignalThreads'
    <3>1. pcS'["main"] = pcS["main"] + 1 /\ pcS["main"] \in Nat
      BY <1>3, <1>5, <2>1
    <3>2. \A q \in Signals!Thread \ {"main"} :
            pcS'[q] # 0 => progS \in Threaded /\ pcS'["main"] > BornAt(progS, q)
      <4>1. \A q \in Signals!Thread : BornAt(progS, q) \in Nat
        BY DEF BornAt
      <4> QED
        BY <1>1, <1>4, <1>5, <2>1, <3>1, <4>1 DEF SignalThreads
    <3>3. \A q \in Signals!Thread : inside[q] # Signals!None =>
            pcS'[q] = pcS[q] /\ mask'[q] = mask[q]
      BY <1>3, <1>6, <2>1, <2>2
    <3> QED
      BY <1>1, <1>7, <3>1, <3>2, <3>3 DEF SignalThreads
  <2>5. SignalMasks'
    <3>1. \A s \in Signals!Sig : Blocks(progS, a, 1, s) => s \in mask[t]
      BY <1>3, <1>5 DEF Blocks, Threaded
    <3>2. \A s \in Signals!Sig : Blocks(progS, t, pcS[t] + 1, s) => s \in mask[t]
      BY <1>3 DEF SignalCallFacts
    <3>3. \A q \in Signals!Thread \ {t, a} : \A s \in Signals!Sig :
            pcS'[q] # 0 /\ Blocks(progS, q, pcS'[q], s) =>
              s \in mask'[q] /\ (inside[q] # Signals!None => s \in saved[q])
      BY <1>1, <2>1, <2>2 DEF SignalMasks
    <3> QED
      BY <1>3, <1>6, <1>7, <2>1, <2>2, <3>1, <3>2, <3>3 DEF SignalMasks
  <2>6. SignalHandlers'
    <3>1. \A s \in Signals!Sig : ~Handles(progS, a, 1, s)
      BY <1>5, <1>6 DEF Handles, Threaded
    <3>2. \A s \in Signals!Sig :
            Handles(progS, t, pcS[t] + 1, s) => Handles(progS, t, pcS[t], s)
      BY <1>3 DEF SignalCallFacts
    <3> QED
      BY <1>1, <1>3, <1>7, <2>1, <3>1, <3>2 DEF SignalHandlers
  <2>7. SignalAlarm'
    BY <1>1, <1>3, <1>5, <1>7, <2>1 DEF SignalAlarm, SignalThreads
  <2> QED
    BY <1>3, <1>7, <1>9, <2>3, <2>4, <2>5, <2>6, <2>7, NotKilled DEF SignalInv
<1> QED
  BY <1>7, <1>8, <1>9

\* A handler returns: the mask is again what it was, and a pause() is over.
LEMMA ReturnInv == ASSUME SignalInv, NEW t \in Signals!Thread, Signals!Return(t) PROVE SignalInv'
<1>1. SignalShapes /\ SignalThreads /\ SignalMasks /\ SignalHandlers /\ SignalAlarm
  BY DEF SignalInv
<1>2. PICK x : x = codeS[t][pcS[t]]
  OBVIOUS
<1>3. /\ inside[t] # Signals!None /\ statusS = "run"
      /\ inside' = [inside EXCEPT ![t] = Signals!None] /\ mask' = [mask EXCEPT ![t] = saved[t]]
      /\ pcS' = [pcS EXCEPT ![t] = IF x.op = "pause" THEN pcS[t] + 1 ELSE pcS[t]]
      /\ UNCHANGED <<progS, codeS, disp, saMask, once, pend, saved, timer, statusS>>
  BY <1>2 DEF Signals!Return, Signals!Calls
<1>4. pcS[t] \in 1..Len(codeS[t]) /\ Len(codeS[t]) \in Nat
      /\ SignalCallFacts(progS, t, pcS[t], x)
  <2>1. SignalFactsOf(progS)
    BY <1>1, AloneLists, Ch08Ex09Facts, Ch08Ex10Facts, SignalProgramList
    DEF Threaded, SignalShapes
  <2>2. pcS[t] \in 1..Len(codeS[t]) /\ SignalListFacts(progS, t, codeS[t])
    BY <1>1, <1>3, <2>1 DEF SignalThreads, SignalFactsOf, SignalShapes
  <2> QED
    BY <1>2, <2>2 DEF SignalListFacts
<1>5. PICK k \in {pcS[t], pcS[t] + 1} :
        /\ pcS' = [pcS EXCEPT ![t] = k]
        /\ k = pcS[t] + 1 => x.op = "pause"
  <2>1. CASE x.op = "pause"
    BY <1>3, <2>1
  <2>2. CASE x.op # "pause"
    <3>1. pcS' = [pcS EXCEPT ![t] = pcS[t]]
      BY <1>3, <2>2
    <3>2. pcS[t] # pcS[t] + 1
      BY <1>4
    <3> QED
      BY <3>1, <3>2
  <2> QED
    BY <2>1, <2>2
<1>6. /\ pcS' \in [Signals!Thread -> Nat] /\ pcS'[t] = k /\ k \in 1..(Len(codeS[t]) + 1)
      /\ \A q \in Signals!Thread \ {t} : pcS'[q] = pcS[q]
  BY <1>1, <1>4, <1>5 DEF SignalShapes
<1>7. /\ mask' \in [Signals!Thread -> SUBSET Signals!Signal] /\ mask'[t] = saved[t]
      /\ \A q \in Signals!Thread \ {t} : mask'[q] = mask[q]
  BY <1>1, <1>3 DEF SignalShapes
<1>8. /\ inside' \in [Signals!Thread -> Signals!Sig \cup {Signals!None}]
      /\ inside'[t] = Signals!None
      /\ \A q \in Signals!Thread \ {t} : inside'[q] = inside[q]
  BY <1>1, <1>3 DEF SignalThreads
<1>9. SignalShapes'
  BY <1>1, <1>3, <1>6, <1>7 DEF SignalShapes
<1>10. SignalThreads'
  <2>1. "main" \in Signals!Thread /\ pcS'["main"] >= pcS["main"] /\ pcS["main"] \in Nat
    BY <1>1, <1>4, <1>5, <1>6 DEF SignalShapes, Signals!Thread
  <2>2. \A q \in Signals!Thread : BornAt(progS, q) \in Nat
    BY DEF BornAt
  <2>3. \A q \in Signals!Thread : pcS'[q] # 0 => pcS[q] # 0
    BY <1>4, <1>6
  <2> QED
    BY <1>1, <1>3, <1>6, <1>7, <1>8, <2>1, <2>2, <2>3 DEF SignalThreads
<1>11. SignalMasks'
  <2>1. \A s \in Signals!Sig : Blocks(progS, t, k, s) => Blocks(progS, t, pcS[t], s)
    BY <1>4, <1>5 DEF SignalCallFacts
  <2>2. \A s \in Signals!Sig : Blocks(progS, t, k, s) => s \in mask'[t]
    BY <1>1, <1>3, <1>4, <1>7, <2>1 DEF SignalMasks
  <2> QED
    BY <1>1, <1>3, <1>6, <1>7, <1>8, <2>2 DEF SignalMasks
<1>12. SignalHandlers'
  <2>1. \A s \in Signals!Sig : Handles(progS, t, k, s) => Handles(progS, t, pcS[t], s)
    BY <1>4, <1>5 DEF SignalCallFacts
  <2> QED
    BY <1>1, <1>3, <1>4, <1>6, <2>1 DEF SignalHandlers
<1>13. SignalAlarm'
  BY <1>1, <1>3, <1>4, <1>5, <1>6 DEF SignalAlarm, Signals!Thread, SignalShapes
<1> QED
  BY <1>3, <1>9, <1>10, <1>11, <1>12, <1>13, NotKilled DEF SignalInv

\* A signal that is delivered, and one that kills.
LEMMA DeliverInv ==
  ASSUME SignalInv, NEW t \in Signals!Thread, NEW s \in Signals!Sig, Signals!Deliver(t, s)
  PROVE  SignalInv'
<1>1. SignalShapes /\ SignalThreads /\ SignalMasks /\ SignalHandlers /\ SignalAlarm
  BY DEF SignalInv
<1>2. /\ statusS = "run" /\ s \in pend /\ s \notin mask[t] /\ pcS[t] # 0
      /\ pcS[t] # Len(codeS[t]) + 1 /\ pend' = pend \ {s}
      /\ UNCHANGED <<progS, codeS, pcS, saMask, once, timer>>
  BY DEF Signals!Deliver, Signals!Ended, Signals!Calls
<1>3. Len(codeS[t]) \in Nat /\ pcS[t] \in 1..Len(codeS[t])
  <2>1. SignalFactsOf(progS)
    BY <1>1, AloneLists, Ch08Ex09Facts, Ch08Ex10Facts, SignalProgramList
    DEF Threaded, SignalShapes
  <2>2. Len(codeS[t]) \in Nat
    BY <1>1, <2>1 DEF SignalFactsOf, SignalListFacts, SignalShapes
  <2>3. pcS[t] \in 0..(Len(codeS[t]) + 1)
    BY <1>1 DEF SignalShapes
  <2> QED
    BY <1>2, <2>2, <2>3
<1>4. CASE disp[s] = "default"
  <2>1. statusS' = s /\ UNCHANGED <<mask, inside, saved, disp>>
    BY <1>4 DEF Signals!Deliver
  <2>2. SignalShapes' /\ SignalThreads'
    BY <1>1, <1>2, <2>1 DEF SignalShapes, SignalThreads
  <2>3. SignalMasks' /\ SignalHandlers' /\ SignalAlarm'
    BY <1>1, <1>2, <2>1 DEF SignalMasks, SignalHandlers, SignalAlarm
  <2>4. Signals!OnlyOpenSignalsKill'
    <3> SUFFICES ASSUME NEW r \in Signals!Survives, pcS["main"] \in r[2], s \in r[1] PROVE FALSE
      <4>1. Signals!Survives' = Signals!Survives
        BY <1>2 DEF Signals!Survives
      <4> QED
        BY <1>2, <2>1, <4>1 DEF Signals!OnlyOpenSignalsKill
    <3>1. progS \in SignalPrograms
      BY <1>1, SignalProgramList DEF SignalShapes
    <3>2. Kept(progS, pcS["main"], s) /\ ~once
      BY <1>1, <3>1, SurvivesOnly DEF SignalShapes
    <3>3. \A q \in Signals!Thread : pcS[q] # 0 => ~Handles(progS, q, pcS[q], s)
      BY <1>1, <1>4, <3>2 DEF SignalHandlers
    <3>4. ~Blocks(progS, t, pcS[t], s)
      BY <1>1, <1>2 DEF SignalMasks
    <3>5. "main" \in Signals!Thread /\ ~Handles(progS, "main", pcS["main"], s)
      BY <1>1, <3>3 DEF SignalThreads, Signals!Thread
    <3>6. t # "main" => progS \in Threaded
      BY <1>1, <1>2 DEF SignalThreads
    <3>7. progS \notin Threaded /\ Blocks(progS, "main", pcS["main"], s) => FALSE
      BY <3>4, <3>6
    <3>8. ~(progS \in Alarmed /\ s = "ALRM" /\ pcS["main"] = 1)
      BY <1>1, <1>2 DEF SignalAlarm
    <3>9. progS \in Threaded /\ s # "INT" /\ pcS["main"] >= 2
      BY <3>2, <3>5, <3>7, <3>8 DEF Kept
    <3>10. ~Handles(progS, t, pcS[t], s)
      BY <1>2, <3>3
    <3>11. t = "main" => pcS[t] >= 2
      BY <3>9
    <3>12. progS = "ch08_ex09" => t # "t3"
      <4> SUFFICES ASSUME progS = "ch08_ex09", t = "t3" PROVE FALSE
        OBVIOUS
      <4>1. codeS["t3"] = <<>>
        BY <1>1 DEF SignalShapes, Signals!Code, Signals!Ch08Ex09
      <4> QED
        BY <1>3, <4>1
    <3>13. t # "main" /\ progS = "ch08_ex10" => FALSE
      BY <3>4, <3>9 DEF Blocks
    <3>14. t # "main" /\ progS = "ch08_ex09" => FALSE
      <4> SUFFICES ASSUME t # "main", progS = "ch08_ex09" PROVE FALSE
        OBVIOUS
      <4>1. t \in {"t1", "t2"} /\ pcS[t] > 2
        BY <1>3, <3>4, <3>9, <3>12 DEF Blocks, Signals!Thread
      <4>2. CASE t = "t1"
        <5>1. s = "USR1"
          BY <3>4, <3>9, <4>2 DEF Blocks
        <5> QED
          BY <1>3, <3>10, <4>1, <4>2, <5>1 DEF Handles
      <4>3. CASE t = "t2"
        <5>1. s = "USR2"
          BY <3>4, <3>9, <4>3 DEF Blocks
        <5> QED
          BY <1>3, <3>10, <4>1, <4>3, <5>1 DEF Handles
      <4> QED
        BY <4>1, <4>2, <4>3
    <3> QED
      BY <3>4, <3>9, <3>11, <3>13, <3>14 DEF Blocks, Threaded
  <2> QED
    BY <2>2, <2>3, <2>4 DEF SignalInv
<1>5. CASE disp[s] # "default"
  <2>1. /\ inside' = [inside EXCEPT ![t] = s] /\ saved' = [saved EXCEPT ![t] = mask[t]]
        /\ mask' = [mask EXCEPT ![t] = mask[t] \cup saMask[s] \cup {s}]
        /\ disp' = [disp EXCEPT ![s] = IF once THEN "default" ELSE disp[s]]
        /\ statusS' = statusS
    BY <1>5 DEF Signals!Deliver
  <2>2. /\ mask' \in [Signals!Thread -> SUBSET Signals!Signal]
        /\ mask'[t] = mask[t] \cup saMask[s] \cup {s}
        /\ \A q \in Signals!Thread \ {t} : mask'[q] = mask[q]
        /\ saved' \in [Signals!Thread -> SUBSET Signals!Signal] /\ saved'[t] = mask[t]
        /\ \A q \in Signals!Thread \ {t} : saved'[q] = saved[q]
    <3>1. Signals!Sig \subseteq Signals!Signal
      BY SignalConstants DEF Signals!Sig, Signals!Signal
    <3>2. /\ mask[t] \subseteq Signals!Signal /\ saMask[s] \subseteq Signals!Signal
          /\ s \in Signals!Signal
      BY <1>1, <3>1 DEF SignalShapes
    <3> QED
      BY <1>1, <2>1, <3>2 DEF SignalShapes
  <2>3. /\ inside' \in [Signals!Thread -> Signals!Sig \cup {Signals!None}] /\ inside'[t] = s
        /\ \A q \in Signals!Thread \ {t} : inside'[q] = inside[q]
    BY <1>1, <2>1 DEF SignalThreads
  <2>4. disp' \in [Signals!Sig -> {"default", "handled"}] /\ (~once => disp' = disp)
    BY <1>1, <2>1 DEF SignalShapes
  <2>5. SignalShapes'
    BY <1>1, <1>2, <2>1, <2>2, <2>4 DEF SignalShapes
  <2>6. SignalThreads'
    BY <1>1, <1>2, <1>3, <2>2, <2>3 DEF SignalThreads
  <2>7. SignalMasks'
    BY <1>1, <1>2, <2>2, <2>3 DEF SignalMasks
  <2>8. SignalHandlers' /\ SignalAlarm'
    BY <1>1, <1>2, <2>4 DEF SignalHandlers, SignalAlarm
  <2> QED
    BY <1>2, <2>1, <2>5, <2>6, <2>7, <2>8, NotKilled DEF SignalInv
<1> QED
  BY <1>4, <1>5

LEMMA SignalNextInv == SignalInv /\ [Signals!SignalNext]_signalV => SignalInv'
<1> SUFFICES ASSUME SignalInv, [Signals!SignalNext]_signalV PROVE SignalInv'
  OBVIOUS
<1>1. CASE UNCHANGED signalV
  BY <1>1 DEF signalV, SignalInv, SignalShapes, SignalThreads, SignalMasks, SignalHandlers,
              SignalAlarm, Signals!OnlyOpenSignalsKill, Signals!Survives
<1>2. pend \subseteq Signals!Sig
  BY DEF SignalInv, SignalShapes
<1>3. CASE Signals!Send
  <2>1. Outside \subseteq Signals!Sig /\ "ALRM" \notin Outside
    BY SignalConstants DEF Signals!Sig
  <2> QED
    BY <1>2, <1>3, <2>1, PendInv DEF Signals!Send
<1>4. CASE Signals!Expire
  BY <1>4, ExpireInv
<1>5. CASE Signals!MainReturns
  BY <1>2, <1>5, PendInv DEF Signals!MainReturns
<1>6. ASSUME NEW t \in Signals!Thread, Signals!Step(t) PROVE SignalInv'
  <2>1. CASE Signals!TimerCall(t)
    BY <2>1, QuietCallInv DEF Signals!TimerCall
  <2>2. CASE Signals!JoinCall(t)
    BY <2>2, QuietCallInv DEF Signals!JoinCall
  <2>3. CASE Signals!WorkDone(t)
    BY <2>3, QuietCallInv DEF Signals!WorkDone
  <2>4. CASE Signals!SigwaitCall(t)
    <3>1. statusS' = "run"
      BY <2>4 DEF Signals!SigwaitCall, Signals!At
    <3> QED
      BY <1>2, <2>4, <3>1, PendInv DEF Signals!SigwaitCall
  <2> QED
    BY <1>6, <2>1, <2>2, <2>3, <2>4, MaskCallInv, HandlerCallInv, SuspendCallInv,
       SignalCreateInv, ReturnInv, DeliverInv DEF Signals!Step
<1> QED
  BY <1>1, <1>3, <1>4, <1>5, <1>6 DEF Signals!SignalNext

------------------------------------------------------------------------------
(***************************************************************************)
(* ThreadExamples.  Where the calls of each program stand is read off the  *)
(* lists once; the rest speaks of places.                                  *)
(***************************************************************************)

ThreadPrograms == {"ex01", "ex02", "ex03", "ex04", "ex05", "ex08", "ex08_cleanup", "exercise"}
Counting == {"ex05", "exercise"}
Blocking == {"ex08", "ex08_cleanup"}
Texting == {"ex01", "ex02", "ex03", "ex04"}
Worker == {"t1", "t2", "t3"}

\* The threads main creates, and where it does, and where it joins them.
Workers(g) ==
  IF g = "ex05" THEN {"t1", "t2"} ELSE IF g = "exercise" THEN {"t1", "t2", "t3"} ELSE {"t1"}
CreatedAt(t) == IF t = "t1" THEN 1 ELSE IF t = "t2" THEN 2 ELSE 3
JoinedAt(g, t) ==
  IF g = "exercise" THEN 3 + CreatedAt(t)
  ELSE IF g = "ex05" THEN 2 + CreatedAt(t)
  ELSE IF g \in {"ex02", "ex03", "ex08_cleanup"} THEN 4 ELSE 2

\* The last call of a thread.
LastPlace(g, t) ==
  IF t = "main" THEN IF g = "exercise" THEN 6
                     ELSE IF g \in {"ex01", "ex04", "ex08"} THEN 2 ELSE 4
  ELSE IF t \notin Workers(g) THEN 0
  ELSE IF g = "exercise" THEN 10
  ELSE IF g \in Blocking THEN 8
  ELSE IF g = "ex05" THEN 6
  ELSE IF g = "ex02" THEN 5
  ELSE IF g = "ex01" THEN 4 ELSE 3

\* Where the threads of ex05.c and exercise.c lock the mutex, and where they unlock it.
LockedAt(g) == IF g = "ex05" THEN 1 ELSE 2
UnlockedAt(g) == IF g = "ex05" THEN 4 ELSE 7

MainCalls(g, t, k, x) ==
  /\ x.op \in {"create", "createblindly"} => x.arg \in Workers(g) /\ k = CreatedAt(x.arg)
  /\ x.op = "createblindly" => g = "exercise"
  /\ x.op = "join" => x.arg \in Workers(g)
  /\ x.op = "cancel" => x.arg = "t1" /\ g \in {"ex02", "ex08_cleanup"}
  /\ x.op \in {"create", "createblindly", "join", "cancel"} => t = "main"
  /\ t = "main" /\ k = 1 => x.op \in {"create", "createblindly"}
  /\ t = "main" => \A a \in Workers(g) : k = JoinedAt(g, a) <=> x.op = "join" /\ x.arg = a

TextCalls(g, t, k, x) ==
  /\ x.op = "exit" => /\ t # "main" /\ x.arg \in {Threads!None, "text"}
                      /\ g \in Texting => x.arg = "text"
  /\ t # "main" => (k = LastPlace(g, t) <=> x.op = "exit")
  /\ t # "main" /\ g = "ex02" /\ k = 1 => x.op = "disable"

BlockCalls(g, t, k, x) ==
  /\ t = "main" => x.op \notin {"push", "pop", "malloc", "free"}
  /\ t # "main" /\ g \in Blocking =>
       /\ x.op = "malloc" <=> k = 1
       /\ x.op = "push" <=> k = 3
       /\ x.op = "pop" <=> k = 5
       /\ x.op = "free" <=> k = 6
  /\ g \notin Blocking => x.op \notin {"malloc", "free"}
  /\ x.op \in {"push", "pop"} => g \in Blocking \cup {"exercise"}

CounterCalls(g, t, k, x) ==
  /\ t = "main" \/ g \notin Counting =>
       x.op \notin {"lock", "load", "store", "unlock", "again"}
  /\ t # "main" /\ g \in Counting =>
       /\ x.op = "lock" <=> k = LockedAt(g)
       /\ x.op = "load" <=> k = LockedAt(g) + 1
       /\ x.op = "store" <=> k = LockedAt(g) + 2
       /\ x.op = "unlock" <=> k = UnlockedAt(g)
       /\ x.op = "again" <=> k = UnlockedAt(g) + 1
       /\ x.op = "again" => x.arg = LockedAt(g)

ThreadCallFacts(g, t, k, x) ==
  MainCalls(g, t, k, x) /\ TextCalls(g, t, k, x) /\ BlockCalls(g, t, k, x)
    /\ CounterCalls(g, t, k, x)

ThreadListFacts(g, t, list) ==
  /\ Len(list) = LastPlace(g, t)
  /\ \A k \in 1..LastPlace(g, t) : ThreadCallFacts(g, t, k, list[k])

ThreadFactsOf(g) == \A t \in Threads!Thread : ThreadListFacts(g, t, Threads!Code[g][t])

\* Who has been created and who has ended, by the place of main.
ThreadPlaces ==
  /\ progT \in ThreadPrograms /\ codeT = Threads!Code[progT]
  /\ pcT \in [Threads!Thread -> Nat]
  /\ \A t \in Threads!Thread : pcT[t] <= LastPlace(progT, t) + 1
  /\ pcT["main"] # 0
  /\ \A t \in Worker : pcT[t] # 0 => t \in Workers(progT) /\ pcT["main"] > CreatedAt(t)
  /\ progT # "exercise" /\ pcT["main"] > 1 => pcT["t1"] # 0
  /\ \A t \in Workers(progT) : pcT["main"] > JoinedAt(progT, t) =>
       pcT[t] \in {0, LastPlace(progT, t) + 1}
  /\ statusT \in {"run", "exit", "error", "crash"}
  /\ statusT = "exit" => pcT["main"] = LastPlace(progT, "main") + 1
  /\ statusT = "crash" /\ progT # "exercise" => pcT["main"] > JoinedAt(progT, "t1")

\* The text of the thread, and the cancellation that does not reach that of ex02.c.
ThreadTexts ==
  /\ result \in [Threads!Thread -> {Threads!None, "text", "canceled"}]
  /\ asked \subseteq {"t1"} /\ (asked # {} => progT \in {"ex02", "ex08_cleanup"})
  /\ disabled \subseteq Threads!Thread
  /\ progT = "ex02" /\ pcT["t1"] >= 2 => "t1" \in disabled
  /\ progT \in Texting /\ pcT["t1"] = LastPlace(progT, "t1") + 1 => result["t1"] = "text"

\* The block of memory, by the place of the thread that has it.
ThreadBlock ==
  /\ pushed \subseteq Worker
  /\ progT \notin Blocking => heap = "none"
  /\ progT \notin Blocking \cup {"exercise"} => pushed = {}
  /\ progT \in Blocking =>
       /\ pushed = IF pcT["t1"] \in {4, 5} THEN {"t1"} ELSE {}
       /\ pcT["t1"] <= 1 => heap = "none"
       /\ pcT["t1"] \in 2..6 => heap = "held"
       /\ pcT["t1"] \in 7..8 => heap = "freed"
       /\ pcT["t1"] = 9 => heap = "freed" \/ (heap = "held" /\ result["t1"] = "canceled")

\* The increments of a thread, the one of a round it has not finished with them.
Increments ==
  [t \in Worker |-> loops[t] + IF pcT[t] \in (LockedAt(progT) + 3)..(UnlockedAt(progT) + 1)
                               THEN 1 ELSE 0]

\* The counter is the sum of them; what a thread has read under the mutex is current.
ThreadCounter ==
  /\ loops \in [Threads!Thread -> Nat] /\ temp \in [Threads!Thread -> Nat] /\ count \in Nat
  /\ holder \in Worker \cup {Threads!None}
  /\ loops["main"] = 0 /\ temp["main"] = 0
  /\ progT \notin Counting => \A t \in Threads!Thread : loops[t] = 0 /\ temp[t] = 0
  /\ progT \in Counting =>
       \A t \in Worker :
         /\ pcT[t] = 0 => loops[t] = 0
         /\ pcT[t] <= UnlockedAt(progT) + 1 => loops[t] < Threads!Loops
         /\ pcT[t] > UnlockedAt(progT) + 1 => loops[t] = Threads!Loops
         /\ holder = t <=> pcT[t] \in (LockedAt(progT) + 1)..UnlockedAt(progT)
         /\ pcT[t] = LockedAt(progT) + 2 => temp[t] = count
         /\ temp[t] <= 3 * Threads!Loops
  /\ count = IF progT \in Counting
             THEN Increments["t1"] + Increments["t2"] + Increments["t3"] ELSE 0

ThreadInv == ThreadPlaces /\ ThreadTexts /\ ThreadBlock /\ ThreadCounter

LEMMA ThreadProgramList == DOMAIN Threads!Code = ThreadPrograms
  BY DEF Threads!Code, ThreadPrograms

LEMMA NoneCalled ==
  ASSUME NEW g, NEW t, LastPlace(g, t) = 0
  PROVE  ThreadListFacts(g, t, <<>>)
  BY DEF ThreadListFacts

LEMMA TwoCalls ==
  ASSUME NEW g, NEW t, LastPlace(g, t) = 2, NEW a1, NEW a2,
         ThreadCallFacts(g, t, 1, a1), ThreadCallFacts(g, t, 2, a2)
  PROVE  ThreadListFacts(g, t, <<a1, a2>>)
  BY DEF ThreadListFacts

LEMMA ThreeCalls ==
  ASSUME NEW g, NEW t, LastPlace(g, t) = 3, NEW a1, NEW a2, NEW a3,
         ThreadCallFacts(g, t, 1, a1), ThreadCallFacts(g, t, 2, a2),
         ThreadCallFacts(g, t, 3, a3)
  PROVE  ThreadListFacts(g, t, <<a1, a2, a3>>)
  BY DEF ThreadListFacts

LEMMA FourCalls ==
  ASSUME NEW g, NEW t, LastPlace(g, t) = 4, NEW a1, NEW a2, NEW a3, NEW a4,
         ThreadCallFacts(g, t, 1, a1), ThreadCallFacts(g, t, 2, a2),
         ThreadCallFacts(g, t, 3, a3), ThreadCallFacts(g, t, 4, a4)
  PROVE  ThreadListFacts(g, t, <<a1, a2, a3, a4>>)
  BY DEF ThreadListFacts

LEMMA FiveCalls ==
  ASSUME NEW g, NEW t, LastPlace(g, t) = 5, NEW a1, NEW a2, NEW a3, NEW a4, NEW a5,
         ThreadCallFacts(g, t, 1, a1), ThreadCallFacts(g, t, 2, a2),
         ThreadCallFacts(g, t, 3, a3), ThreadCallFacts(g, t, 4, a4),
         ThreadCallFacts(g, t, 5, a5)
  PROVE  ThreadListFacts(g, t, <<a1, a2, a3, a4, a5>>)
  BY DEF ThreadListFacts

LEMMA SixCalls ==
  ASSUME NEW g, NEW t, LastPlace(g, t) = 6,
         NEW a1, NEW a2, NEW a3, NEW a4, NEW a5, NEW a6,
         ThreadCallFacts(g, t, 1, a1), ThreadCallFacts(g, t, 2, a2),
         ThreadCallFacts(g, t, 3, a3), ThreadCallFacts(g, t, 4, a4),
         ThreadCallFacts(g, t, 5, a5), ThreadCallFacts(g, t, 6, a6)
  PROVE  ThreadListFacts(g, t, <<a1, a2, a3, a4, a5, a6>>)
  BY DEF ThreadListFacts

LEMMA EightCalls ==
  ASSUME NEW g, NEW t, LastPlace(g, t) = 8,
         NEW a1, NEW a2, NEW a3, NEW a4, NEW a5, NEW a6, NEW a7, NEW a8,
         ThreadCallFacts(g, t, 1, a1), ThreadCallFacts(g, t, 2, a2),
         ThreadCallFacts(g, t, 3, a3), ThreadCallFacts(g, t, 4, a4),
         ThreadCallFacts(g, t, 5, a5), ThreadCallFacts(g, t, 6, a6),
         ThreadCallFacts(g, t, 7, a7), ThreadCallFacts(g, t, 8, a8)
  PROVE  ThreadListFacts(g, t, <<a1, a2, a3, a4, a5, a6, a7, a8>>)
  BY DEF ThreadListFacts

LEMMA TenCalls ==
  ASSUME NEW g, NEW t, LastPlace(g, t) = 10,
         NEW a1, NEW a2, NEW a3, NEW a4, NEW a5, NEW a6, NEW a7, NEW a8, NEW a9, NEW a10,
         ThreadCallFacts(g, t, 1, a1), ThreadCallFacts(g, t, 2, a2),
         ThreadCallFacts(g, t, 3, a3), ThreadCallFacts(g, t, 4, a4),
         ThreadCallFacts(g, t, 5, a5), ThreadCallFacts(g, t, 6, a6),
         ThreadCallFacts(g, t, 7, a7), ThreadCallFacts(g, t, 8, a8),
         ThreadCallFacts(g, t, 9, a9), ThreadCallFacts(g, t, 10, a10)
  PROVE  ThreadListFacts(g, t, <<a1, a2, a3, a4, a5, a6, a7, a8, a9, a10>>)
  BY DEF ThreadListFacts

LEMMA Ex01Calls == ThreadFactsOf("ex01")
<1> USE DEF MainCalls, TextCalls, BlockCalls, CounterCalls, ThreadCallFacts,
          Workers, CreatedAt, JoinedAt,
          LastPlace, LockedAt, UnlockedAt, Counting, Blocking, Texting, Threads!Call, Threads!None,
          Threads!Create, Threads!Exit, Threads!Join, Threads!Printf, Threads!Sleep
<1>1. /\ ThreadCallFacts("ex01", "main", 1, Threads!Create("t1"))
      /\ ThreadCallFacts("ex01", "main", 2, Threads!Join("t1"))
  OBVIOUS
<1>2. /\ ThreadCallFacts("ex01", "t1", 1, Threads!Printf)
      /\ ThreadCallFacts("ex01", "t1", 2, Threads!Sleep)
      /\ ThreadCallFacts("ex01", "t1", 3, Threads!Printf)
      /\ ThreadCallFacts("ex01", "t1", 4, Threads!Exit("text"))
  OBVIOUS
<1>3. /\ LastPlace("ex01", "main") = 2
      /\ LastPlace("ex01", "t1") = 4
      /\ LastPlace("ex01", "t2") = 0
      /\ LastPlace("ex01", "t3") = 0
  OBVIOUS
<1> HIDE DEF MainCalls, TextCalls, BlockCalls, CounterCalls, ThreadCallFacts,
          Workers, CreatedAt, JoinedAt,
          LastPlace, LockedAt, UnlockedAt, Counting, Blocking, Texting, Threads!Call, Threads!None,
          Threads!Create, Threads!Exit, Threads!Join, Threads!Printf, Threads!Sleep
<1>4. ThreadListFacts("ex01", "main", Threads!Code["ex01"]["main"])
  BY <1>1, <1>3, TwoCalls DEF Threads!Code, Threads!Ex01, Threads!Two
<1>5. ThreadListFacts("ex01", "t1", Threads!Code["ex01"]["t1"])
  BY <1>2, <1>3, FourCalls DEF Threads!Code, Threads!Ex01, Threads!Two
<1>6. ThreadListFacts("ex01", "t2", Threads!Code["ex01"]["t2"])
  BY <1>3, NoneCalled DEF Threads!Code, Threads!Ex01, Threads!Two
<1>7. ThreadListFacts("ex01", "t3", Threads!Code["ex01"]["t3"])
  BY <1>3, NoneCalled DEF Threads!Code, Threads!Ex01, Threads!Two
<1> QED
  BY <1>4, <1>5, <1>6, <1>7 DEF ThreadFactsOf, Threads!Thread

LEMMA Ex02Calls == ThreadFactsOf("ex02")
<1> USE DEF MainCalls, TextCalls, BlockCalls, CounterCalls, ThreadCallFacts,
          Workers, CreatedAt, JoinedAt,
          LastPlace, LockedAt, UnlockedAt, Counting, Blocking, Texting, Threads!Call, Threads!None,
          Threads!Cancel, Threads!Create, Threads!DisableCancel, Threads!Exit, Threads!Join,
          Threads!Printf, Threads!Sleep
<1>1. /\ ThreadCallFacts("ex02", "main", 1, Threads!Create("t1"))
      /\ ThreadCallFacts("ex02", "main", 2, Threads!Sleep)
      /\ ThreadCallFacts("ex02", "main", 3, Threads!Cancel("t1"))
      /\ ThreadCallFacts("ex02", "main", 4, Threads!Join("t1"))
  OBVIOUS
<1>2. /\ ThreadCallFacts("ex02", "t1", 1, Threads!DisableCancel)
      /\ ThreadCallFacts("ex02", "t1", 2, Threads!Printf)
      /\ ThreadCallFacts("ex02", "t1", 3, Threads!Sleep)
      /\ ThreadCallFacts("ex02", "t1", 4, Threads!Printf)
      /\ ThreadCallFacts("ex02", "t1", 5, Threads!Exit("text"))
  OBVIOUS
<1>3. /\ LastPlace("ex02", "main") = 4
      /\ LastPlace("ex02", "t1") = 5
      /\ LastPlace("ex02", "t2") = 0
      /\ LastPlace("ex02", "t3") = 0
  OBVIOUS
<1> HIDE DEF MainCalls, TextCalls, BlockCalls, CounterCalls, ThreadCallFacts,
          Workers, CreatedAt, JoinedAt,
          LastPlace, LockedAt, UnlockedAt, Counting, Blocking, Texting, Threads!Call, Threads!None,
          Threads!Cancel, Threads!Create, Threads!DisableCancel, Threads!Exit, Threads!Join,
          Threads!Printf, Threads!Sleep
<1>4. ThreadListFacts("ex02", "main", Threads!Code["ex02"]["main"])
  BY <1>1, <1>3, FourCalls DEF Threads!Code, Threads!Ex02, Threads!Two
<1>5. ThreadListFacts("ex02", "t1", Threads!Code["ex02"]["t1"])
  BY <1>2, <1>3, FiveCalls DEF Threads!Code, Threads!Ex02, Threads!Two
<1>6. ThreadListFacts("ex02", "t2", Threads!Code["ex02"]["t2"])
  BY <1>3, NoneCalled DEF Threads!Code, Threads!Ex02, Threads!Two
<1>7. ThreadListFacts("ex02", "t3", Threads!Code["ex02"]["t3"])
  BY <1>3, NoneCalled DEF Threads!Code, Threads!Ex02, Threads!Two
<1> QED
  BY <1>4, <1>5, <1>6, <1>7 DEF ThreadFactsOf, Threads!Thread

LEMMA Ex03Calls == ThreadFactsOf("ex03")
<1> USE DEF MainCalls, TextCalls, BlockCalls, CounterCalls, ThreadCallFacts,
          Workers, CreatedAt, JoinedAt,
          LastPlace, LockedAt, UnlockedAt, Counting, Blocking, Texting, Threads!Call, Threads!None,
          Threads!Create, Threads!Detach, Threads!Exit, Threads!Join, Threads!Pause,
          Threads!Printf, Threads!Sleep
<1>1. /\ ThreadCallFacts("ex03", "main", 1, Threads!Create("t1"))
      /\ ThreadCallFacts("ex03", "main", 2, Threads!Detach("t1"))
      /\ ThreadCallFacts("ex03", "main", 3, Threads!Pause)
      /\ ThreadCallFacts("ex03", "main", 4, Threads!Join("t1"))
  OBVIOUS
<1>2. /\ ThreadCallFacts("ex03", "t1", 1, Threads!Printf)
      /\ ThreadCallFacts("ex03", "t1", 2, Threads!Sleep)
      /\ ThreadCallFacts("ex03", "t1", 3, Threads!Exit("text"))
  OBVIOUS
<1>3. /\ LastPlace("ex03", "main") = 4
      /\ LastPlace("ex03", "t1") = 3
      /\ LastPlace("ex03", "t2") = 0
      /\ LastPlace("ex03", "t3") = 0
  OBVIOUS
<1> HIDE DEF MainCalls, TextCalls, BlockCalls, CounterCalls, ThreadCallFacts,
          Workers, CreatedAt, JoinedAt,
          LastPlace, LockedAt, UnlockedAt, Counting, Blocking, Texting, Threads!Call, Threads!None,
          Threads!Create, Threads!Detach, Threads!Exit, Threads!Join, Threads!Pause,
          Threads!Printf, Threads!Sleep
<1>4. ThreadListFacts("ex03", "main", Threads!Code["ex03"]["main"])
  BY <1>1, <1>3, FourCalls DEF Threads!Code, Threads!Ex03, Threads!Two
<1>5. ThreadListFacts("ex03", "t1", Threads!Code["ex03"]["t1"])
  BY <1>2, <1>3, ThreeCalls DEF Threads!Code, Threads!Ex03, Threads!Two
<1>6. ThreadListFacts("ex03", "t2", Threads!Code["ex03"]["t2"])
  BY <1>3, NoneCalled DEF Threads!Code, Threads!Ex03, Threads!Two
<1>7. ThreadListFacts("ex03", "t3", Threads!Code["ex03"]["t3"])
  BY <1>3, NoneCalled DEF Threads!Code, Threads!Ex03, Threads!Two
<1> QED
  BY <1>4, <1>5, <1>6, <1>7 DEF ThreadFactsOf, Threads!Thread

LEMMA Ex04Calls == ThreadFactsOf("ex04")
<1> USE DEF MainCalls, TextCalls, BlockCalls, CounterCalls, ThreadCallFacts,
          Workers, CreatedAt, JoinedAt,
          LastPlace, LockedAt, UnlockedAt, Counting, Blocking, Texting, Threads!Call, Threads!None,
          Threads!Create, Threads!Exit, Threads!Join, Threads!Printf, Threads!Sleep
<1>1. /\ ThreadCallFacts("ex04", "main", 1, Threads!Create("t1"))
      /\ ThreadCallFacts("ex04", "main", 2, Threads!Join("t1"))
  OBVIOUS
<1>2. /\ ThreadCallFacts("ex04", "t1", 1, Threads!Printf)
      /\ ThreadCallFacts("ex04", "t1", 2, Threads!Sleep)
      /\ ThreadCallFacts("ex04", "t1", 3, Threads!Exit("text"))
  OBVIOUS
<1>3. /\ LastPlace("ex04", "main") = 2
      /\ LastPlace("ex04", "t1") = 3
      /\ LastPlace("ex04", "t2") = 0
      /\ LastPlace("ex04", "t3") = 0
  OBVIOUS
<1> HIDE DEF MainCalls, TextCalls, BlockCalls, CounterCalls, ThreadCallFacts,
          Workers, CreatedAt, JoinedAt,
          LastPlace, LockedAt, UnlockedAt, Counting, Blocking, Texting, Threads!Call, Threads!None,
          Threads!Create, Threads!Exit, Threads!Join, Threads!Printf, Threads!Sleep
<1>4. ThreadListFacts("ex04", "main", Threads!Code["ex04"]["main"])
  BY <1>1, <1>3, TwoCalls DEF Threads!Code, Threads!Ex04, Threads!Two
<1>5. ThreadListFacts("ex04", "t1", Threads!Code["ex04"]["t1"])
  BY <1>2, <1>3, ThreeCalls DEF Threads!Code, Threads!Ex04, Threads!Two
<1>6. ThreadListFacts("ex04", "t2", Threads!Code["ex04"]["t2"])
  BY <1>3, NoneCalled DEF Threads!Code, Threads!Ex04, Threads!Two
<1>7. ThreadListFacts("ex04", "t3", Threads!Code["ex04"]["t3"])
  BY <1>3, NoneCalled DEF Threads!Code, Threads!Ex04, Threads!Two
<1> QED
  BY <1>4, <1>5, <1>6, <1>7 DEF ThreadFactsOf, Threads!Thread

LEMMA Ex08Calls == ThreadFactsOf("ex08")
<1> USE DEF MainCalls, TextCalls, BlockCalls, CounterCalls, ThreadCallFacts,
          Workers, CreatedAt, JoinedAt,
          LastPlace, LockedAt, UnlockedAt, Counting, Blocking, Texting, Threads!Call, Threads!None,
          Threads!Create, Threads!Exit, Threads!Free, Threads!Join, Threads!Malloc, Threads!Pop,
          Threads!Printf, Threads!Push, Threads!Sleep
<1>1. /\ ThreadCallFacts("ex08", "main", 1, Threads!Create("t1"))
      /\ ThreadCallFacts("ex08", "main", 2, Threads!Join("t1"))
  OBVIOUS
<1>2. /\ ThreadCallFacts("ex08", "t1", 1, Threads!Malloc)
      /\ ThreadCallFacts("ex08", "t1", 2, Threads!Printf)
      /\ ThreadCallFacts("ex08", "t1", 3, Threads!Push)
      /\ ThreadCallFacts("ex08", "t1", 4, Threads!Sleep)
      /\ ThreadCallFacts("ex08", "t1", 5, Threads!Pop)
      /\ ThreadCallFacts("ex08", "t1", 6, Threads!Free)
      /\ ThreadCallFacts("ex08", "t1", 7, Threads!Printf)
      /\ ThreadCallFacts("ex08", "t1", 8, Threads!Exit(Threads!None))
  OBVIOUS
<1>3. /\ LastPlace("ex08", "main") = 2
      /\ LastPlace("ex08", "t1") = 8
      /\ LastPlace("ex08", "t2") = 0
      /\ LastPlace("ex08", "t3") = 0
  OBVIOUS
<1> HIDE DEF MainCalls, TextCalls, BlockCalls, CounterCalls, ThreadCallFacts,
          Workers, CreatedAt, JoinedAt,
          LastPlace, LockedAt, UnlockedAt, Counting, Blocking, Texting, Threads!Call, Threads!None,
          Threads!Create, Threads!Exit, Threads!Free, Threads!Join, Threads!Malloc, Threads!Pop,
          Threads!Printf, Threads!Push, Threads!Sleep
<1>4. ThreadListFacts("ex08", "main", Threads!Code["ex08"]["main"])
  BY <1>1, <1>3, TwoCalls DEF Threads!Code, Threads!Ex08, Threads!Two, Threads!Ex08Thread
<1>5. ThreadListFacts("ex08", "t1", Threads!Code["ex08"]["t1"])
  BY <1>2, <1>3, EightCalls DEF Threads!Code, Threads!Ex08, Threads!Two, Threads!Ex08Thread
<1>6. ThreadListFacts("ex08", "t2", Threads!Code["ex08"]["t2"])
  BY <1>3, NoneCalled DEF Threads!Code, Threads!Ex08, Threads!Two, Threads!Ex08Thread
<1>7. ThreadListFacts("ex08", "t3", Threads!Code["ex08"]["t3"])
  BY <1>3, NoneCalled DEF Threads!Code, Threads!Ex08, Threads!Two, Threads!Ex08Thread
<1> QED
  BY <1>4, <1>5, <1>6, <1>7 DEF ThreadFactsOf, Threads!Thread

LEMMA Ex08CleanupCalls == ThreadFactsOf("ex08_cleanup")
<1> USE DEF MainCalls, TextCalls, BlockCalls, CounterCalls, ThreadCallFacts,
          Workers, CreatedAt, JoinedAt,
          LastPlace, LockedAt, UnlockedAt, Counting, Blocking, Texting, Threads!Call, Threads!None,
          Threads!Cancel, Threads!Create, Threads!Exit, Threads!Free, Threads!Join, Threads!Malloc,
          Threads!Pop, Threads!Printf, Threads!Push, Threads!Sleep
<1>1. /\ ThreadCallFacts("ex08_cleanup", "main", 1, Threads!Create("t1"))
      /\ ThreadCallFacts("ex08_cleanup", "main", 2, Threads!Sleep)
      /\ ThreadCallFacts("ex08_cleanup", "main", 3, Threads!Cancel("t1"))
      /\ ThreadCallFacts("ex08_cleanup", "main", 4, Threads!Join("t1"))
  OBVIOUS
<1>2. /\ ThreadCallFacts("ex08_cleanup", "t1", 1, Threads!Malloc)
      /\ ThreadCallFacts("ex08_cleanup", "t1", 2, Threads!Printf)
      /\ ThreadCallFacts("ex08_cleanup", "t1", 3, Threads!Push)
      /\ ThreadCallFacts("ex08_cleanup", "t1", 4, Threads!Sleep)
      /\ ThreadCallFacts("ex08_cleanup", "t1", 5, Threads!Pop)
      /\ ThreadCallFacts("ex08_cleanup", "t1", 6, Threads!Free)
      /\ ThreadCallFacts("ex08_cleanup", "t1", 7, Threads!Printf)
      /\ ThreadCallFacts("ex08_cleanup", "t1", 8, Threads!Exit(Threads!None))
  OBVIOUS
<1>3. /\ LastPlace("ex08_cleanup", "main") = 4
      /\ LastPlace("ex08_cleanup", "t1") = 8
      /\ LastPlace("ex08_cleanup", "t2") = 0
      /\ LastPlace("ex08_cleanup", "t3") = 0
  OBVIOUS
<1> HIDE DEF MainCalls, TextCalls, BlockCalls, CounterCalls, ThreadCallFacts,
          Workers, CreatedAt, JoinedAt,
          LastPlace, LockedAt, UnlockedAt, Counting, Blocking, Texting, Threads!Call, Threads!None,
          Threads!Cancel, Threads!Create, Threads!Exit, Threads!Free, Threads!Join, Threads!Malloc,
          Threads!Pop, Threads!Printf, Threads!Push, Threads!Sleep
<1>4. ThreadListFacts("ex08_cleanup", "main", Threads!Code["ex08_cleanup"]["main"])
  BY <1>1, <1>3, FourCalls DEF Threads!Code, Threads!Ex08Cleanup, Threads!Two, Threads!Ex08Thread
<1>5. ThreadListFacts("ex08_cleanup", "t1", Threads!Code["ex08_cleanup"]["t1"])
  BY <1>2, <1>3, EightCalls DEF Threads!Code, Threads!Ex08Cleanup, Threads!Two, Threads!Ex08Thread
<1>6. ThreadListFacts("ex08_cleanup", "t2", Threads!Code["ex08_cleanup"]["t2"])
  BY <1>3, NoneCalled DEF Threads!Code, Threads!Ex08Cleanup, Threads!Two, Threads!Ex08Thread
<1>7. ThreadListFacts("ex08_cleanup", "t3", Threads!Code["ex08_cleanup"]["t3"])
  BY <1>3, NoneCalled DEF Threads!Code, Threads!Ex08Cleanup, Threads!Two, Threads!Ex08Thread
<1> QED
  BY <1>4, <1>5, <1>6, <1>7 DEF ThreadFactsOf, Threads!Thread

LEMMA Ex05Calls == ThreadFactsOf("ex05")
<1> USE DEF MainCalls, TextCalls, BlockCalls, CounterCalls, ThreadCallFacts,
          Workers, CreatedAt, JoinedAt,
          LastPlace, LockedAt, UnlockedAt, Counting, Blocking, Texting, Threads!Call, Threads!None,
          Threads!Again, Threads!Create, Threads!Exit, Threads!Join, Threads!Load, Threads!Lock,
          Threads!Store, Threads!Unlock
<1>1. /\ ThreadCallFacts("ex05", "main", 1, Threads!Create("t1"))
      /\ ThreadCallFacts("ex05", "main", 2, Threads!Create("t2"))
      /\ ThreadCallFacts("ex05", "main", 3, Threads!Join("t1"))
      /\ ThreadCallFacts("ex05", "main", 4, Threads!Join("t2"))
  OBVIOUS
<1>2. /\ ThreadCallFacts("ex05", "t1", 1, Threads!Lock)
      /\ ThreadCallFacts("ex05", "t1", 2, Threads!Load)
      /\ ThreadCallFacts("ex05", "t1", 3, Threads!Store)
      /\ ThreadCallFacts("ex05", "t1", 4, Threads!Unlock)
      /\ ThreadCallFacts("ex05", "t1", 5, Threads!Again(1))
      /\ ThreadCallFacts("ex05", "t1", 6, Threads!Exit(Threads!None))
  OBVIOUS
<1>3. /\ ThreadCallFacts("ex05", "t2", 1, Threads!Lock)
      /\ ThreadCallFacts("ex05", "t2", 2, Threads!Load)
      /\ ThreadCallFacts("ex05", "t2", 3, Threads!Store)
      /\ ThreadCallFacts("ex05", "t2", 4, Threads!Unlock)
      /\ ThreadCallFacts("ex05", "t2", 5, Threads!Again(1))
      /\ ThreadCallFacts("ex05", "t2", 6, Threads!Exit(Threads!None))
  OBVIOUS
<1>4. /\ LastPlace("ex05", "main") = 4
      /\ LastPlace("ex05", "t1") = 6
      /\ LastPlace("ex05", "t2") = 6
      /\ LastPlace("ex05", "t3") = 0
  OBVIOUS
<1> HIDE DEF MainCalls, TextCalls, BlockCalls, CounterCalls, ThreadCallFacts,
          Workers, CreatedAt, JoinedAt,
          LastPlace, LockedAt, UnlockedAt, Counting, Blocking, Texting, Threads!Call, Threads!None,
          Threads!Again, Threads!Create, Threads!Exit, Threads!Join, Threads!Load, Threads!Lock,
          Threads!Store, Threads!Unlock
<1>5. ThreadListFacts("ex05", "main", Threads!Code["ex05"]["main"])
  BY <1>1, <1>4, FourCalls DEF Threads!Code, Threads!Ex05, Threads!Ex05Thread
<1>6. ThreadListFacts("ex05", "t1", Threads!Code["ex05"]["t1"])
  BY <1>2, <1>4, SixCalls DEF Threads!Code, Threads!Ex05, Threads!Ex05Thread
<1>7. ThreadListFacts("ex05", "t2", Threads!Code["ex05"]["t2"])
  BY <1>3, <1>4, SixCalls DEF Threads!Code, Threads!Ex05, Threads!Ex05Thread
<1>8. ThreadListFacts("ex05", "t3", Threads!Code["ex05"]["t3"])
  BY <1>4, NoneCalled DEF Threads!Code, Threads!Ex05, Threads!Ex05Thread
<1> QED
  BY <1>5, <1>6, <1>7, <1>8 DEF ThreadFactsOf, Threads!Thread

LEMMA ExerciseCalls == ThreadFactsOf("exercise")
<1> USE DEF MainCalls, TextCalls, BlockCalls, CounterCalls, ThreadCallFacts,
          Workers, CreatedAt, JoinedAt,
          LastPlace, LockedAt, UnlockedAt, Counting, Blocking, Texting, Threads!Call, Threads!None,
          Threads!Again, Threads!CreateBlindly, Threads!Exit, Threads!Join, Threads!Load,
          Threads!Lock, Threads!Pop, Threads!Printf, Threads!Push, Threads!Sleep, Threads!Store,
          Threads!Unlock
<1>1. /\ ThreadCallFacts("exercise", "main", 1, Threads!CreateBlindly("t1"))
      /\ ThreadCallFacts("exercise", "main", 2, Threads!CreateBlindly("t2"))
      /\ ThreadCallFacts("exercise", "main", 3, Threads!CreateBlindly("t3"))
      /\ ThreadCallFacts("exercise", "main", 4, Threads!Join("t1"))
      /\ ThreadCallFacts("exercise", "main", 5, Threads!Join("t2"))
      /\ ThreadCallFacts("exercise", "main", 6, Threads!Join("t3"))
  OBVIOUS
<1>2. /\ ThreadCallFacts("exercise", "t1", 1, Threads!Push)
      /\ ThreadCallFacts("exercise", "t1", 2, Threads!Lock)
      /\ ThreadCallFacts("exercise", "t1", 3, Threads!Load)
      /\ ThreadCallFacts("exercise", "t1", 4, Threads!Store)
      /\ ThreadCallFacts("exercise", "t1", 5, Threads!Printf)
      /\ ThreadCallFacts("exercise", "t1", 6, Threads!Sleep)
      /\ ThreadCallFacts("exercise", "t1", 7, Threads!Unlock)
      /\ ThreadCallFacts("exercise", "t1", 8, Threads!Again(2))
      /\ ThreadCallFacts("exercise", "t1", 9, Threads!Pop)
      /\ ThreadCallFacts("exercise", "t1", 10, Threads!Exit(Threads!None))
  OBVIOUS
<1>3. /\ ThreadCallFacts("exercise", "t2", 1, Threads!Push)
      /\ ThreadCallFacts("exercise", "t2", 2, Threads!Lock)
      /\ ThreadCallFacts("exercise", "t2", 3, Threads!Load)
      /\ ThreadCallFacts("exercise", "t2", 4, Threads!Store)
      /\ ThreadCallFacts("exercise", "t2", 5, Threads!Printf)
      /\ ThreadCallFacts("exercise", "t2", 6, Threads!Sleep)
      /\ ThreadCallFacts("exercise", "t2", 7, Threads!Unlock)
      /\ ThreadCallFacts("exercise", "t2", 8, Threads!Again(2))
      /\ ThreadCallFacts("exercise", "t2", 9, Threads!Pop)
      /\ ThreadCallFacts("exercise", "t2", 10, Threads!Exit(Threads!None))
  OBVIOUS
<1>4. /\ ThreadCallFacts("exercise", "t3", 1, Threads!Push)
      /\ ThreadCallFacts("exercise", "t3", 2, Threads!Lock)
      /\ ThreadCallFacts("exercise", "t3", 3, Threads!Load)
      /\ ThreadCallFacts("exercise", "t3", 4, Threads!Store)
      /\ ThreadCallFacts("exercise", "t3", 5, Threads!Printf)
      /\ ThreadCallFacts("exercise", "t3", 6, Threads!Sleep)
      /\ ThreadCallFacts("exercise", "t3", 7, Threads!Unlock)
      /\ ThreadCallFacts("exercise", "t3", 8, Threads!Again(2))
      /\ ThreadCallFacts("exercise", "t3", 9, Threads!Pop)
      /\ ThreadCallFacts("exercise", "t3", 10, Threads!Exit(Threads!None))
  OBVIOUS
<1>5. /\ LastPlace("exercise", "main") = 6
      /\ LastPlace("exercise", "t1") = 10
      /\ LastPlace("exercise", "t2") = 10
      /\ LastPlace("exercise", "t3") = 10
  OBVIOUS
<1> HIDE DEF MainCalls, TextCalls, BlockCalls, CounterCalls, ThreadCallFacts,
          Workers, CreatedAt, JoinedAt,
          LastPlace, LockedAt, UnlockedAt, Counting, Blocking, Texting, Threads!Call, Threads!None,
          Threads!Again, Threads!CreateBlindly, Threads!Exit, Threads!Join, Threads!Load,
          Threads!Lock, Threads!Pop, Threads!Printf, Threads!Push, Threads!Sleep, Threads!Store,
          Threads!Unlock
<1>6. ThreadListFacts("exercise", "main", Threads!Code["exercise"]["main"])
  BY <1>1, <1>5, SixCalls DEF Threads!Code, Threads!Exercise, Threads!ExerciseThread
<1>7. ThreadListFacts("exercise", "t1", Threads!Code["exercise"]["t1"])
  BY <1>2, <1>5, TenCalls DEF Threads!Code, Threads!Exercise, Threads!ExerciseThread
<1>8. ThreadListFacts("exercise", "t2", Threads!Code["exercise"]["t2"])
  BY <1>3, <1>5, TenCalls DEF Threads!Code, Threads!Exercise, Threads!ExerciseThread
<1>9. ThreadListFacts("exercise", "t3", Threads!Code["exercise"]["t3"])
  BY <1>4, <1>5, TenCalls DEF Threads!Code, Threads!Exercise, Threads!ExerciseThread
<1> QED
  BY <1>6, <1>7, <1>8, <1>9 DEF ThreadFactsOf, Threads!Thread

LEMMA ThreadFacts == \A g \in ThreadPrograms : ThreadFactsOf(g)
  BY Ex01Calls, Ex02Calls, Ex03Calls, Ex04Calls, Ex05Calls, Ex08Calls, Ex08CleanupCalls,
     ExerciseCalls DEF ThreadPrograms

\* The call a thread is at.
LEMMA ThreadCall ==
  ASSUME ThreadPlaces, NEW t \in Threads!Thread, NEW o, Threads!At(t, o)
  PROVE  /\ ThreadCallFacts(progT, t, pcT[t], codeT[t][pcT[t]])
         /\ codeT[t][pcT[t]].op = o /\ pcT[t] \in 1..LastPlace(progT, t) /\ statusT = "run"
         /\ Len(codeT[t]) = LastPlace(progT, t) /\ LastPlace(progT, t) \in Nat
<1>1. ThreadListFacts(progT, t, codeT[t])
  BY ThreadFacts DEF ThreadPlaces, ThreadFactsOf
<1>2. LastPlace(progT, t) \in Nat
  BY DEF LastPlace
<1>3. pcT[t] \in 1..LastPlace(progT, t)
  BY <1>1, <1>2 DEF ThreadPlaces, ThreadListFacts, Threads!At, Threads!Created, Threads!Ended,
                    Threads!Calls
<1> QED
  BY <1>1, <1>2, <1>3 DEF ThreadListFacts, Threads!At, Threads!Calls

LEMMA PlaceFacts ==
  ASSUME ThreadPlaces
  PROVE  /\ \A t \in Threads!Thread : LastPlace(progT, t) \in Nat /\ pcT[t] \in Nat
         /\ "main" \in Threads!Thread /\ Worker = Threads!Thread \ {"main"}
         /\ Workers(progT) \subseteq Worker
         /\ \A t : CreatedAt(t) \in 1..3
         /\ \A t : JoinedAt(progT, t) \in 2..6
         /\ \A t \in Workers(progT) : JoinedAt(progT, t) >= JoinedAt(progT, "t1")
         /\ \A t \in Workers(progT) : CreatedAt(t) < JoinedAt(progT, t)
         /\ \A t \in Workers(progT) : JoinedAt(progT, t) <= LastPlace(progT, "main")
  BY DEF ThreadPlaces, LastPlace, Workers, Worker, CreatedAt, JoinedAt, Threads!Thread

\* A worker goes from one of its calls to another, or to its end.
LEMMA WorkerMoves ==
  ASSUME ThreadPlaces, NEW t \in Worker, pcT[t] \in 1..LastPlace(progT, t),
         NEW k \in 1..(LastPlace(progT, t) + 1), pcT' = [pcT EXCEPT ![t] = k],
         UNCHANGED <<progT, codeT, statusT>>
  PROVE  ThreadPlaces'
<1>1. /\ pcT' \in [Threads!Thread -> Nat] /\ pcT'[t] = k
      /\ \A q \in Threads!Thread \ {t} : pcT'[q] = pcT[q]
      /\ pcT'["main"] = pcT["main"] /\ t \in Threads!Thread
  BY PlaceFacts DEF ThreadPlaces
<1>2. \A q \in Threads!Thread : pcT'[q] <= LastPlace(progT, q) + 1
  BY <1>1, PlaceFacts DEF ThreadPlaces
<1>3. \A q \in Worker : pcT'[q] # 0 => q \in Workers(progT) /\ pcT["main"] > CreatedAt(q)
  BY <1>1, PlaceFacts DEF ThreadPlaces
<1>4. \A q \in Workers(progT) : pcT["main"] > JoinedAt(progT, q) =>
        pcT'[q] \in {0, LastPlace(progT, q) + 1}
  BY <1>1, PlaceFacts DEF ThreadPlaces
<1>5. progT # "exercise" /\ pcT["main"] > 1 => pcT'["t1"] # 0
  BY <1>1 DEF ThreadPlaces, Threads!Thread
<1> QED
  BY <1>1, <1>2, <1>3, <1>4, <1>5 DEF ThreadPlaces

\* main goes on, and may create a thread.
LEMMA MainMoves ==
  ASSUME ThreadPlaces, pcT["main"] \in 1..LastPlace(progT, "main"),
         statusT = "run", statusT' \in {"run", "crash"},
         statusT' = "crash" => pcT["main"] >= JoinedAt(progT, "t1"),
         UNCHANGED <<progT, codeT>>,
         \A q \in Workers(progT) : pcT["main"] = JoinedAt(progT, q) =>
           pcT[q] \in {0, LastPlace(progT, q) + 1},
         \/ /\ pcT' = [pcT EXCEPT !["main"] = pcT["main"] + 1]
            /\ pcT["main"] # 1 \/ progT = "exercise"
         \/ \E a \in Workers(progT) :
              /\ pcT["main"] = CreatedAt(a)
              /\ pcT' = [pcT EXCEPT !["main"] = pcT["main"] + 1, ![a] = 1]
  PROVE  ThreadPlaces'
<1>1. CASE /\ pcT' = [pcT EXCEPT !["main"] = pcT["main"] + 1]
           /\ pcT["main"] # 1 \/ progT = "exercise"
  <2>1. /\ pcT' \in [Threads!Thread -> Nat] /\ pcT'["main"] = pcT["main"] + 1
        /\ \A q \in Worker : pcT'[q] = pcT[q]
    BY <1>1, PlaceFacts DEF ThreadPlaces
  <2>2. \A q \in Threads!Thread : pcT'[q] <= LastPlace(progT, q) + 1
    BY <2>1, PlaceFacts DEF ThreadPlaces
  <2>3. \A q \in Worker : pcT'[q] # 0 => q \in Workers(progT) /\ pcT'["main"] > CreatedAt(q)
    BY <2>1, PlaceFacts DEF ThreadPlaces
  <2>4. \A q \in Workers(progT) : pcT'["main"] > JoinedAt(progT, q) =>
          pcT'[q] \in {0, LastPlace(progT, q) + 1}
    BY <2>1, PlaceFacts DEF ThreadPlaces
  <2>5. progT # "exercise" /\ pcT'["main"] > 1 => pcT'["t1"] # 0
    BY <1>1, <2>1, PlaceFacts DEF ThreadPlaces, Worker
  <2>6. statusT' = "crash" => pcT'["main"] > JoinedAt(progT, "t1")
    BY <2>1, PlaceFacts
  <2> QED
    BY <2>1, <2>2, <2>3, <2>4, <2>5, <2>6 DEF ThreadPlaces
<1>2. ASSUME NEW a \in Workers(progT), pcT["main"] = CreatedAt(a),
             pcT' = [pcT EXCEPT !["main"] = pcT["main"] + 1, ![a] = 1]
      PROVE  ThreadPlaces'
  <2>1. /\ pcT' \in [Threads!Thread -> Nat] /\ pcT'["main"] = pcT["main"] + 1 /\ pcT'[a] = 1
        /\ \A q \in Worker \ {a} : pcT'[q] = pcT[q]
    BY <1>2, PlaceFacts DEF ThreadPlaces
  <2>2. \A q \in Threads!Thread : pcT'[q] <= LastPlace(progT, q) + 1
    <3>1. pcT'[a] <= LastPlace(progT, a) + 1
      BY <2>1, PlaceFacts
    <3> QED
      BY <2>1, <3>1, PlaceFacts DEF ThreadPlaces
  <2>3. \A q \in Worker : pcT'[q] # 0 => q \in Workers(progT) /\ pcT'["main"] > CreatedAt(q)
    BY <1>2, <2>1, PlaceFacts DEF ThreadPlaces
  <2>4. \A q \in Workers(progT) : pcT'["main"] > JoinedAt(progT, q) =>
          pcT'[q] \in {0, LastPlace(progT, q) + 1}
    <3>1. pcT'["main"] <= JoinedAt(progT, a)
      BY <1>2, <2>1, PlaceFacts
    <3> QED
      BY <2>1, <3>1, PlaceFacts DEF ThreadPlaces
  <2>5. progT # "exercise" /\ pcT'["main"] > 1 => pcT'["t1"] # 0
    BY <1>2, <2>1, PlaceFacts DEF ThreadPlaces, Worker, CreatedAt
  <2>6. statusT' = "crash" => pcT'["main"] > JoinedAt(progT, "t1")
    BY <2>1, PlaceFacts
  <2> QED
    BY <2>1, <2>2, <2>3, <2>4, <2>5, <2>6 DEF ThreadPlaces
<1> QED
  BY <1>1, <1>2

\* A call that only lets its thread go on.
LEMMA CallMoves ==
  ASSUME ThreadPlaces, NEW t \in Threads!Thread, NEW o, Threads!At(t, o),
         o \notin {"create", "createblindly", "join"},
         pcT' = [pcT EXCEPT ![t] = pcT[t] + 1], UNCHANGED <<progT, codeT, statusT>>
  PROVE  ThreadPlaces'
<1>1. /\ ThreadCallFacts(progT, t, pcT[t], codeT[t][pcT[t]])
      /\ codeT[t][pcT[t]].op = o /\ pcT[t] \in 1..LastPlace(progT, t) /\ statusT = "run"
      /\ LastPlace(progT, t) \in Nat
  BY ThreadCall
<1>2. CASE t = "main"
  <2>1. pcT["main"] # 1 /\ \A q \in Workers(progT) : pcT["main"] # JoinedAt(progT, q)
    BY <1>1, <1>2 DEF ThreadCallFacts, MainCalls
  <2> QED
    BY <1>1, <1>2, <2>1, MainMoves
<1>3. CASE t # "main"
  <2>1. t \in Worker /\ pcT[t] + 1 \in 1..(LastPlace(progT, t) + 1)
    BY <1>1, <1>3, PlaceFacts
  <2> QED
    BY <1>1, <2>1, WorkerMoves
<1> QED
  BY <1>2, <1>3

LEMMA CreatePlaces ==
  ASSUME ThreadPlaces, NEW t \in Threads!Thread, Threads!CreateCall(t)
  PROVE  /\ ThreadPlaces'
         /\ t = "main"
         /\ \/ \A q \in Worker : pcT'[q] = pcT[q]
            \/ \E a \in Worker : /\ pcT[a] = 0 /\ pcT'[a] = 1
                                 /\ \A q \in Worker \ {a} : pcT'[q] = pcT[q]
<1>1. PICK o \in {"create", "createblindly"} :
        /\ Threads!At(t, o)
        /\ \/ /\ pcT' = [pcT EXCEPT ![t] = pcT[t] + 1, ![codeT[t][pcT[t]].arg] = 1]
              /\ statusT' = statusT
           \/ statusT' = "error" /\ pcT' = pcT
           \/ /\ o = "createblindly" /\ pcT' = [pcT EXCEPT ![t] = pcT[t] + 1]
              /\ statusT' = statusT
  BY DEF Threads!CreateCall, Threads!Goes, Threads!Argument, Threads!Calls
<1>2. /\ ThreadCallFacts(progT, t, pcT[t], codeT[t][pcT[t]])
      /\ codeT[t][pcT[t]].op = o /\ pcT[t] \in 1..LastPlace(progT, t) /\ statusT = "run"
      /\ LastPlace(progT, t) \in Nat
  BY <1>1, ThreadCall
<1>3. PICK a : a = codeT[t][pcT[t]].arg
  OBVIOUS
<1>4. /\ t = "main" /\ a \in Workers(progT) /\ pcT["main"] = CreatedAt(a)
      /\ o = "createblindly" => progT = "exercise"
      /\ \A q \in Workers(progT) : pcT["main"] # JoinedAt(progT, q)
  BY <1>1, <1>2, <1>3 DEF ThreadCallFacts, MainCalls
<1>5. UNCHANGED <<progT, codeT>>
  BY DEF Threads!CreateCall
<1>6. a \in Worker /\ pcT[a] = 0 /\ pcT \in [Threads!Thread -> Nat]
  BY <1>4, PlaceFacts DEF ThreadPlaces
<1>7. CASE /\ pcT' = [pcT EXCEPT ![t] = pcT[t] + 1, ![a] = 1] /\ statusT' = statusT
  <2>1. pcT'[a] = 1 /\ \A q \in Worker \ {a} : pcT'[q] = pcT[q]
    BY <1>4, <1>6, <1>7, PlaceFacts
  <2> QED
    BY <1>2, <1>4, <1>5, <1>6, <1>7, <2>1, MainMoves
<1>8. CASE statusT' = "error" /\ pcT' = pcT
  BY <1>2, <1>4, <1>5, <1>8 DEF ThreadPlaces
<1>9. CASE /\ o = "createblindly" /\ pcT' = [pcT EXCEPT ![t] = pcT[t] + 1]
           /\ statusT' = statusT
  <2>1. \A q \in Worker : pcT'[q] = pcT[q]
    BY <1>4, <1>6, <1>9, PlaceFacts
  <2> QED
    BY <1>2, <1>4, <1>5, <1>9, <2>1, MainMoves
<1> QED
  BY <1>1, <1>3, <1>7, <1>8, <1>9

LEMMA JoinPlaces ==
  ASSUME ThreadPlaces, NEW t \in Threads!Thread, Threads!JoinCall(t)
  PROVE  ThreadPlaces' /\ t = "main" /\ \A q \in Worker : pcT'[q] = pcT[q]
<1>1. /\ ThreadCallFacts(progT, t, pcT[t], codeT[t][pcT[t]])
      /\ codeT[t][pcT[t]].op = "join" /\ pcT[t] \in 1..LastPlace(progT, t) /\ statusT = "run"
      /\ LastPlace(progT, t) \in Nat
  BY ThreadCall DEF Threads!JoinCall
<1>2. PICK a : a = codeT[t][pcT[t]].arg
  OBVIOUS
<1>3. /\ t = "main" /\ a \in Workers(progT) /\ pcT["main"] = JoinedAt(progT, a)
      /\ pcT["main"] # 1
  BY <1>1, <1>2 DEF ThreadCallFacts, MainCalls
<1>4. /\ pcT[a] # 0 => pcT[a] = Len(codeT[a]) + 1
      /\ statusT' \in {statusT, "crash"} /\ pcT' = [pcT EXCEPT ![t] = pcT[t] + 1]
      /\ UNCHANGED <<progT, codeT>>
  BY <1>2 DEF Threads!JoinCall, Threads!Goes, Threads!Argument, Threads!Calls, Threads!Created,
              Threads!Ended
<1>5. Len(codeT[a]) = LastPlace(progT, a)
  BY <1>3, PlaceFacts, ThreadFacts DEF ThreadPlaces, ThreadFactsOf, ThreadListFacts
<1>6. \A q \in Workers(progT) : pcT["main"] = JoinedAt(progT, q) =>
        pcT[q] \in {0, LastPlace(progT, q) + 1}
  BY <1>1, <1>2, <1>3, <1>4, <1>5 DEF ThreadCallFacts, MainCalls
<1>7. pcT["main"] >= JoinedAt(progT, "t1")
  BY <1>3, PlaceFacts
<1>8. \A q \in Worker : pcT'[q] = pcT[q]
  BY <1>3, <1>4, PlaceFacts DEF ThreadPlaces
<1> QED
  BY <1>1, <1>3, <1>4, <1>6, <1>7, <1>8, MainMoves

LEMMA CancelPlaces ==
  ASSUME ThreadPlaces, ThreadTexts, NEW t \in Threads!Thread, Threads!CancelActs(t)
  PROVE  /\ ThreadPlaces' /\ t = "t1" /\ progT = "ex08_cleanup" /\ pcT["t1"] \in {2, 4, 7}
         /\ pcT'["t1"] = 9
<1>1. /\ t \in asked \ disabled /\ pcT' = [pcT EXCEPT ![t] = Len(codeT[t]) + 1]
      /\ UNCHANGED <<progT, codeT, statusT>>
  BY DEF Threads!CancelActs, Threads!Canceled, Threads!Calls
<1>2. PICK o \in {"sleep", "print"} : Threads!At(t, o)
  BY DEF Threads!CancelActs
<1>3. /\ ThreadCallFacts(progT, t, pcT[t], codeT[t][pcT[t]])
      /\ codeT[t][pcT[t]].op = o /\ pcT[t] \in 1..LastPlace(progT, t) /\ statusT = "run"
      /\ LastPlace(progT, t) \in Nat /\ Len(codeT[t]) = LastPlace(progT, t)
  BY <1>2, ThreadCall
<1>4. t = "t1" /\ progT \in {"ex02", "ex08_cleanup"} /\ t \in Worker /\ t # "main"
  BY <1>1 DEF ThreadTexts, Worker
<1>5. progT # "ex02"
  <2> SUFFICES ASSUME progT = "ex02" PROVE FALSE
    OBVIOUS
  <2>1. pcT["t1"] = 1
    BY <1>1, <1>3, <1>4 DEF ThreadTexts
  <2> QED
    BY <1>3, <1>4, <2>1 DEF ThreadCallFacts, TextCalls
<1>6. LastPlace(progT, t) = 8
  BY <1>4, <1>5 DEF LastPlace, Workers, Blocking
<1>7. pcT[t] \notin {1, 3, 5, 6, 8}
  BY <1>2, <1>3, <1>4, <1>5, <1>6 DEF ThreadCallFacts, BlockCalls, TextCalls, Blocking
<1>8. ThreadPlaces'
  <2>1. /\ LastPlace(progT, t) + 1 \in 1..(LastPlace(progT, t) + 1)
        /\ pcT' = [pcT EXCEPT ![t] = LastPlace(progT, t) + 1]
    BY <1>1, <1>3
  <2> QED
    BY <1>1, <1>3, <1>4, <2>1, WorkerMoves
<1> QED
  BY <1>1, <1>3, <1>4, <1>5, <1>6, <1>7, <1>8 DEF ThreadPlaces

LEMMA RepeatPlaces ==
  ASSUME ThreadPlaces, NEW t \in Threads!Thread, Threads!Repeat(t)
  PROVE  /\ ThreadPlaces' /\ t \in Worker /\ progT \in Counting
         /\ pcT[t] = UnlockedAt(progT) + 1
         /\ pcT' = [pcT EXCEPT ![t] = IF loops[t] + 1 < Threads!Loops THEN LockedAt(progT)
                                      ELSE UnlockedAt(progT) + 2]
<1>1. /\ ThreadCallFacts(progT, t, pcT[t], codeT[t][pcT[t]])
      /\ codeT[t][pcT[t]].op = "again" /\ pcT[t] \in 1..LastPlace(progT, t) /\ statusT = "run"
      /\ LastPlace(progT, t) \in Nat
  BY ThreadCall DEF Threads!Repeat
<1>2. /\ t # "main" /\ progT \in Counting /\ pcT[t] = UnlockedAt(progT) + 1
      /\ codeT[t][pcT[t]].arg = LockedAt(progT)
  BY <1>1 DEF ThreadCallFacts, CounterCalls
<1>3. /\ pcT' = [pcT EXCEPT ![t] = IF loops[t] + 1 < Threads!Loops THEN codeT[t][pcT[t]].arg
                                   ELSE pcT[t] + 1]
      /\ UNCHANGED <<progT, codeT, statusT>>
  BY DEF Threads!Repeat, Threads!Argument, Threads!Calls
<1>4. /\ UnlockedAt(progT) + 1 + 1 = UnlockedAt(progT) + 2
      /\ LockedAt(progT) \in 1..UnlockedAt(progT) /\ UnlockedAt(progT) \in Nat
  BY DEF LockedAt, UnlockedAt
<1>5. pcT' = [pcT EXCEPT ![t] = IF loops[t] + 1 < Threads!Loops THEN LockedAt(progT)
                                ELSE UnlockedAt(progT) + 2]
  BY <1>2, <1>3, <1>4
<1>6. t \in Worker
  BY <1>2, PlaceFacts
<1>7. PICK k : k = IF loops[t] + 1 < Threads!Loops THEN LockedAt(progT)
                   ELSE UnlockedAt(progT) + 2
  OBVIOUS
<1>8. k \in 1..(LastPlace(progT, t) + 1)
  BY <1>1, <1>2, <1>4, <1>7
<1>9. ThreadPlaces'
  BY <1>1, <1>3, <1>5, <1>6, <1>7, <1>8, WorkerMoves
<1> QED
  BY <1>2, <1>5, <1>6, <1>9

LEMMA TextsKept ==
  ASSUME ThreadTexts, UNCHANGED <<progT, result, disabled>>,
         asked' \subseteq {"t1"}, asked' # {} => progT \in {"ex02", "ex08_cleanup"},
         progT = "ex02" /\ pcT'["t1"] >= 2 => pcT["t1"] >= 2,
         progT \in Texting /\ pcT'["t1"] = LastPlace(progT, "t1") + 1 =>
           pcT["t1"] = LastPlace(progT, "t1") + 1
  PROVE  ThreadTexts'
  BY DEF ThreadTexts

\* A call that neither ends its thread nor disables cancellation.
LEMMA CallTexts ==
  ASSUME ThreadPlaces, ThreadTexts, NEW t \in Threads!Thread, NEW o, Threads!At(t, o),
         o \notin {"exit", "disable"}, pcT' = [pcT EXCEPT ![t] = pcT[t] + 1],
         UNCHANGED <<progT, result, disabled>>,
         asked' \subseteq {"t1"}, asked' # {} => progT \in {"ex02", "ex08_cleanup"}
  PROVE  ThreadTexts'
<1>1. /\ ThreadCallFacts(progT, t, pcT[t], codeT[t][pcT[t]])
      /\ codeT[t][pcT[t]].op = o /\ pcT[t] \in 1..LastPlace(progT, t)
  BY ThreadCall
<1>2. pcT \in [Threads!Thread -> Nat] /\ "t1" \in Threads!Thread
      /\ LastPlace(progT, "t1") \in Nat
  BY PlaceFacts DEF ThreadPlaces, Threads!Thread
<1>3. CASE t # "t1"
  <2>1. pcT'["t1"] = pcT["t1"]
    BY <1>2, <1>3
  <2> QED
    BY <2>1, TextsKept
<1>4. CASE t = "t1"
  <2>1. pcT'["t1"] = pcT["t1"] + 1 /\ pcT["t1"] \in Nat
    BY <1>2, <1>4
  <2>2. progT = "ex02" => pcT["t1"] # 1
    BY <1>1, <1>4 DEF ThreadCallFacts, TextCalls
  <2>3. pcT["t1"] # LastPlace(progT, "t1")
    BY <1>1, <1>4 DEF ThreadCallFacts, TextCalls
  <2>4. progT = "ex02" /\ pcT'["t1"] >= 2 => pcT["t1"] >= 2
    BY <1>1, <1>4, <2>1, <2>2
  <2>5. pcT'["t1"] # LastPlace(progT, "t1") + 1
    BY <1>2, <2>1, <2>3
  <2> QED
    BY <2>4, <2>5, TextsKept
<1> QED
  BY <1>3, <1>4

LEMMA CreateTexts ==
  ASSUME ThreadPlaces, ThreadTexts, NEW t \in Threads!Thread, Threads!CreateCall(t)
  PROVE  ThreadTexts'
<1>1. UNCHANGED <<progT, result, disabled, asked>>
  BY DEF Threads!CreateCall
<1>2. pcT'["t1"] = pcT["t1"] \/ pcT'["t1"] = 1
  BY CreatePlaces DEF Worker
<1>3. progT \in Texting => LastPlace(progT, "t1") \in 3..5
  BY DEF LastPlace, Texting, Workers, Blocking
<1> QED
  BY <1>1, <1>2, <1>3, TextsKept DEF ThreadTexts

LEMMA DisableTexts ==
  ASSUME ThreadPlaces, ThreadTexts, NEW t \in Threads!Thread, Threads!At(t, "disable"),
         pcT' = [pcT EXCEPT ![t] = pcT[t] + 1], disabled' = disabled \cup {t},
         UNCHANGED <<progT, result, asked>>
  PROVE  ThreadTexts'
<1>1. /\ ThreadCallFacts(progT, t, pcT[t], codeT[t][pcT[t]])
      /\ codeT[t][pcT[t]].op = "disable" /\ pcT[t] \in 1..LastPlace(progT, t)
  BY ThreadCall
<1>2. pcT \in [Threads!Thread -> Nat] /\ "t1" \in Threads!Thread
      /\ LastPlace(progT, "t1") \in Nat
  BY PlaceFacts DEF ThreadPlaces, Threads!Thread
<1>3. CASE t # "t1"
  <2>1. pcT'["t1"] = pcT["t1"]
    BY <1>2, <1>3
  <2> QED
    BY <2>1 DEF ThreadTexts
<1>4. CASE t = "t1"
  <2>1. pcT'["t1"] = pcT["t1"] + 1 /\ pcT["t1"] \in Nat
    BY <1>2, <1>4
  <2>2. pcT["t1"] # LastPlace(progT, "t1")
    BY <1>1, <1>4 DEF ThreadCallFacts, TextCalls
  <2>3. pcT'["t1"] # LastPlace(progT, "t1") + 1
    BY <1>2, <2>1, <2>2
  <2> QED
    BY <1>4, <2>3 DEF ThreadTexts
<1> QED
  BY <1>3, <1>4

LEMMA ExitTexts ==
  ASSUME ThreadPlaces, ThreadTexts, NEW t \in Threads!Thread, Threads!ExitCall(t)
  PROVE  ThreadTexts' /\ t \in Worker /\ pcT[t] = LastPlace(progT, t)
<1>1. /\ ThreadCallFacts(progT, t, pcT[t], codeT[t][pcT[t]])
      /\ codeT[t][pcT[t]].op = "exit" /\ pcT[t] \in 1..LastPlace(progT, t)
  BY ThreadCall DEF Threads!ExitCall
<1>2. PICK x : x = codeT[t][pcT[t]].arg
  OBVIOUS
<1>3. /\ t # "main" /\ pcT[t] = LastPlace(progT, t) /\ x \in {Threads!None, "text"}
      /\ progT \in Texting => x = "text"
  BY <1>1, <1>2 DEF ThreadCallFacts, TextCalls
<1>4. result' = [result EXCEPT ![t] = x] /\ pcT' = [pcT EXCEPT ![t] = pcT[t] + 1]
      /\ UNCHANGED <<progT, asked, disabled>>
  BY <1>2 DEF Threads!ExitCall, Threads!Argument, Threads!Calls, Threads!Goes
<1>5. t \in Worker
  BY <1>3, PlaceFacts
<1>6. pcT \in [Threads!Thread -> Nat] /\ "t1" \in Threads!Thread
      /\ result' \in [Threads!Thread -> {Threads!None, "text", "canceled"}]
  BY <1>3, <1>4 DEF ThreadPlaces, Threads!Thread, ThreadTexts
<1>7. CASE t # "t1"
  <2>1. pcT'["t1"] = pcT["t1"] /\ result'["t1"] = result["t1"]
    BY <1>4, <1>6, <1>7 DEF ThreadTexts
  <2> QED
    BY <1>3, <1>4, <1>5, <1>6, <2>1 DEF ThreadTexts
<1>8. CASE t = "t1"
  <2>1. pcT'["t1"] = pcT["t1"] + 1 /\ pcT["t1"] \in Nat /\ result'["t1"] = x
    BY <1>4, <1>6, <1>8 DEF ThreadTexts
  <2>2. progT = "ex02" => pcT["t1"] = 5
    BY <1>3, <1>8 DEF LastPlace, Workers, Blocking
  <2> QED
    BY <1>3, <1>4, <1>5, <1>6, <2>1, <2>2 DEF ThreadTexts
<1> QED
  BY <1>7, <1>8

\* A call that has nothing to do with the block.
LEMMA CallBlock ==
  ASSUME ThreadPlaces, ThreadBlock, NEW t \in Threads!Thread, NEW o, Threads!At(t, o),
         o \notin {"malloc", "push", "pop", "free"}, pcT' = [pcT EXCEPT ![t] = pcT[t] + 1],
         UNCHANGED <<progT, pushed, heap>>,
         result' = result \/ (t = "t1" /\ pcT["t1"] = LastPlace(progT, "t1"))
  PROVE  ThreadBlock'
<1>1. /\ ThreadCallFacts(progT, t, pcT[t], codeT[t][pcT[t]])
      /\ codeT[t][pcT[t]].op = o /\ pcT[t] \in 1..LastPlace(progT, t)
  BY ThreadCall
<1>2. pcT \in [Threads!Thread -> Nat] /\ "t1" \in Threads!Thread
      /\ (progT \in Blocking => LastPlace(progT, "t1") = 8)
  BY PlaceFacts DEF ThreadPlaces, Threads!Thread, LastPlace, Workers, Blocking
<1>3. CASE progT \notin Blocking
  BY <1>3 DEF ThreadBlock
<1>4. CASE progT \in Blocking /\ t # "t1"
  <2>1. pcT'["t1"] = pcT["t1"]
    BY <1>2, <1>4
  <2> QED
    BY <1>4, <2>1 DEF ThreadBlock
<1>5. CASE progT \in Blocking /\ t = "t1"
  <2>1. pcT'["t1"] = pcT["t1"] + 1 /\ pcT["t1"] \in 1..8
    BY <1>1, <1>2, <1>5
  <2>2. pcT["t1"] \in {2, 4, 7, 8}
    BY <1>1, <1>5, <2>1 DEF ThreadCallFacts, BlockCalls
  <2> QED
    BY <1>5, <2>1, <2>2 DEF ThreadBlock
<1> QED
  BY <1>3, <1>4, <1>5

LEMMA CreateBlock ==
  ASSUME ThreadPlaces, ThreadBlock, NEW t \in Threads!Thread, Threads!CreateCall(t)
  PROVE  ThreadBlock'
<1>1. UNCHANGED <<progT, pushed, heap, result>>
  BY DEF Threads!CreateCall
<1>2. pcT'["t1"] = pcT["t1"] \/ (pcT["t1"] = 0 /\ pcT'["t1"] = 1)
  BY CreatePlaces DEF Worker
<1> QED
  BY <1>1, <1>2 DEF ThreadBlock

LEMMA OwnBlock ==
  ASSUME ThreadPlaces, ThreadBlock, NEW t \in Threads!Thread,
         NEW o \in {"push", "pop", "malloc", "free"}, Threads!At(t, o),
         o = "push" => pushed' = pushed \cup {t} /\ heap' = heap,
         o = "pop" => pushed' = pushed \ {t} /\ heap' = heap,
         o = "malloc" => heap' = "held" /\ pushed' = pushed,
         o = "free" => heap' = Threads!Freed /\ pushed' = pushed,
         pcT' = [pcT EXCEPT ![t] = pcT[t] + 1], UNCHANGED <<progT, result>>
  PROVE  ThreadBlock'
<1>1. /\ ThreadCallFacts(progT, t, pcT[t], codeT[t][pcT[t]])
      /\ codeT[t][pcT[t]].op = o /\ pcT[t] \in 1..LastPlace(progT, t)
  BY ThreadCall
<1>2. pcT \in [Threads!Thread -> Nat] /\ "t1" \in Threads!Thread
      /\ (progT \in Blocking => LastPlace(progT, "t1") = 8)
  BY PlaceFacts DEF ThreadPlaces, Threads!Thread, LastPlace, Workers, Blocking
<1>3. t # "main" /\ t \in Worker
  BY <1>1, PlaceFacts DEF ThreadCallFacts, BlockCalls
<1>4. CASE progT \notin Blocking
  <2>1. o \in {"push", "pop"} /\ progT = "exercise"
    BY <1>1, <1>4 DEF ThreadCallFacts, BlockCalls
  <2> QED
    BY <1>3, <1>4, <2>1 DEF ThreadBlock
<1>5. CASE progT \in Blocking
  <2>1. t = "t1"
    <3>1. Workers(progT) = {"t1"}
      BY <1>5 DEF Workers, Blocking
    <3> QED
      BY <1>1, <1>3, <3>1 DEF ThreadPlaces
  <2>2. pcT'["t1"] = pcT["t1"] + 1
    BY <1>2, <2>1
  <2>3. CASE o = "malloc"
    <3>1. pcT["t1"] = 1
      BY <1>1, <1>3, <1>5, <2>1, <2>3 DEF ThreadCallFacts, BlockCalls
    <3> QED
      BY <1>5, <2>2, <2>3, <3>1 DEF ThreadBlock
  <2>4. CASE o = "push"
    <3>1. pcT["t1"] = 3
      BY <1>1, <1>3, <1>5, <2>1, <2>4 DEF ThreadCallFacts, BlockCalls
    <3>2. pushed = {} /\ heap = "held"
      BY <1>5, <3>1 DEF ThreadBlock
    <3>3. pushed' = {"t1"} /\ heap' = "held" /\ pcT'["t1"] = 4
      BY <2>1, <2>2, <2>4, <3>1, <3>2
    <3> QED
      BY <1>5, <3>3 DEF ThreadBlock, Worker
  <2>5. CASE o = "pop"
    <3>1. pcT["t1"] = 5
      BY <1>1, <1>3, <1>5, <2>1, <2>5 DEF ThreadCallFacts, BlockCalls
    <3> QED
      BY <1>3, <1>5, <2>1, <2>2, <2>5, <3>1 DEF ThreadBlock
  <2>6. CASE o = "free"
    <3>1. pcT["t1"] = 6
      BY <1>1, <1>3, <1>5, <2>1, <2>6 DEF ThreadCallFacts, BlockCalls
    <3> QED
      BY <1>5, <2>2, <2>6, <3>1 DEF ThreadBlock, Threads!Freed
  <2> QED
    BY <2>3, <2>4, <2>5, <2>6
<1> QED
  BY <1>4, <1>5

\* The cancellation of ex08.c acts: the handler frees the block exactly when it is in place.
LEMMA CancelInv ==
  ASSUME ThreadPlaces, ThreadTexts, ThreadBlock, NEW t \in Threads!Thread,
         Threads!CancelActs(t)
  PROVE  ThreadTexts' /\ ThreadBlock'
<1>1. /\ t = "t1" /\ progT = "ex08_cleanup" /\ pcT["t1"] \in {2, 4, 7}
      /\ pcT'["t1"] = 9
  BY CancelPlaces
<1>2. /\ result' = [result EXCEPT ![t] = "canceled"] /\ pushed' = pushed \ {t}
      /\ heap' = IF t \in pushed THEN Threads!Freed ELSE heap
      /\ UNCHANGED <<progT, asked, disabled>>
  BY DEF Threads!CancelActs
<1>3. /\ result' \in [Threads!Thread -> {Threads!None, "text", "canceled"}]
      /\ result'["t1"] = "canceled"
  BY <1>1, <1>2 DEF ThreadTexts
<1>4. ThreadTexts'
  BY <1>1, <1>2, <1>3 DEF ThreadTexts, Texting
<1>5. ThreadBlock'
  BY <1>1, <1>2, <1>3 DEF ThreadBlock, Threads!Freed, Blocking
<1> QED
  BY <1>4, <1>5

LEMMA MutexPlaces ==
  ASSUME NEW g
  PROVE  /\ LockedAt(g) \in 1..2 /\ UnlockedAt(g) \in Nat
         /\ LockedAt(g) + 3 <= UnlockedAt(g)
         /\ g \in Counting => \A t \in Workers(g) : LastPlace(g, t) > UnlockedAt(g) + 1
         /\ Threads!Loops \in {5, 10}
  BY DEF LockedAt, UnlockedAt, LastPlace, Workers, Counting, Blocking, Threads!Loops

LEMMA IncrementsAreNumbers ==
  ASSUME ThreadPlaces, ThreadCounter
  PROVE  Increments \in [Worker -> Nat]
<1>1. \A t \in Worker : loops[t] \in Nat
  BY DEF ThreadCounter, Worker, Threads!Thread
<1>2. \A t \in Worker :
        loops[t] + (IF pcT[t] \in (LockedAt(progT) + 3)..(UnlockedAt(progT) + 1) THEN 1 ELSE 0)
          \in Nat
  <2> SUFFICES ASSUME NEW t \in Worker
               PROVE  loops[t] + (IF pcT[t] \in (LockedAt(progT) + 3)..(UnlockedAt(progT) + 1)
                                  THEN 1 ELSE 0) \in Nat
    OBVIOUS
  <2>1. PICK n \in {0, 1} :
          n = IF pcT[t] \in (LockedAt(progT) + 3)..(UnlockedAt(progT) + 1) THEN 1 ELSE 0
    OBVIOUS
  <2> QED
    BY <1>1, <2>1
<1> QED
  BY <1>2 DEF Increments

LEMMA SumOfThree ==
  ASSUME NEW f \in [Worker -> Nat], NEW h \in [Worker -> Nat], NEW t \in Worker,
         \A q \in Worker \ {t} : h[q] = f[q]
  PROVE  h["t1"] + h["t2"] + h["t3"] = f["t1"] + f["t2"] + f["t3"] - f[t] + h[t]
<1>1. /\ f["t1"] \in Nat /\ f["t2"] \in Nat /\ f["t3"] \in Nat
      /\ h["t1"] \in Nat /\ h["t2"] \in Nat /\ h["t3"] \in Nat
  BY DEF Worker
<1>2. CASE t = "t1"
  BY <1>1, <1>2 DEF Worker
<1>3. CASE t = "t2"
  BY <1>1, <1>3 DEF Worker
<1>4. CASE t = "t3"
  BY <1>1, <1>4 DEF Worker
<1> QED
  BY <1>2, <1>3, <1>4 DEF Worker

\* The counter is not touched, and no worker moves but one that is created.
LEMMA OthersCount ==
  ASSUME ThreadPlaces, ThreadCounter, UNCHANGED <<progT, loops, temp, count, holder>>,
         \/ \A q \in Worker : pcT'[q] = pcT[q]
         \/ \E a \in Worker : /\ pcT[a] = 0 /\ pcT'[a] = 1
                              /\ \A q \in Worker \ {a} : pcT'[q] = pcT[q]
  PROVE  ThreadCounter'
<1>1. \A q \in Worker : pcT'[q] = pcT[q] \/ (pcT[q] = 0 /\ pcT'[q] = 1)
  OBVIOUS
<1>2. Increments' = Increments
  <2> SUFFICES \A q \in Worker :
                 pcT'[q] \in (LockedAt(progT) + 3)..(UnlockedAt(progT) + 1) <=>
                   pcT[q] \in (LockedAt(progT) + 3)..(UnlockedAt(progT) + 1)
    BY DEF Increments
  <2> QED
    BY <1>1, MutexPlaces
<1>3. progT \in Counting =>
       \A t \in Worker :
         /\ pcT'[t] = 0 => loops[t] = 0
         /\ pcT'[t] <= UnlockedAt(progT) + 1 => loops[t] < Threads!Loops
         /\ pcT'[t] > UnlockedAt(progT) + 1 => loops[t] = Threads!Loops
         /\ holder = t <=> pcT'[t] \in (LockedAt(progT) + 1)..UnlockedAt(progT)
         /\ pcT'[t] = LockedAt(progT) + 2 => temp[t] = count
         /\ temp[t] <= 3 * Threads!Loops
  <2> SUFFICES ASSUME progT \in Counting, NEW t \in Worker
               PROVE  /\ pcT'[t] = 0 => loops[t] = 0
                      /\ pcT'[t] <= UnlockedAt(progT) + 1 => loops[t] < Threads!Loops
                      /\ pcT'[t] > UnlockedAt(progT) + 1 => loops[t] = Threads!Loops
                      /\ holder = t <=> pcT'[t] \in (LockedAt(progT) + 1)..UnlockedAt(progT)
                      /\ pcT'[t] = LockedAt(progT) + 2 => temp[t] = count
                      /\ temp[t] <= 3 * Threads!Loops
    OBVIOUS
  <2> QED
    BY <1>1, MutexPlaces DEF ThreadCounter
<1>4. Threads!Loops' = Threads!Loops
  BY DEF Threads!Loops
<1> QED
  BY <1>2, <1>3, <1>4 DEF ThreadCounter

\* A worker t of ex05.c or exercise.c does something with the counter or the mutex, or goes on
\* where it does nothing with them.
LEMMA CounterStep ==
  ASSUME ThreadPlaces, ThreadCounter, progT \in Counting, NEW t \in Worker,
         pcT[t] # 0, NEW k \in Nat, k # 0, pcT' = [pcT EXCEPT ![t] = k], UNCHANGED progT,
         loops' \in [Threads!Thread -> Nat], temp' \in [Threads!Thread -> Nat],
         \A q \in Threads!Thread \ {t} : loops'[q] = loops[q] /\ temp'[q] = temp[q],
         k <= UnlockedAt(progT) + 1 => loops'[t] < Threads!Loops,
         k > UnlockedAt(progT) + 1 => loops'[t] = Threads!Loops,
         holder' \in Worker \cup {Threads!None},
         \A q \in Worker \ {t} : holder' = q <=> holder = q,
         holder' = t <=> k \in (LockedAt(progT) + 1)..UnlockedAt(progT),
         k = LockedAt(progT) + 2 => temp'[t] = count',
         temp'[t] <= 3 * Threads!Loops,
         count' = count \/ \A q \in Worker \ {t} : pcT[q] # LockedAt(progT) + 2,
         count' = count - Increments[t] + Increments'[t], count' \in Nat
  PROVE  ThreadCounter'
<1>1. pcT'[t] = k /\ \A q \in Worker \ {t} : pcT'[q] = pcT[q]
  BY PlaceFacts DEF ThreadPlaces
<1>2. t \in Threads!Thread /\ "main" \in Threads!Thread \ {t} /\ Worker \subseteq Threads!Thread
  BY DEF Worker, Threads!Thread
<1>3. Increments' \in [Worker -> Nat]
  <2>1. \A q \in Worker : loops'[q] \in Nat
    BY <1>2
  <2>2. \A q \in Worker :
          loops'[q] + (IF pcT'[q] \in (LockedAt(progT') + 3)..(UnlockedAt(progT') + 1)
                       THEN 1 ELSE 0) \in Nat
    <3> SUFFICES ASSUME NEW q \in Worker
                 PROVE  loops'[q] + (IF pcT'[q] \in (LockedAt(progT') + 3)
                                                     ..(UnlockedAt(progT') + 1)
                                     THEN 1 ELSE 0) \in Nat
      OBVIOUS
    <3>1. PICK n \in {0, 1} :
            n = IF pcT'[q] \in (LockedAt(progT') + 3)..(UnlockedAt(progT') + 1) THEN 1 ELSE 0
      OBVIOUS
    <3> QED
      BY <2>1, <3>1
  <2> QED
    BY <2>2 DEF Increments
<1>4. \A q \in Worker \ {t} : Increments'[q] = Increments[q]
  <2> SUFFICES ASSUME NEW q \in Worker \ {t} PROVE Increments'[q] = Increments[q]
    OBVIOUS
  <2>1. loops'[q] = loops[q] /\ pcT'[q] = pcT[q]
    BY <1>1, <1>2
  <2> QED
    BY <2>1 DEF Increments
<1>5. count' = Increments'["t1"] + Increments'["t2"] + Increments'["t3"]
  <2>1. Increments \in [Worker -> Nat]
    BY IncrementsAreNumbers
  <2>2. Increments'["t1"] + Increments'["t2"] + Increments'["t3"] =
          Increments["t1"] + Increments["t2"] + Increments["t3"] - Increments[t] + Increments'[t]
    <3>1. PICK h \in [Worker -> Nat] : h = Increments'
      BY <1>3
    <3> QED
      BY <1>4, <2>1, <3>1, SumOfThree
  <2>3. count = Increments["t1"] + Increments["t2"] + Increments["t3"]
    BY DEF ThreadCounter
  <2>4. \A q \in Worker : Increments[q] \in Nat /\ Increments'[q] \in Nat
    BY <1>3, <2>1
  <2> QED
    BY <2>2, <2>3, <2>4 DEF Worker
<1>6. Threads!Loops' = Threads!Loops
  BY DEF Threads!Loops
<1>7. \A q \in Worker :
         /\ pcT'[q] = 0 => loops'[q] = 0
         /\ pcT'[q] <= UnlockedAt(progT) + 1 => loops'[q] < Threads!Loops
         /\ pcT'[q] > UnlockedAt(progT) + 1 => loops'[q] = Threads!Loops
         /\ holder' = q <=> pcT'[q] \in (LockedAt(progT) + 1)..UnlockedAt(progT)
         /\ pcT'[q] = LockedAt(progT) + 2 => temp'[q] = count'
         /\ temp'[q] <= 3 * Threads!Loops
  <2> SUFFICES ASSUME NEW q \in Worker
               PROVE  /\ pcT'[q] = 0 => loops'[q] = 0
                      /\ pcT'[q] <= UnlockedAt(progT) + 1 => loops'[q] < Threads!Loops
                      /\ pcT'[q] > UnlockedAt(progT) + 1 => loops'[q] = Threads!Loops
                      /\ holder' = q <=> pcT'[q] \in (LockedAt(progT) + 1)..UnlockedAt(progT)
                      /\ pcT'[q] = LockedAt(progT) + 2 => temp'[q] = count'
                      /\ temp'[q] <= 3 * Threads!Loops
    OBVIOUS
  <2>1. CASE q = t
    BY <1>1, <2>1
  <2>2. CASE q # t
    <3>1. /\ pcT'[q] = pcT[q] /\ loops'[q] = loops[q] /\ temp'[q] = temp[q]
          /\ holder' = q <=> holder = q
      BY <1>1, <1>2, <2>2
    <3>2. pcT[q] = LockedAt(progT) + 2 => count' = count
      BY <2>2
    <3> QED
      BY <3>1, <3>2 DEF ThreadCounter
  <2> QED
    BY <2>1, <2>2
<1>8. loops'["main"] = 0 /\ temp'["main"] = 0
  BY <1>2 DEF ThreadCounter
<1> QED
  BY <1>5, <1>6, <1>7, <1>8 DEF ThreadCounter

LEMMA CountBound ==
  ASSUME ThreadPlaces, ThreadCounter
  PROVE  count <= 3 * Threads!Loops
<1>1. CASE progT \notin Counting
  BY <1>1, MutexPlaces DEF ThreadCounter
<1>2. CASE progT \in Counting
  <2>1. \A t \in Worker : Increments[t] \in Nat /\ Increments[t] <= Threads!Loops
    <3> SUFFICES ASSUME NEW t \in Worker
                 PROVE  Increments[t] \in Nat /\ Increments[t] <= Threads!Loops
      OBVIOUS
    <3>1. loops[t] \in Nat /\ Threads!Loops \in Nat
      BY MutexPlaces DEF ThreadCounter, Worker, Threads!Thread
    <3>2. CASE pcT[t] \in (LockedAt(progT) + 3)..(UnlockedAt(progT) + 1)
      <4>1. loops[t] < Threads!Loops
        BY <1>2, <3>2, MutexPlaces DEF ThreadCounter
      <4>2. Increments[t] = loops[t] + 1
        BY <3>2 DEF Increments
      <4> QED
        BY <3>1, <4>1, <4>2
    <3>3. CASE pcT[t] \notin (LockedAt(progT) + 3)..(UnlockedAt(progT) + 1)
      <4>1. Increments[t] = loops[t] + 0
        BY <3>3 DEF Increments
      <4>2. pcT[t] \in Nat /\ UnlockedAt(progT) \in Nat
        BY PlaceFacts, MutexPlaces
      <4>3. loops[t] <= Threads!Loops
        BY <1>2, <3>1, <4>2 DEF ThreadCounter
      <4> QED
        BY <3>1, <4>1, <4>3
    <3> QED
      BY <3>2, <3>3
  <2>2. count = Increments["t1"] + Increments["t2"] + Increments["t3"]
    BY <1>2 DEF ThreadCounter
  <2>3. Threads!Loops \in Nat /\ "t1" \in Worker /\ "t2" \in Worker /\ "t3" \in Worker
    BY MutexPlaces DEF Worker
  <2> QED
    BY <2>1, <2>2, <2>3
<1> QED
  BY <1>1, <1>2

\* A worker that goes on from a call that has nothing to do with the counter.
LEMMA QuietCount ==
  ASSUME ThreadPlaces, ThreadCounter, NEW t \in Threads!Thread, NEW o, Threads!At(t, o),
         o \notin {"lock", "load", "store", "unlock", "again"},
         pcT' = [pcT EXCEPT ![t] = pcT[t] + 1],
         UNCHANGED <<progT, loops, temp, count, holder>>
  PROVE  ThreadCounter'
<1>1. /\ ThreadCallFacts(progT, t, pcT[t], codeT[t][pcT[t]])
      /\ codeT[t][pcT[t]].op = o /\ pcT[t] \in 1..LastPlace(progT, t)
  BY ThreadCall
<1>2. pcT \in [Threads!Thread -> Nat] /\ Worker \subseteq Threads!Thread
  BY PlaceFacts DEF ThreadPlaces
<1>3. CASE t = "main"
  <2>1. \A q \in Worker : pcT'[q] = pcT[q]
    BY <1>2, <1>3 DEF Worker
  <2> QED
    BY <2>1, OthersCount
<1>4. CASE progT \notin Counting
  BY <1>4 DEF ThreadCounter
<1>5. CASE t # "main" /\ progT \in Counting
  <2>1. t \in Worker /\ pcT[t] \in Nat
    BY <1>1, <1>5, PlaceFacts
  <2>2. pcT[t] \notin {LockedAt(progT), LockedAt(progT) + 1, LockedAt(progT) + 2,
                       UnlockedAt(progT), UnlockedAt(progT) + 1}
    BY <1>1, <1>5 DEF ThreadCallFacts, CounterCalls
  <2>3. pcT[t] + 1 \in (LockedAt(progT) + 3)..(UnlockedAt(progT) + 1) <=>
          pcT[t] \in (LockedAt(progT) + 3)..(UnlockedAt(progT) + 1)
    BY <2>1, <2>2, MutexPlaces
  <2>4. Increments'[t] = Increments[t]
    <3>1. pcT'[t] = pcT[t] + 1
      BY <1>2, <2>1
    <3> QED
      BY <2>1, <2>3, <3>1 DEF Increments
  <2>5. /\ pcT[t] + 1 <= UnlockedAt(progT) + 1 => loops[t] < Threads!Loops
        /\ pcT[t] + 1 > UnlockedAt(progT) + 1 => loops[t] = Threads!Loops
        /\ holder = t <=> pcT[t] + 1 \in (LockedAt(progT) + 1)..UnlockedAt(progT)
        /\ pcT[t] + 1 # LockedAt(progT) + 2
        /\ temp[t] <= 3 * Threads!Loops
    <3>1. /\ pcT[t] + 1 > UnlockedAt(progT) + 1 => pcT[t] > UnlockedAt(progT) + 1
          /\ pcT[t] + 1 <= UnlockedAt(progT) + 1 => pcT[t] <= UnlockedAt(progT) + 1
          /\ pcT[t] + 1 \in (LockedAt(progT) + 1)..UnlockedAt(progT) <=>
               pcT[t] \in (LockedAt(progT) + 1)..UnlockedAt(progT)
          /\ pcT[t] + 1 # LockedAt(progT) + 2
      BY <2>1, <2>2, MutexPlaces
    <3> QED
      BY <1>5, <2>1, <3>1 DEF ThreadCounter
  <2>6. Increments[t] \in Nat
    BY <2>1, IncrementsAreNumbers
  <2>7. count' = count - Increments[t] + Increments'[t]
    BY <2>4, <2>6 DEF ThreadCounter
  <2>8. pcT[t] # 0 /\ pcT[t] + 1 \in Nat /\ pcT[t] + 1 # 0
    BY <1>1, <2>1
  <2> QED
    BY <1>5, <2>1, <2>5, <2>7, <2>8, CounterStep DEF ThreadCounter
<1> QED
  BY <1>3, <1>4, <1>5

\* What is known at the calls that concern the counter.
LEMMA CounterCall ==
  ASSUME ThreadPlaces, ThreadCounter, NEW t \in Threads!Thread,
         NEW o \in {"lock", "load", "store", "unlock", "again"}, Threads!At(t, o)
  PROVE  /\ t \in Worker /\ progT \in Counting /\ pcT[t] \in Nat \ {0}
         /\ pcT \in [Threads!Thread -> Nat] /\ loops[t] \in Nat /\ temp[t] \in Nat
         /\ o = "lock" => pcT[t] = LockedAt(progT)
         /\ o = "load" => pcT[t] = LockedAt(progT) + 1
         /\ o = "store" => pcT[t] = LockedAt(progT) + 2
         /\ o = "unlock" => pcT[t] = UnlockedAt(progT)
         /\ o = "again" => pcT[t] = UnlockedAt(progT) + 1
         /\ loops[t] < Threads!Loops /\ temp[t] <= 3 * Threads!Loops
         /\ o \in {"load", "store", "unlock"} => holder = t
         /\ Increments[t] = loops[t] + IF o \in {"unlock", "again"} THEN 1 ELSE 0
<1>1. /\ ThreadCallFacts(progT, t, pcT[t], codeT[t][pcT[t]])
      /\ codeT[t][pcT[t]].op = o /\ pcT[t] \in 1..LastPlace(progT, t)
  BY ThreadCall
<1>2. t # "main" /\ progT \in Counting
  BY <1>1 DEF ThreadCallFacts, CounterCalls
<1>3. t \in Worker /\ pcT[t] \in Nat \ {0} /\ pcT \in [Threads!Thread -> Nat]
      /\ loops[t] \in Nat /\ temp[t] \in Nat
  BY <1>1, <1>2, PlaceFacts DEF ThreadPlaces, ThreadCounter
<1>4. /\ o = "lock" => pcT[t] = LockedAt(progT)
      /\ o = "load" => pcT[t] = LockedAt(progT) + 1
      /\ o = "store" => pcT[t] = LockedAt(progT) + 2
      /\ o = "unlock" => pcT[t] = UnlockedAt(progT)
      /\ o = "again" => pcT[t] = UnlockedAt(progT) + 1
  BY <1>1, <1>2 DEF ThreadCallFacts, CounterCalls
<1>5. /\ pcT[t] <= UnlockedAt(progT) + 1
      /\ o \in {"load", "store", "unlock"} =>
           pcT[t] \in (LockedAt(progT) + 1)..UnlockedAt(progT)
      /\ pcT[t] \in (LockedAt(progT) + 3)..(UnlockedAt(progT) + 1) <=> o \in {"unlock", "again"}
  BY <1>3, <1>4, MutexPlaces
<1>6. /\ loops[t] < Threads!Loops /\ temp[t] <= 3 * Threads!Loops
      /\ o \in {"load", "store", "unlock"} => holder = t
  BY <1>2, <1>3, <1>5 DEF ThreadCounter
<1>7. Increments[t] = loops[t] + IF o \in {"unlock", "again"} THEN 1 ELSE 0
  BY <1>3, <1>5 DEF Increments
<1> QED
  BY <1>2, <1>3, <1>4, <1>6, <1>7

LEMMA LockCount ==
  ASSUME ThreadPlaces, ThreadCounter, NEW t \in Threads!Thread, Threads!LockCall(t)
  PROVE  ThreadCounter'
<1>1. Threads!At(t, "lock") /\ holder = Threads!None /\ holder' = t
      /\ pcT' = [pcT EXCEPT ![t] = pcT[t] + 1] /\ UNCHANGED <<progT, loops, temp, count>>
  BY DEF Threads!LockCall, Threads!Goes
<1>2. /\ t \in Worker /\ progT \in Counting /\ pcT[t] \in Nat \ {0}
      /\ pcT \in [Threads!Thread -> Nat] /\ loops[t] \in Nat
      /\ pcT[t] = LockedAt(progT) /\ loops[t] < Threads!Loops /\ temp[t] <= 3 * Threads!Loops
      /\ Increments[t] = loops[t]
  BY <1>1, CounterCall
<1>3. /\ pcT[t] + 1 <= UnlockedAt(progT) + 1
      /\ pcT[t] + 1 \in (LockedAt(progT) + 1)..UnlockedAt(progT)
      /\ pcT[t] + 1 # LockedAt(progT) + 2
      /\ pcT[t] + 1 \notin (LockedAt(progT) + 3)..(UnlockedAt(progT) + 1)
      /\ pcT[t] + 1 \in Nat \ {0} /\ ~(pcT[t] + 1 > UnlockedAt(progT) + 1)
  BY <1>2, MutexPlaces
<1>4. Increments'[t] = loops[t]
  <2>1. pcT'[t] = pcT[t] + 1 /\ t \in Threads!Thread
    BY <1>1, <1>2
  <2> QED
    BY <1>1, <1>2, <1>3, <2>1 DEF Increments
<1>5. count' = count - Increments[t] + Increments'[t]
  BY <1>1, <1>2, <1>4 DEF ThreadCounter
<1>6. \A q \in Worker \ {t} : holder' = q <=> holder = q
  BY <1>1 DEF Worker, Threads!None
<1> QED
  BY <1>1, <1>2, <1>3, <1>5, <1>6, CounterStep DEF ThreadCounter

LEMMA LoadCount ==
  ASSUME ThreadPlaces, ThreadCounter, NEW t \in Threads!Thread, Threads!LoadCounter(t)
  PROVE  ThreadCounter'
<1>1. Threads!At(t, "load") /\ temp' = [temp EXCEPT ![t] = count]
      /\ pcT' = [pcT EXCEPT ![t] = pcT[t] + 1] /\ UNCHANGED <<progT, loops, holder, count>>
  BY DEF Threads!LoadCounter, Threads!Goes
<1>2. /\ t \in Worker /\ progT \in Counting /\ pcT[t] \in Nat \ {0}
      /\ pcT \in [Threads!Thread -> Nat] /\ loops[t] \in Nat
      /\ pcT[t] = LockedAt(progT) + 1 /\ loops[t] < Threads!Loops
      /\ Increments[t] = loops[t] /\ holder = t
  BY <1>1, CounterCall
<1>3. /\ pcT[t] + 1 <= UnlockedAt(progT) + 1
      /\ pcT[t] + 1 \in (LockedAt(progT) + 1)..UnlockedAt(progT)
      /\ pcT[t] + 1 \notin (LockedAt(progT) + 3)..(UnlockedAt(progT) + 1)
      /\ pcT[t] + 1 \in Nat \ {0} /\ ~(pcT[t] + 1 > UnlockedAt(progT) + 1)
  BY <1>2, MutexPlaces
<1>4. Increments'[t] = loops[t]
  <2>1. pcT'[t] = pcT[t] + 1 /\ t \in Threads!Thread
    BY <1>1, <1>2
  <2> QED
    BY <1>1, <1>2, <1>3, <2>1 DEF Increments
<1>5. count' = count - Increments[t] + Increments'[t]
  BY <1>1, <1>2, <1>4 DEF ThreadCounter
<1>6. /\ temp' \in [Threads!Thread -> Nat] /\ temp'[t] = count
      /\ \A q \in Threads!Thread \ {t} : temp'[q] = temp[q]
  BY <1>1 DEF ThreadCounter
<1>7. count <= 3 * Threads!Loops
  BY CountBound
<1>8. /\ loops' \in [Threads!Thread -> Nat] /\ loops' = loops /\ count' = count /\ count' \in Nat
      /\ holder' \in Worker \cup {Threads!None} /\ holder' = holder
  BY <1>1 DEF ThreadCounter
<1> QED
  BY <1>1, <1>2, <1>3, <1>5, <1>6, <1>7, <1>8, CounterStep

LEMMA StoreCount ==
  ASSUME ThreadPlaces, ThreadCounter, NEW t \in Threads!Thread, Threads!StoreCounter(t)
  PROVE  ThreadCounter'
<1>1. Threads!At(t, "store") /\ temp' = [temp EXCEPT ![t] = 0] /\ count' = temp[t] + 1
      /\ pcT' = [pcT EXCEPT ![t] = pcT[t] + 1] /\ UNCHANGED <<progT, loops, holder>>
  BY DEF Threads!StoreCounter, Threads!Goes
<1>2. /\ t \in Worker /\ progT \in Counting /\ pcT[t] \in Nat \ {0}
      /\ pcT \in [Threads!Thread -> Nat] /\ loops[t] \in Nat
      /\ pcT[t] = LockedAt(progT) + 2 /\ loops[t] < Threads!Loops
      /\ Increments[t] = loops[t] /\ holder = t
  BY <1>1, CounterCall
<1>3. temp[t] = count /\ count \in Nat
  BY <1>2 DEF ThreadCounter
<1>4. /\ pcT[t] + 1 <= UnlockedAt(progT) + 1
      /\ pcT[t] + 1 \in (LockedAt(progT) + 1)..UnlockedAt(progT)
      /\ pcT[t] + 1 # LockedAt(progT) + 2
      /\ pcT[t] + 1 \in (LockedAt(progT) + 3)..(UnlockedAt(progT) + 1)
      /\ pcT[t] + 1 \in Nat \ {0} /\ ~(pcT[t] + 1 > UnlockedAt(progT) + 1)
  BY <1>2, MutexPlaces
<1>5. Increments'[t] = loops[t] + 1
  <2>1. pcT'[t] = pcT[t] + 1 /\ t \in Threads!Thread
    BY <1>1, <1>2
  <2> QED
    BY <1>1, <1>2, <1>4, <2>1 DEF Increments
<1>6. count' = count - Increments[t] + Increments'[t]
  BY <1>1, <1>2, <1>3, <1>5
<1>7. /\ temp' \in [Threads!Thread -> Nat] /\ temp'[t] = 0
      /\ \A q \in Threads!Thread \ {t} : temp'[q] = temp[q]
  BY <1>1 DEF ThreadCounter
<1>8. \A q \in Worker \ {t} : pcT[q] # LockedAt(progT) + 2
  <2>1. LockedAt(progT) + 2 \in (LockedAt(progT) + 1)..UnlockedAt(progT)
    BY MutexPlaces
  <2> QED
    BY <1>2, <2>1 DEF ThreadCounter
<1>9. 0 <= 3 * Threads!Loops
  BY MutexPlaces
<1>10. /\ loops' \in [Threads!Thread -> Nat] /\ loops' = loops /\ count' \in Nat
       /\ holder' \in Worker \cup {Threads!None} /\ holder' = holder
  BY <1>1, <1>3 DEF ThreadCounter
<1> QED
  BY <1>1, <1>2, <1>4, <1>6, <1>7, <1>8, <1>9, <1>10, CounterStep

LEMMA UnlockCount ==
  ASSUME ThreadPlaces, ThreadCounter, NEW t \in Threads!Thread, Threads!UnlockCall(t)
  PROVE  ThreadCounter'
<1>1. Threads!At(t, "unlock") /\ holder' = Threads!None
      /\ pcT' = [pcT EXCEPT ![t] = pcT[t] + 1] /\ UNCHANGED <<progT, loops, temp, count>>
  BY DEF Threads!UnlockCall, Threads!Goes
<1>2. /\ t \in Worker /\ progT \in Counting /\ pcT[t] \in Nat \ {0}
      /\ pcT \in [Threads!Thread -> Nat] /\ loops[t] \in Nat
      /\ pcT[t] = UnlockedAt(progT) /\ loops[t] < Threads!Loops /\ temp[t] <= 3 * Threads!Loops
      /\ Increments[t] = loops[t] + 1 /\ holder = t
  BY <1>1, CounterCall
<1>3. /\ pcT[t] + 1 <= UnlockedAt(progT) + 1
      /\ pcT[t] + 1 \notin (LockedAt(progT) + 1)..UnlockedAt(progT)
      /\ pcT[t] + 1 # LockedAt(progT) + 2
      /\ pcT[t] + 1 \in (LockedAt(progT) + 3)..(UnlockedAt(progT) + 1)
      /\ pcT[t] + 1 \in Nat \ {0} /\ ~(pcT[t] + 1 > UnlockedAt(progT) + 1)
  BY <1>2, MutexPlaces
<1>4. Increments'[t] = loops[t] + 1
  <2>1. pcT'[t] = pcT[t] + 1 /\ t \in Threads!Thread
    BY <1>1, <1>2
  <2> QED
    BY <1>1, <1>2, <1>3, <2>1 DEF Increments
<1>5. count' = count - Increments[t] + Increments'[t]
  BY <1>1, <1>2, <1>4 DEF ThreadCounter
<1>6. (\A q \in Worker : holder' # q) /\ \A q \in Worker \ {t} : holder # q
  BY <1>1, <1>2 DEF Worker, Threads!None
<1> QED
  BY <1>1, <1>2, <1>3, <1>5, <1>6, CounterStep DEF ThreadCounter

LEMMA RepeatCount ==
  ASSUME ThreadPlaces, ThreadCounter, NEW t \in Threads!Thread, Threads!Repeat(t)
  PROVE  ThreadCounter'
<1>1. Threads!At(t, "again") /\ loops' = [loops EXCEPT ![t] = loops[t] + 1]
      /\ UNCHANGED <<progT, temp, count, holder>>
  BY DEF Threads!Repeat
<1>2. /\ t \in Worker /\ progT \in Counting /\ pcT[t] \in Nat \ {0}
      /\ pcT \in [Threads!Thread -> Nat] /\ loops[t] \in Nat
      /\ pcT[t] = UnlockedAt(progT) + 1 /\ loops[t] < Threads!Loops
      /\ temp[t] <= 3 * Threads!Loops /\ Increments[t] = loops[t] + 1
  BY <1>1, CounterCall
<1>3. PICK k : k = IF loops[t] + 1 < Threads!Loops THEN LockedAt(progT)
                   ELSE UnlockedAt(progT) + 2
  OBVIOUS
<1>4. pcT' = [pcT EXCEPT ![t] = k]
  BY <1>3, RepeatPlaces
<1>5. /\ k <= UnlockedAt(progT) + 1 => loops[t] + 1 < Threads!Loops
      /\ k > UnlockedAt(progT) + 1 => loops[t] + 1 = Threads!Loops
      /\ k \notin (LockedAt(progT) + 1)..UnlockedAt(progT) /\ k # LockedAt(progT) + 2
      /\ k \notin (LockedAt(progT) + 3)..(UnlockedAt(progT) + 1) /\ k \in Nat \ {0}
      /\ pcT[t] \notin (LockedAt(progT) + 1)..UnlockedAt(progT)
  <2>1. CASE loops[t] + 1 < Threads!Loops
    BY <1>2, <1>3, <2>1, MutexPlaces
  <2>2. CASE ~(loops[t] + 1 < Threads!Loops)
    BY <1>2, <1>3, <2>2, MutexPlaces
  <2> QED
    BY <2>1, <2>2
<1>6. /\ loops' \in [Threads!Thread -> Nat] /\ loops'[t] = loops[t] + 1
      /\ \A q \in Threads!Thread \ {t} : loops'[q] = loops[q]
  BY <1>1, <1>2 DEF ThreadCounter
<1>7. Increments'[t] = loops[t] + 1
  <2>1. pcT'[t] = k /\ t \in Threads!Thread
    BY <1>2, <1>4
  <2> QED
    BY <1>1, <1>2, <1>5, <1>6, <2>1 DEF Increments
<1>8. count' = count - Increments[t] + Increments'[t]
  BY <1>1, <1>2, <1>7 DEF ThreadCounter
<1>9. holder # t
  BY <1>2, <1>5 DEF ThreadCounter
<1>10. /\ temp' \in [Threads!Thread -> Nat] /\ temp' = temp /\ count' = count /\ count' \in Nat
       /\ holder' \in Worker \cup {Threads!None} /\ holder' = holder
  BY <1>1 DEF ThreadCounter
<1> QED
  BY <1>1, <1>2, <1>4, <1>5, <1>6, <1>8, <1>9, <1>10, CounterStep

LEMMA ThreadInitInv == Threads!ThreadInit => ThreadInv
<1> SUFFICES ASSUME Threads!ThreadInit PROVE ThreadInv
  OBVIOUS
<1>1. /\ progT \in ThreadPrograms /\ codeT = Threads!Code[progT]
      /\ pcT = [t \in Threads!Thread |-> IF t = "main" THEN 1 ELSE 0]
      /\ loops = [t \in Threads!Thread |-> 0] /\ temp = [t \in Threads!Thread |-> 0]
      /\ count = 0 /\ holder = Threads!None /\ asked = {} /\ disabled = {} /\ pushed = {}
      /\ heap = "none" /\ result = [t \in Threads!Thread |-> Threads!None] /\ statusT = "run"
  BY ThreadProgramList DEF Threads!ThreadInit
<1>2. /\ pcT \in [Threads!Thread -> Nat] /\ pcT["main"] = 1
      /\ \A t \in Worker : pcT[t] = 0
      /\ Worker = Threads!Thread \ {"main"} /\ "t1" \in Worker
  BY <1>1 DEF Threads!Thread, Worker
<1>3. ThreadPlaces
  <2>1. /\ \A t \in Threads!Thread : LastPlace(progT, t) \in Nat
        /\ \A t \in Worker : JoinedAt(progT, t) >= 2
        /\ Workers(progT) \subseteq Worker
    BY DEF LastPlace, JoinedAt, CreatedAt, Workers, Worker
  <2>2. \A t \in Threads!Thread : pcT[t] <= LastPlace(progT, t) + 1
    <3> SUFFICES ASSUME NEW t \in Threads!Thread PROVE pcT[t] <= LastPlace(progT, t) + 1
      OBVIOUS
    <3>1. LastPlace(progT, t) \in Nat /\ pcT[t] \in {0, 1}
      BY <1>2, <2>1
    <3> QED
      BY <3>1
  <2> QED
    BY <1>1, <1>2, <2>1, <2>2 DEF ThreadPlaces
<1>4. ThreadTexts
  <2>1. LastPlace(progT, "t1") \in Nat
    BY DEF LastPlace
  <2> QED
    BY <1>1, <1>2, <2>1 DEF ThreadTexts
<1>5. ThreadBlock
  BY <1>1, <1>2 DEF ThreadBlock
<1>6. ThreadCounter
  <2>1. \A t \in Worker : Increments[t] = 0
    BY <1>1, <1>2, MutexPlaces DEF Increments
  <2>2. holder \in {Threads!None} /\ \A t \in Worker : holder # t
    BY <1>1 DEF Worker, Threads!None
  <2>3. \A t \in Worker :
          /\ ~(pcT[t] > UnlockedAt(progT) + 1) /\ pcT[t] # LockedAt(progT) + 2
          /\ pcT[t] \notin (LockedAt(progT) + 1)..UnlockedAt(progT)
    BY <1>2, MutexPlaces
  <2>4. Threads!Loops > 0 /\ 0 <= 3 * Threads!Loops
    BY MutexPlaces
  <2>5. Increments["t1"] + Increments["t2"] + Increments["t3"] = 0
    BY <2>1 DEF Worker
  <2> QED
    BY <1>1, <1>2, <2>2, <2>3, <2>4, <2>5 DEF ThreadCounter, Threads!Thread
<1> QED
  BY <1>3, <1>4, <1>5, <1>6 DEF ThreadInv

LEMMA ThreadOwnInv ==
  ASSUME ThreadInv, NEW t \in Threads!Thread, Threads!OwnCall(t)
  PROVE  ThreadInv'
<1>1. /\ pcT' = [pcT EXCEPT ![t] = pcT[t] + 1]
      /\ UNCHANGED <<progT, codeT, loops, temp, count, holder, asked, result, statusT>>
  BY DEF Threads!OwnCall, Threads!Goes
<1>2. ThreadPlaces /\ ThreadTexts /\ ThreadBlock /\ ThreadCounter
  BY DEF ThreadInv
<1>3. asked' \subseteq {"t1"} /\ (asked' # {} => progT \in {"ex02", "ex08_cleanup"})
  BY <1>1, <1>2 DEF ThreadTexts
<1>4. CASE Threads!At(t, "detach") /\ UNCHANGED <<disabled, pushed, heap>>
  <2> DEFINE o == "detach"
  <2>1. Threads!At(t, o) /\ o = "detach"
    BY <1>4
  <2> HIDE DEF o
  <2> QED
    BY <1>1, <1>2, <1>3, <1>4, <2>1, CallMoves, CallTexts, CallBlock, QuietCount DEF ThreadInv
<1>5. CASE /\ Threads!At(t, "disable") /\ disabled' = disabled \cup {t}
           /\ UNCHANGED <<pushed, heap>>
  <2> DEFINE o == "disable"
  <2>1. Threads!At(t, o) /\ o = "disable"
    BY <1>5
  <2> HIDE DEF o
  <2>2. ThreadTexts'
    BY <1>1, <1>2, <1>5, DisableTexts
  <2> QED
    BY <1>1, <1>2, <1>5, <2>1, <2>2, CallMoves, CallBlock, QuietCount DEF ThreadInv
<1>6. ASSUME NEW o \in {"push", "pop", "malloc", "free"}, Threads!At(t, o),
             o = "push" => pushed' = pushed \cup {t} /\ heap' = heap,
             o = "pop" => pushed' = pushed \ {t} /\ heap' = heap,
             o = "malloc" => heap' = "held" /\ pushed' = pushed,
             o = "free" => heap' = Threads!Freed /\ pushed' = pushed,
             disabled' = disabled
      PROVE  ThreadInv'
  <2>1. ThreadPlaces'
    BY <1>1, <1>2, <1>6, CallMoves
  <2>2. ThreadTexts'
    BY <1>1, <1>2, <1>3, <1>6, CallTexts
  <2>3. ThreadBlock'
    BY <1>1, <1>2, <1>6, OwnBlock
  <2>4. ThreadCounter'
    BY <1>1, <1>2, <1>6, QuietCount
  <2> QED
    BY <2>1, <2>2, <2>3, <2>4 DEF ThreadInv
<1>7. CASE Threads!At(t, "push") /\ pushed' = pushed \cup {t} /\ UNCHANGED <<disabled, heap>>
  BY <1>6, <1>7
<1>8. CASE Threads!At(t, "pop") /\ pushed' = pushed \ {t} /\ UNCHANGED <<disabled, heap>>
  BY <1>6, <1>8
<1>9. CASE Threads!At(t, "malloc") /\ heap' = "held" /\ UNCHANGED <<disabled, pushed>>
  BY <1>6, <1>9
<1>10. CASE Threads!At(t, "free") /\ heap' = Threads!Freed /\ UNCHANGED <<disabled, pushed>>
  BY <1>6, <1>10
<1> QED
  BY <1>4, <1>5, <1>7, <1>8, <1>9, <1>10 DEF Threads!OwnCall

LEMMA ThreadStepInv ==
  ASSUME ThreadInv, NEW t \in Threads!Thread, Threads!Step(t)
  PROVE  ThreadInv'
<1>1. ThreadPlaces /\ ThreadTexts /\ ThreadBlock /\ ThreadCounter
  BY DEF ThreadInv
<1>2. asked \subseteq {"t1"} /\ (asked # {} => progT \in {"ex02", "ex08_cleanup"})
  BY <1>1 DEF ThreadTexts
<1>3. CASE Threads!CreateCall(t)
  <2>1. UNCHANGED <<progT, loops, temp, count, holder>>
    BY <1>3 DEF Threads!CreateCall
  <2> QED
    BY <1>1, <1>3, <2>1, CreatePlaces, CreateTexts, CreateBlock, OthersCount DEF ThreadInv
<1>4. CASE Threads!JoinCall(t)
  <2>1. /\ Threads!At(t, "join") /\ pcT' = [pcT EXCEPT ![t] = pcT[t] + 1]
        /\ UNCHANGED <<progT, loops, temp, count, holder, asked, disabled, pushed, heap, result>>
    BY <1>4 DEF Threads!JoinCall, Threads!Goes
  <2>2. ThreadPlaces' /\ ThreadCounter'
    BY <1>1, <1>4, <2>1, JoinPlaces, OthersCount
  <2>3. ThreadTexts'
    BY <1>1, <1>2, <2>1, CallTexts
  <2>4. ThreadBlock'
    BY <1>1, <2>1, CallBlock
  <2> QED
    BY <2>2, <2>3, <2>4 DEF ThreadInv
<1>5. CASE Threads!CancelCall(t)
  <2>1. /\ Threads!At(t, "cancel") /\ pcT' = [pcT EXCEPT ![t] = pcT[t] + 1]
        /\ asked' = asked \cup {codeT[t][pcT[t]].arg}
        /\ UNCHANGED <<progT, codeT, loops, temp, count, holder, disabled, pushed, heap, result,
                       statusT>>
    BY <1>5 DEF Threads!CancelCall, Threads!Goes, Threads!Argument, Threads!Calls
  <2>2. asked' \subseteq {"t1"} /\ progT \in {"ex02", "ex08_cleanup"}
    <3>1. codeT[t][pcT[t]].arg = "t1" /\ progT \in {"ex02", "ex08_cleanup"}
      BY <1>1, <2>1, ThreadCall DEF ThreadCallFacts, MainCalls
    <3> QED
      BY <1>2, <2>1, <3>1
  <2>3. ThreadPlaces'
    BY <1>1, <2>1, CallMoves
  <2>4. ThreadTexts'
    BY <1>1, <2>1, <2>2, CallTexts
  <2>5. ThreadBlock'
    BY <1>1, <2>1, CallBlock
  <2>6. ThreadCounter'
    BY <1>1, <2>1, QuietCount
  <2> QED
    BY <2>3, <2>4, <2>5, <2>6 DEF ThreadInv
<1>6. CASE Threads!SleepCall(t)
  <2>1. PICK o \in {"sleep", "print"} : Threads!At(t, o)
    BY <1>6 DEF Threads!SleepCall
  <2>2. /\ pcT' = [pcT EXCEPT ![t] = pcT[t] + 1]
        /\ UNCHANGED <<progT, codeT, loops, temp, count, holder, asked, disabled, pushed, heap,
                       result, statusT>>
    BY <1>6 DEF Threads!SleepCall, Threads!Goes
  <2>3. ThreadPlaces'
    BY <1>1, <2>1, <2>2, CallMoves
  <2>4. ThreadTexts'
    BY <1>1, <1>2, <2>1, <2>2, CallTexts
  <2>5. ThreadBlock'
    BY <1>1, <2>1, <2>2, CallBlock
  <2>6. ThreadCounter'
    BY <1>1, <2>1, <2>2, QuietCount
  <2> QED
    BY <2>3, <2>4, <2>5, <2>6 DEF ThreadInv
<1>7. CASE Threads!CancelActs(t)
  <2>1. ThreadPlaces' /\ progT = "ex08_cleanup"
    BY <1>1, <1>7, CancelPlaces
  <2>2. ThreadTexts' /\ ThreadBlock'
    BY <1>1, <1>7, CancelInv
  <2>3. UNCHANGED <<progT, loops, temp, count, holder>>
    BY <1>7 DEF Threads!CancelActs
  <2>4. ThreadCounter'
    BY <1>1, <2>1, <2>3 DEF ThreadCounter, Counting
  <2> QED
    BY <2>1, <2>2, <2>4 DEF ThreadInv
<1>8. ASSUME NEW o \in {"lock", "load", "store", "unlock"}, Threads!At(t, o),
             pcT' = [pcT EXCEPT ![t] = pcT[t] + 1],
             UNCHANGED <<progT, codeT, asked, disabled, pushed, heap, result, statusT>>
      PROVE  ThreadPlaces' /\ ThreadTexts' /\ ThreadBlock'
  BY <1>1, <1>2, <1>8, CallMoves, CallTexts, CallBlock
<1>9. CASE Threads!LockCall(t)
  <2>1. ThreadPlaces' /\ ThreadTexts' /\ ThreadBlock'
    BY <1>8, <1>9 DEF Threads!LockCall, Threads!Goes
  <2> QED
    BY <1>1, <1>9, <2>1, LockCount DEF ThreadInv
<1>10. CASE Threads!LoadCounter(t)
  <2>1. ThreadPlaces' /\ ThreadTexts' /\ ThreadBlock'
    BY <1>8, <1>10 DEF Threads!LoadCounter, Threads!Goes
  <2> QED
    BY <1>1, <1>10, <2>1, LoadCount DEF ThreadInv
<1>11. CASE Threads!StoreCounter(t)
  <2>1. ThreadPlaces' /\ ThreadTexts' /\ ThreadBlock'
    BY <1>8, <1>11 DEF Threads!StoreCounter, Threads!Goes
  <2> QED
    BY <1>1, <1>11, <2>1, StoreCount DEF ThreadInv
<1>12. CASE Threads!UnlockCall(t)
  <2>1. ThreadPlaces' /\ ThreadTexts' /\ ThreadBlock'
    BY <1>8, <1>12 DEF Threads!UnlockCall, Threads!Goes
  <2> QED
    BY <1>1, <1>12, <2>1, UnlockCount DEF ThreadInv
<1>13. CASE Threads!Repeat(t)
  <2>1. ThreadPlaces' /\ progT \in Counting
    BY <1>1, <1>13, RepeatPlaces
  <2>2. UNCHANGED <<progT, asked, disabled, pushed, heap, result>>
    BY <1>13 DEF Threads!Repeat
  <2>3. ThreadTexts' /\ ThreadBlock'
    BY <1>1, <2>1, <2>2 DEF ThreadTexts, ThreadBlock, Texting, Counting, Blocking
  <2> QED
    BY <1>1, <1>13, <2>1, <2>3, RepeatCount DEF ThreadInv
<1>14. CASE Threads!ExitCall(t)
  <2>1. /\ Threads!At(t, "exit") /\ pcT' = [pcT EXCEPT ![t] = pcT[t] + 1]
        /\ UNCHANGED <<progT, codeT, loops, temp, count, holder, asked, disabled, pushed, heap,
                       statusT>>
        /\ result' = [result EXCEPT ![t] = Threads!Argument(t)]
    BY <1>14 DEF Threads!ExitCall, Threads!Goes
  <2>2. ThreadTexts' /\ t \in Worker /\ pcT[t] = LastPlace(progT, t)
    BY <1>1, <1>14, ExitTexts
  <2>3. ThreadPlaces'
    BY <1>1, <2>1, CallMoves
  <2>4. ThreadBlock'
    <3>1. CASE t = "t1"
      BY <1>1, <2>1, <2>2, <3>1, CallBlock
    <3>2. CASE t # "t1"
      <4>1. progT \notin Blocking
        <5>1. t \in Workers(progT)
          <6>1. pcT[t] # 0
            BY <1>1, <2>1, ThreadCall
          <6> QED
            BY <1>1, <2>2, <6>1 DEF ThreadPlaces
        <5> QED
          BY <3>2, <5>1 DEF Workers, Blocking
      <4> QED
        BY <1>1, <2>1, <4>1 DEF ThreadBlock
    <3> QED
      BY <3>1, <3>2
  <2>5. ThreadCounter'
    BY <1>1, <2>1, QuietCount
  <2> QED
    BY <2>2, <2>3, <2>4, <2>5 DEF ThreadInv
<1> QED
  BY <1>3, <1>4, <1>5, <1>6, <1>7, <1>9, <1>10, <1>11, <1>12, <1>13, <1>14, ThreadOwnInv
  DEF Threads!Step

LEMMA ThreadNextInv == ThreadInv /\ [Threads!ThreadNext]_threadV => ThreadInv'
<1> SUFFICES ASSUME ThreadInv, [Threads!ThreadNext]_threadV PROVE ThreadInv'
  OBVIOUS
<1>1. ThreadPlaces /\ ThreadTexts /\ ThreadBlock /\ ThreadCounter
  BY DEF ThreadInv
<1>2. ASSUME UNCHANGED <<progT, pcT, loops, temp, count, holder, asked, disabled, pushed, heap,
                         result>>
      PROVE  ThreadTexts' /\ ThreadBlock' /\ ThreadCounter'
  <2>1. ThreadTexts'
    BY <1>1, <1>2 DEF ThreadTexts
  <2>2. ThreadBlock'
    BY <1>1, <1>2 DEF ThreadBlock
  <2>3. ThreadCounter'
    BY <1>1, <1>2, OthersCount
  <2> QED
    BY <2>1, <2>2, <2>3
<1>3. CASE UNCHANGED threadV
  <2>1. ThreadPlaces'
    BY <1>1, <1>3 DEF threadV, ThreadPlaces
  <2> QED
    BY <1>2, <1>3, <2>1 DEF threadV, ThreadInv
<1>4. CASE Threads!MainReturns
  <2>1. /\ pcT["main"] = Len(codeT["main"]) + 1 /\ statusT' = "exit"
        /\ UNCHANGED <<progT, codeT, pcT, loops, temp, count, holder, asked, disabled, pushed,
                       heap, result>>
    BY <1>4 DEF Threads!MainReturns, Threads!Ended, Threads!Calls
  <2>2. Len(codeT["main"]) = LastPlace(progT, "main")
    BY <1>1, PlaceFacts, ThreadFacts DEF ThreadPlaces, ThreadFactsOf, ThreadListFacts
  <2>3. ThreadPlaces'
    BY <1>1, <2>1, <2>2 DEF ThreadPlaces
  <2> QED
    BY <1>2, <2>1, <2>3 DEF ThreadInv
<1> QED
  BY <1>3, <1>4, ThreadStepInv DEF Threads!ThreadNext

\* How many of the three there are.
LEMMA CountOfThree ==
  ASSUME NEW S \in SUBSET Worker
  PROVE  Cardinality(S) = (IF "t1" \in S THEN 1 ELSE 0) + (IF "t2" \in S THEN 1 ELSE 0)
                            + (IF "t3" \in S THEN 1 ELSE 0)
<1>1. IsFiniteSet({}) /\ Cardinality({}) = 0
  BY FS_EmptySet
<1>2. /\ IsFiniteSet(S \cap {"t1"})
      /\ Cardinality(S \cap {"t1"}) = IF "t1" \in S THEN 1 ELSE 0
  <2>1. CASE "t1" \in S
    <3>1. S \cap {"t1"} = {} \cup {"t1"}
      BY <2>1
    <3>2. IsFiniteSet({} \cup {"t1"}) /\ Cardinality({} \cup {"t1"}) = 1
      BY <1>1, FS_AddElement
    <3> QED
      BY <2>1, <3>1, <3>2
  <2>2. CASE "t1" \notin S
    <3>1. S \cap {"t1"} = {}
      BY <2>2
    <3> QED
      BY <1>1, <2>2, <3>1
  <2> QED
    BY <2>1, <2>2
<1>3. /\ IsFiniteSet(S \cap {"t1", "t2"})
      /\ Cardinality(S \cap {"t1", "t2"}) =
           (IF "t1" \in S THEN 1 ELSE 0) + (IF "t2" \in S THEN 1 ELSE 0)
  <2>1. CASE "t2" \in S
    <3>1. S \cap {"t1", "t2"} = (S \cap {"t1"}) \cup {"t2"} /\ "t2" \notin S \cap {"t1"}
      BY <2>1
    <3>2. /\ IsFiniteSet((S \cap {"t1"}) \cup {"t2"})
          /\ Cardinality((S \cap {"t1"}) \cup {"t2"}) = Cardinality(S \cap {"t1"}) + 1
      BY <1>2, <3>1, FS_AddElement
    <3> QED
      BY <1>2, <2>1, <3>1, <3>2
  <2>2. CASE "t2" \notin S
    <3>1. S \cap {"t1", "t2"} = S \cap {"t1"}
      BY <2>2
    <3> QED
      BY <1>2, <2>2, <3>1
  <2> QED
    BY <2>1, <2>2
<1>4. CASE "t3" \in S
  <2>1. S = (S \cap {"t1", "t2"}) \cup {"t3"} /\ "t3" \notin S \cap {"t1", "t2"}
    BY <1>4 DEF Worker
  <2>2. Cardinality((S \cap {"t1", "t2"}) \cup {"t3"}) = Cardinality(S \cap {"t1", "t2"}) + 1
    BY <1>3, <2>1, FS_AddElement
  <2> QED
    BY <1>3, <1>4, <2>1, <2>2
<1>5. CASE "t3" \notin S
  <2>1. S = S \cap {"t1", "t2"}
    BY <1>5 DEF Worker
  <2> QED
    BY <1>3, <1>5, <2>1
<1> QED
  BY <1>4, <1>5

LEMMA SameCardinality == \A S : Threads!Cardinality(S) = Cardinality(S)
  BY DEF Threads!Cardinality, Cardinality

\* When main has returned, each worker was never created or has done all its rounds.
LEMMA ThreadCountExact == ThreadInv => Threads!CountExact
<1> SUFFICES ASSUME ThreadPlaces, ThreadCounter, statusT = "exit", progT \in Counting
             PROVE  count = Threads!Loops
                              * Cardinality({t \in Threads!Thread \ {"main"} : pcT[t] # 0})
  BY SameCardinality DEF ThreadInv, Threads!CountExact, Threads!Created, Counting
<1> DEFINE S == {t \in Threads!Thread \ {"main"} : pcT[t] # 0}
<1>1. S \subseteq Worker /\ \A t \in Worker : t \in S <=> pcT[t] # 0
  BY DEF Worker, Threads!Thread
<1>2. \A t \in Worker : Increments[t] = IF t \in S THEN Threads!Loops ELSE 0
  <2> SUFFICES ASSUME NEW t \in Worker
               PROVE  Increments[t] = IF t \in S THEN Threads!Loops ELSE 0
    OBVIOUS
  <2>1. CASE pcT[t] = 0
    <3>1. loops[t] = 0 /\ pcT[t] \notin (LockedAt(progT) + 3)..(UnlockedAt(progT) + 1)
      BY <2>1, MutexPlaces DEF ThreadCounter
    <3> QED
      BY <1>1, <2>1, <3>1 DEF Increments
  <2>2. CASE pcT[t] # 0
    <3>1. t \in Workers(progT) /\ pcT["main"] > JoinedAt(progT, t)
      <4>1. t \in Workers(progT) /\ pcT["main"] = LastPlace(progT, "main") + 1
        BY <2>2 DEF ThreadPlaces
      <4> QED
        BY <4>1, PlaceFacts
    <3>2. pcT[t] = LastPlace(progT, t) + 1
      BY <2>2, <3>1 DEF ThreadPlaces
    <3>3. /\ pcT[t] > UnlockedAt(progT) + 1
          /\ pcT[t] \notin (LockedAt(progT) + 3)..(UnlockedAt(progT) + 1)
      <4>1. LastPlace(progT, t) \in Nat
        BY PlaceFacts
      <4> QED
        BY <3>1, <3>2, <4>1, MutexPlaces
    <3>4. loops[t] = Threads!Loops /\ Threads!Loops \in Nat
      BY <3>3, MutexPlaces DEF ThreadCounter
    <3> QED
      BY <1>1, <2>2, <3>3, <3>4 DEF Increments
  <2> QED
    BY <2>1, <2>2
<1>3. Cardinality(S) = (IF "t1" \in S THEN 1 ELSE 0) + (IF "t2" \in S THEN 1 ELSE 0)
                         + (IF "t3" \in S THEN 1 ELSE 0)
  BY <1>1, CountOfThree
<1>4. count = Increments["t1"] + Increments["t2"] + Increments["t3"]
  BY DEF ThreadCounter
<1>5. /\ Increments["t1"] = IF "t1" \in S THEN Threads!Loops ELSE 0
      /\ Increments["t2"] = IF "t2" \in S THEN Threads!Loops ELSE 0
      /\ Increments["t3"] = IF "t3" \in S THEN Threads!Loops ELSE 0
  BY <1>2 DEF Worker
<1>6. Threads!Loops \in {5, 10}
  BY MutexPlaces
<1> HIDE DEF S
<1>7. count = Threads!Loops * Cardinality(S)
  <2>1. CASE Threads!Loops = 5
    BY <1>3, <1>4, <1>5, <2>1
  <2>2. CASE Threads!Loops = 10
    BY <1>3, <1>4, <1>5, <2>2
  <2> QED
    BY <1>6, <2>1, <2>2
<1> QED
  BY <1>7 DEF S

LEMMA ThreadFreedOnce == ThreadInv => Threads!FreedOnce
<1> SUFFICES ASSUME ThreadInv PROVE Threads!FreedOnce
  OBVIOUS
<1>1. ThreadPlaces /\ ThreadBlock
  BY DEF ThreadInv
<1>2. CASE progT \notin Blocking
  BY <1>1, <1>2 DEF ThreadBlock, Threads!FreedOnce, Blocking
<1>3. CASE progT \in Blocking
  <2>1. pcT["t1"] \in 0..9
    <3>1. LastPlace(progT, "t1") = 8 /\ "t1" \in Threads!Thread
      BY <1>3 DEF LastPlace, Workers, Blocking, Threads!Thread
    <3> QED
      BY <1>1, <3>1, PlaceFacts DEF ThreadPlaces
  <2>2. heap # "twice"
    BY <1>1, <1>3, <2>1 DEF ThreadBlock
  <2>3. statusT = "exit" => pcT["t1"] = 9
    <3> SUFFICES ASSUME statusT = "exit" PROVE pcT["t1"] = 9
      OBVIOUS
    <3>1. pcT["main"] = LastPlace(progT, "main") + 1
      BY <1>1 DEF ThreadPlaces
    <3>2. /\ "t1" \in Workers(progT) /\ progT # "exercise" /\ LastPlace(progT, "t1") = 8
          /\ pcT["main"] > 1 /\ pcT["main"] > JoinedAt(progT, "t1")
      BY <1>3, <3>1 DEF LastPlace, JoinedAt, Workers, Blocking
    <3> QED
      BY <1>1, <3>2 DEF ThreadPlaces
  <2> QED
    BY <1>1, <1>3, <2>2, <2>3 DEF ThreadBlock, Threads!FreedOnce
<1> QED
  BY <1>2, <1>3

LEMMA ThreadTextIsJoined == ThreadInv => Threads!TextIsJoined
<1> SUFFICES ASSUME ThreadPlaces, ThreadTexts, progT \in {"ex01", "ex02", "ex04"},
                    statusT \in {"exit", "crash"}
             PROVE  result["t1"] = "text"
  BY DEF ThreadInv, Threads!TextIsJoined
<1>1. /\ "t1" \in Workers(progT) /\ progT # "exercise" /\ progT \in Texting
      /\ JoinedAt(progT, "t1") \in Nat /\ JoinedAt(progT, "t1") > 1
      /\ LastPlace(progT, "main") = JoinedAt(progT, "t1")
  BY DEF Workers, Texting, JoinedAt, LastPlace
<1>2. pcT["main"] > JoinedAt(progT, "t1") /\ pcT["main"] > 1
  BY <1>1, PlaceFacts DEF ThreadPlaces
<1>3. pcT["t1"] = LastPlace(progT, "t1") + 1
  BY <1>1, <1>2 DEF ThreadPlaces
<1> QED
  BY <1>1, <1>3 DEF ThreadTexts

------------------------------------------------------------------------------
(* The ranges of all variables. *)

\* SemRestart: the sender has counted no further than to "end".
RestartInv == Restart!RestartTypeOK /\ (spc2 = "v" => i2 <= RestartN)

LEMMA RestartConstants ==
  RestartN \in Nat \ {0} /\ MaxKills \in Nat /\ Restart!Nothing = -1 /\ Restart!End = 0
  BY ExamplesAssumption DEF Restart!RestartAssumption, Restart!Nothing, Restart!End

LEMMA RestartInitInv == Restart!RestartInit => RestartInv
  BY RestartConstants
  DEF Restart!RestartInit, Restart!Init, Restart!NoUndo, Restart!Program, RestartInv,
      Restart!RestartTypeOK

LEMMA UndoneType ==
  ASSUME RestartInv, NEW p \in Restart!Program, sem2' \in [0..1 -> Nat],
         Restart!UndoneSemop(p)
  PROVE  undo' \in [Restart!Program -> [0..1 -> Int]]
<1>1. [s \in 0..1 |-> undo[p][s] - (sem2'[s] - sem2[s])] \in [0..1 -> Int]
  BY DEF RestartInv, Restart!RestartTypeOK
<1> QED
  BY <1>1 DEF RestartInv, Restart!RestartTypeOK, Restart!UndoneSemop

LEMMA PTypes ==
  ASSUME RestartInv, NEW s \in 0..1, Restart!P(s) \/ Restart!V(s)
  PROVE  sem2' \in [0..1 -> Nat]
<1>1. CASE sem2' = sem2
  BY <1>1 DEF RestartInv, Restart!RestartTypeOK
<1>2. CASE sem2[s] > 0 /\ sem2' = [sem2 EXCEPT ![s] = sem2[s] - 1]
  <2>1. sem2[s] - 1 \in Nat
    BY <1>2 DEF RestartInv, Restart!RestartTypeOK
  <2> QED
    BY <1>2, <2>1 DEF RestartInv, Restart!RestartTypeOK
<1>3. CASE sem2' = [sem2 EXCEPT ![s] = sem2[s] + 1]
  <2>1. sem2[s] + 1 \in Nat
    BY DEF RestartInv, Restart!RestartTypeOK
  <2> QED
    BY <1>3, <2>1 DEF RestartInv, Restart!RestartTypeOK
<1> QED
  BY <1>1, <1>2, <1>3 DEF Restart!P, Restart!V

LEMMA SetvalTypes ==
  ASSUME RestartInv, NEW s \in 0..1, NEW n \in Nat, sem2' = [sem2 EXCEPT ![s] = n],
         Restart!Setval(s)
  PROVE  sem2' \in [0..1 -> Nat] /\ undo' \in [Restart!Program -> [0..1 -> Int]]
<1>1. \A p \in Restart!Program : [undo[p] EXCEPT ![s] = 0] \in [0..1 -> Int]
  BY DEF RestartInv, Restart!RestartTypeOK
<1> QED
  BY <1>1 DEF Restart!Setval, RestartInv, Restart!RestartTypeOK

LEMMA UndoTypes ==
  ASSUME RestartInv, NEW p \in Restart!Program, Restart!Undo(p)
  PROVE  /\ sem2' \in [0..1 -> Nat] /\ undo' \in [Restart!Program -> [0..1 -> Int]]
         /\ missed' \subseteq Restart!Program
<1>1. \A s \in 0..1 : (IF sem2[s] + undo[p][s] < 0 THEN 0 ELSE sem2[s] + undo[p][s]) \in Nat
  BY DEF RestartInv, Restart!RestartTypeOK
<1>2. sem2' \in [0..1 -> Nat]
  BY <1>1 DEF Restart!Undo, RestartInv, Restart!RestartTypeOK
<1>3. undo' \in [Restart!Program -> [0..1 -> Int]] /\ missed' \subseteq Restart!Program
  BY DEF Restart!Undo, Restart!NoUndo, RestartInv, Restart!RestartTypeOK
<1> QED
  BY <1>2, <1>3

LEMMA RemovesTypes ==
  ASSUME RestartInv, NEW other \in Restart!Program, NEW pc, Restart!RemovesSet(other, pc)
  PROVE  undo' \in [Restart!Program -> [0..1 -> Int]] /\ missed' \subseteq Restart!Program
<1>1. Restart!NoUndo \in [0..1 -> Int]
  BY DEF Restart!NoUndo
<1>2. undo' \in [Restart!Program -> [0..1 -> Int]]
  BY <1>1 DEF Restart!RemovesSet
<1>3. missed' \subseteq Restart!Program
  BY DEF Restart!RemovesSet, RestartInv, Restart!RestartTypeOK
<1> QED
  BY <1>2, <1>3

\* A program that ends before its time starts again from nothing.
LEMMA AgainInv ==
  ASSUME RestartInv, Restart!SenderAgain \/ Restart!ReceiverAgain, kills' \in 0..MaxKills
  PROVE  RestartInv'
<1>1. CASE Restart!SenderAgain
  <2>1. /\ sem2' \in [0..1 -> Nat] /\ undo' \in [Restart!Program -> [0..1 -> Int]]
        /\ missed' \subseteq Restart!Program
    BY <1>1, UndoTypes DEF Restart!SenderAgain, Restart!Program
  <2> QED
    BY <1>1, <2>1, RestartConstants DEF Restart!SenderAgain, RestartInv, Restart!RestartTypeOK
<1>2. CASE Restart!ReceiverAgain
  <2>1. /\ sem2' \in [0..1 -> Nat] /\ undo' \in [Restart!Program -> [0..1 -> Int]]
        /\ missed' \subseteq Restart!Program
    BY <1>2, UndoTypes DEF Restart!ReceiverAgain, Restart!Program
  <2> QED
    BY <1>2, <2>1 DEF Restart!ReceiverAgain, RestartInv, Restart!RestartTypeOK
<1> QED
  BY <1>1, <1>2

LEMMA RestartSenderInv == ASSUME RestartInv, Restart!SenderStep PROVE RestartInv'
<1> USE DEF RestartInv, Restart!RestartTypeOK
<1>1. kills' = kills /\ kills' \in 0..MaxKills
  BY DEF Restart!SenderStep
<1>2. CASE Restart!SenderShmget /\ Restart!MakesShm(rpc2) /\ segment2' = "key"
           /\ UNCHANGED <<undo, oldSet, missed>>
  BY <1>1, <1>2, RestartConstants DEF Restart!SenderShmget, Restart!GetShm, Restart!MakesShm
<1>3. CASE Restart!SenderSemget /\ Restart!MakesSet(rpc2)
           /\ UNCHANGED <<undo, segment2, oldSet, missed>>
  BY <1>1, <1>3 DEF Restart!SenderSemget, Restart!GetSem, Restart!MakesSet
<1>4. CASE /\ \/ Restart!SenderSetval0 /\ Restart!Setval(0)
              \/ Restart!SenderSetval1 /\ Restart!Setval(1)
           /\ UNCHANGED <<segment2, oldSet, missed, parted>>
  <2>1. PICK s \in 0..1, n \in Nat : sem2' = [sem2 EXCEPT ![s] = n] /\ Restart!Setval(s)
    BY <1>4 DEF Restart!SenderSetval0, Restart!SenderSetval1, Restart!InitialPermits
  <2>2. sem2' \in [0..1 -> Nat] /\ undo' \in [Restart!Program -> [0..1 -> Int]]
    BY <2>1, SetvalTypes
  <2> QED
    BY <1>1, <1>4, <2>2 DEF Restart!SenderSetval0, Restart!SenderSetval1
<1>5. CASE (Restart!SenderP \/ Restart!SenderV) /\ Restart!UndoneSemop("sender")
           /\ UNCHANGED <<segment2, oldSet, missed, parted>>
  <2>1. sem2' \in [0..1 -> Nat]
    BY <1>5, PTypes DEF Restart!SenderP, Restart!SenderV
  <2>2. undo' \in [Restart!Program -> [0..1 -> Int]]
    BY <1>5, <2>1, UndoneType DEF Restart!Program
  <2> QED
    BY <1>1, <1>5, <2>1, <2>2, RestartConstants DEF Restart!SenderP, Restart!SenderV
<1>6. CASE /\ \/ segment2 = "key" /\ Restart!SenderWrite
              \/ Restart!SenderWriteLost \/ Restart!SenderRmidAgain
           /\ UNCHANGED <<undo, segment2, oldSet, missed, parted>>
  BY <1>1, <1>6, RestartConstants
  DEF Restart!SenderWrite, Restart!SenderWriteLost, Restart!SenderRmidAgain
<1>7. CASE /\ Restart!SenderRmid /\ Restart!RemovesSet("receiver", rpc2)
           /\ oldSet' = (oldSet \/ rpc2 \notin {"shmget", "semget"})
           /\ UNCHANGED <<segment2, parted>>
  <2>1. undo' \in [Restart!Program -> [0..1 -> Int]] /\ missed' \subseteq Restart!Program
    BY <1>7, RemovesTypes DEF Restart!Program
  <2> QED
    BY <1>1, <1>7, <2>1 DEF Restart!SenderRmid
<1>8. CASE Restart!SenderFails
  BY <1>1, <1>8, AgainInv DEF Restart!SenderFails
<1> QED
  BY <1>2, <1>3, <1>4, <1>5, <1>6, <1>7, <1>8 DEF Restart!SenderStep, Restart!SenderSteps

LEMMA RestartReceiverInv == ASSUME RestartInv, Restart!ReceiverStep PROVE RestartInv'
<1> USE DEF RestartInv, Restart!RestartTypeOK
<1>1. kills' = kills /\ kills' \in 0..MaxKills
  BY DEF Restart!ReceiverStep
<1>2. CASE Restart!ReceiverShmget /\ Restart!MakesShm(spc2)
           /\ UNCHANGED <<undo, segment2, oldSet, missed>>
  BY <1>1, <1>2, RestartConstants DEF Restart!ReceiverShmget, Restart!GetShm, Restart!MakesShm
<1>3. CASE Restart!ReceiverSemget /\ Restart!MakesSet(spc2)
           /\ UNCHANGED <<undo, segment2, oldSet, missed>>
  BY <1>1, <1>3 DEF Restart!ReceiverSemget, Restart!GetSem, Restart!MakesSet
<1>4. CASE /\ Restart!ReceiverCheck \/ Restart!ReceiverShows \/ Restart!ReceiverGoesOn
           /\ UNCHANGED <<undo, segment2, oldSet, missed, parted>>
  BY <1>1, <1>4 DEF Restart!ReceiverCheck, Restart!ReceiverShows, Restart!ReceiverGoesOn
<1>5. CASE /\ Restart!ReceiverP \/ Restart!ReceiverV
           /\ Restart!UndoneSemop("receiver")
           /\ UNCHANGED <<segment2, oldSet, missed, parted>>
  <2>1. sem2' \in [0..1 -> Nat]
    BY <1>5, PTypes DEF Restart!ReceiverP, Restart!ReceiverV
  <2>2. undo' \in [Restart!Program -> [0..1 -> Int]]
    BY <1>5, <2>1, UndoneType DEF Restart!Program
  <2> QED
    BY <1>1, <1>5, <2>1, <2>2 DEF Restart!ReceiverP, Restart!ReceiverV
<1>6. CASE Restart!ReceiverRmidShm /\ Restart!SenderLosesShm
           /\ UNCHANGED <<undo, oldSet, missed, parted>>
  BY <1>1, <1>6 DEF Restart!ReceiverRmidShm, Restart!SenderLosesShm
<1>7. CASE Restart!ReceiverRmidSet /\ Restart!RemovesSet("sender", spc2)
           /\ UNCHANGED <<segment2, oldSet, parted>>
  <2>1. undo' \in [Restart!Program -> [0..1 -> Int]] /\ missed' \subseteq Restart!Program
    BY <1>7, RemovesTypes DEF Restart!Program
  <2> QED
    BY <1>1, <1>7, <2>1 DEF Restart!ReceiverRmidSet
<1>8. CASE Restart!ReceiverFails
  BY <1>1, <1>8, AgainInv DEF Restart!ReceiverFails
<1> QED
  BY <1>2, <1>3, <1>4, <1>5, <1>6, <1>7, <1>8 DEF Restart!ReceiverStep, Restart!ReceiverSteps

LEMMA RestartNextInv == RestartInv /\ [Restart!RestartNext]_restartV => RestartInv'
<1> SUFFICES ASSUME RestartInv, [Restart!RestartNext]_restartV PROVE RestartInv'
  OBVIOUS
<1>1. CASE UNCHANGED restartV
  BY <1>1 DEF restartV, RestartInv, Restart!RestartTypeOK
<1>2. CASE Restart!KillSender \/ Restart!KillReceiver
  <2>1. kills' \in 0..MaxKills
    BY <1>2, RestartConstants
    DEF Restart!KillSender, Restart!KillReceiver, RestartInv, Restart!RestartTypeOK
  <2> QED
    BY <1>2, <2>1, AgainInv DEF Restart!KillSender, Restart!KillReceiver
<1> QED
  BY <1>1, <1>2, RestartSenderInv, RestartReceiverInv DEF Restart!RestartNext

\* SignalExamples: what was counted, beside SignalInv.
SignalCounts == caught \subseteq Signals!Sig /\ sent \in 0..MaxSent

LEMMA SignalCountsInit == Signals!SignalInit => SignalCounts
  BY SignalConstants DEF Signals!SignalInit, SignalCounts

LEMMA SignalCountsNext ==
  SignalInv /\ SignalCounts /\ [Signals!SignalNext]_signalV => SignalCounts'
<1> SUFFICES ASSUME SignalInv, SignalCounts, [Signals!SignalNext]_signalV PROVE SignalCounts'
  OBVIOUS
<1>1. pend \subseteq Signals!Sig
      /\ inside \in [Signals!Thread -> Signals!Sig \cup {Signals!None}]
  BY DEF SignalInv, SignalShapes, SignalThreads
<1>2. CASE UNCHANGED <<caught, sent>>
  BY <1>2 DEF SignalCounts
<1>3. CASE Signals!Send
  BY <1>3, SignalConstants DEF Signals!Send, SignalCounts
<1>4. ASSUME NEW t \in Signals!Thread, Signals!Return(t) PROVE SignalCounts'
  BY <1>1, <1>4 DEF Signals!Return, SignalCounts
<1>5. ASSUME NEW t \in Signals!Thread, Signals!SigwaitCall(t) PROVE SignalCounts'
  BY <1>1, <1>5 DEF Signals!SigwaitCall, SignalCounts
<1>6. CASE Signals!Expire \/ Signals!MainReturns \/ UNCHANGED signalV
  BY <1>2, <1>6 DEF Signals!Expire, Signals!MainReturns, signalV
<1>7. ASSUME NEW t \in Signals!Thread, NEW s \in Signals!Sig, Signals!Deliver(t, s)
      PROVE  SignalCounts'
  BY <1>2, <1>7 DEF Signals!Deliver
<1>8. ASSUME NEW t \in Signals!Thread,
             \/ Signals!MaskCall(t) \/ Signals!HandlerCall(t) \/ Signals!TimerCall(t)
             \/ Signals!SuspendCall(t) \/ Signals!CreateCall(t) \/ Signals!JoinCall(t)
             \/ Signals!WorkDone(t)
      PROVE  SignalCounts'
  BY <1>2, <1>8 DEF Signals!MaskCall, Signals!HandlerCall, Signals!TimerCall,
                    Signals!SuspendCall, Signals!CreateCall, Signals!JoinCall, Signals!WorkDone
<1> QED
  BY <1>3, <1>4, <1>5, <1>6, <1>7, <1>8 DEF Signals!SignalNext, Signals!Step

LEMMA TalkTypes == TalkInv => Queues!TalkTypeOK
  BY DEF TalkInv, TalkShapes, TalkPcs, TalkPlaces, Queues!TalkTypeOK

LEMMA FifoTypes == FifoInv => Fifos!FifoTypeOK
  BY DEF FifoInv, FifoShapes, FifoHeld, Fifos!FifoTypeOK

LEMMA ThreadTypes == ThreadInv => Threads!ThreadTypeOK
<1> SUFFICES ASSUME ThreadPlaces, ThreadTexts, ThreadBlock, ThreadCounter
             PROVE  Threads!ThreadTypeOK
  BY DEF ThreadInv
<1>1. \A t \in Threads!Thread : pcT[t] \in 0..(Len(codeT[t]) + 1)
  <2> SUFFICES ASSUME NEW t \in Threads!Thread PROVE pcT[t] \in 0..(Len(codeT[t]) + 1)
    OBVIOUS
  <2>1. Len(codeT[t]) = LastPlace(progT, t)
    BY ThreadFacts DEF ThreadPlaces, ThreadFactsOf, ThreadListFacts
  <2> QED
    BY <2>1, PlaceFacts DEF ThreadPlaces
<1>2. Threads!Loops \in Nat /\ 0 <= 3 * Threads!Loops /\ 0 <= Threads!Loops
  BY MutexPlaces
<1>3. \A t \in Threads!Thread : loops[t] \in 0..Threads!Loops /\ temp[t] \in 0..(3 * Threads!Loops)
  <2> SUFFICES ASSUME NEW t \in Threads!Thread
               PROVE  loops[t] \in 0..Threads!Loops /\ temp[t] \in 0..(3 * Threads!Loops)
    OBVIOUS
  <2>1. loops[t] \in Nat /\ temp[t] \in Nat
    BY DEF ThreadCounter
  <2>2. CASE progT \notin Counting \/ t = "main"
    <3>1. loops[t] = 0 /\ temp[t] = 0
      BY <2>2 DEF ThreadCounter
    <3> QED
      BY <1>2, <3>1
  <2>3. CASE progT \in Counting /\ t \in Worker
    <3>1. pcT[t] \in Nat /\ UnlockedAt(progT) \in Nat
      BY PlaceFacts, MutexPlaces
    <3>2. temp[t] <= 3 * Threads!Loops /\ loops[t] <= Threads!Loops
      BY <1>2, <2>1, <2>3, <3>1 DEF ThreadCounter
    <3> QED
      BY <1>2, <2>1, <3>2
  <2> QED
    BY <2>2, <2>3, PlaceFacts
<1>4. count \in 0..(3 * Threads!Loops)
  BY <1>2, CountBound DEF ThreadCounter
<1>5. /\ holder \in Threads!Thread \cup {Threads!None}
      /\ asked \cup disabled \cup pushed \subseteq Threads!Thread
  BY DEF ThreadCounter, ThreadTexts, ThreadBlock, Worker, Threads!Thread
<1>6. heap \in {"none", "held", "freed", "twice"}
  <2>1. CASE progT \in Blocking
    <3>1. pcT["t1"] \in 0..9
      <4>1. LastPlace(progT, "t1") = 8 /\ "t1" \in Threads!Thread
        BY <2>1 DEF LastPlace, Workers, Blocking, Threads!Thread
      <4> QED
        BY <4>1, PlaceFacts DEF ThreadPlaces
    <3> QED
      BY <2>1, <3>1 DEF ThreadBlock
  <2>2. CASE progT \notin Blocking
    BY <2>2 DEF ThreadBlock
  <2> QED
    BY <2>1, <2>2
<1>7. /\ result \in [Threads!Thread -> {Threads!None, "text", "canceled"}]
      /\ statusT \in {"run", "exit", "error", "crash"}
  BY DEF ThreadTexts, ThreadPlaces
<1> QED
  BY <1>1, <1>3, <1>4, <1>5, <1>6, <1>7 DEF Threads!ThreadTypeOK, Threads!Calls

LEMMA SignalTypes == SignalInv /\ SignalCounts => Signals!SignalTypeOK
<1> SUFFICES ASSUME SignalShapes, SignalThreads, SignalCounts PROVE Signals!SignalTypeOK
  BY DEF SignalInv
<1>1. \A t \in Signals!Thread : inside[t] # Signals!None => inside[t] \in mask[t] \ saved[t]
  BY DEF SignalThreads
<1> QED
  BY <1>1 DEF SignalShapes, SignalCounts, Signals!SignalTypeOK, Signals!Calls

LEMMA RestartTypes == RestartInv => Restart!RestartTypeOK
  BY DEF RestartInv

LEMMA ExamplesTypes ==
  IInv /\ BusyInv /\ ShmInv /\ FifoInv /\ TalkInv /\ ThreadInv /\ SignalInv /\ SignalCounts
    /\ RestartInv => ExamplesTypeOK
<1> SUFFICES ASSUME IInv, BusyInv, ShmInv, FifoInv, TalkInv, ThreadInv, SignalInv,
                    SignalCounts, RestartInv
             PROVE  ExamplesTypeOK
  OBVIOUS
<1>1. TypeOK /\ Busy!BusyTypeOK /\ Posix!ShmTypeOK
  BY DEF IInv, BusyInv, BusyShapes, ShmInv
<1> QED
  BY <1>1, TalkTypes, FifoTypes, ThreadTypes, SignalTypes, RestartTypes DEF ExamplesTypeOK

------------------------------------------------------------------------------
(* A run of one of the programs. *)

exampleVars ==
  <<example, vars, restartV, queueV, busyV, posixV, fifoV, threadV, signalV>>

\* The program that runs takes its steps; the others stay where they start.
LEMMA ExamplesStep ==
  [ExamplesNext]_exampleVars
    => /\ [Next]_vars /\ [Restart!RestartNext]_restartV /\ [Queues!TalkNext]_queueV
       /\ [Busy!BusyNext]_busyV /\ [Posix!ShmNext]_posixV /\ [Fifos!FifoNext]_fifoV
       /\ [Threads!ThreadNext]_threadV /\ [Signals!SignalNext]_signalV
<1> SUFFICES ASSUME [ExamplesNext]_exampleVars
             PROVE  /\ [Next]_vars /\ [Restart!RestartNext]_restartV /\ [Queues!TalkNext]_queueV
                    /\ [Busy!BusyNext]_busyV /\ [Posix!ShmNext]_posixV /\ [Fifos!FifoNext]_fifoV
                    /\ [Threads!ThreadNext]_threadV /\ [Signals!SignalNext]_signalV
  OBVIOUS
<1>1. CASE Next /\ UNCHANGED <<restartV, queueV, busyV, posixV, fifoV, threadV, signalV>>
  BY <1>1
<1>2. CASE Restart!RestartNext /\ UNCHANGED <<vars, queueV, busyV, posixV, fifoV, threadV, signalV>>
  BY <1>2
<1>3. CASE Queues!TalkNext /\ UNCHANGED <<vars, restartV, busyV, posixV, fifoV, threadV, signalV>>
  BY <1>3
<1>4. CASE Busy!BusyNext /\ UNCHANGED <<vars, restartV, queueV, posixV, fifoV, threadV, signalV>>
  BY <1>4
<1>5. CASE Posix!ShmNext /\ UNCHANGED <<vars, restartV, queueV, busyV, fifoV, threadV, signalV>>
  BY <1>5
<1>6. CASE Threads!ThreadNext /\ UNCHANGED <<vars, restartV, queueV, busyV, posixV, fifoV, signalV>>
  BY <1>6
<1>7. CASE Signals!SignalNext /\ UNCHANGED <<vars, restartV, queueV, busyV, posixV, fifoV, threadV>>
  BY <1>7
<1>8. CASE Fifos!FifoNext /\ UNCHANGED <<vars, restartV, queueV, busyV, posixV, threadV, signalV>>
  BY <1>8
<1>9. CASE UNCHANGED exampleVars
  BY <1>9 DEF exampleVars
<1> QED
  BY <1>1, <1>2, <1>3, <1>4, <1>5, <1>6, <1>7, <1>8, <1>9 DEF ExamplesNext

\* What holds throughout a run.
ExamplesInv ==
  /\ IInv /\ RestartInv /\ TalkInv /\ BusyInv /\ ShmInv /\ FifoInv /\ ThreadInv
  /\ SignalInv /\ SignalCounts

LEMMA ExamplesInvariance == ExamplesSpec => []ExamplesInv
<1>1. ExamplesInit => ExamplesInv
  BY InitInv, RestartInitInv, TalkInitInv, BusyInitInv, ShmInitInv, FifoInitInv, ThreadInitInv,
     SignalInitInv, SignalCountsInit DEF ExamplesInit, ExamplesInv
<1>2. ExamplesInv /\ [ExamplesNext]_exampleVars => ExamplesInv'
  BY NextInv, RestartNextInv, TalkNextInv, BusyNextInv, ShmNextInv, FifoNextInv, ThreadNextInv,
     SignalNextInv, SignalCountsNext, ExamplesStep DEF ExamplesInv
<1> QED
  BY <1>1, <1>2, PTL DEF ExamplesSpec, exampleVars

\* Every variable of every program of these chapters keeps its range, for any number of
\* messages, lines, kills, senders and processes: the count of ch08 never exceeds the number of
\* increments, and no semaphore of exercise-3/4 leaves Nat through kills, undos and new starts.
THEOREM TypesKept == ExamplesSpec => []ExamplesTypeOK
<1>1. ExamplesInv => ExamplesTypeOK
  BY ExamplesTypes DEF ExamplesInv
<1> QED
  BY <1>1, ExamplesInvariance, PTL

\* ex08-1/2 without any semaphore: of two whole texts the receiver prints one after the
\* other, the second is not older, however its reads and the writes of the sender mix.
THEOREM ForwardOnly == ExamplesSpec => NoStepBack
<1>1. ExamplesInv /\ [ExamplesNext]_exampleVars =>
        [last' # last /\ ~last.half /\ ~last'.half /\ last'.text # Busy!End
           => last'.text >= last.text]_Busy!busyVars
  BY BusyStepForward, ExamplesStep DEF ExamplesInv
<1> QED
  BY <1>1, ExamplesInvariance, PTL DEF ExamplesSpec, exampleVars, NoStepBack, Busy!NoStepBack

\* posix_shm.c, for any number of processes: SIGBUS strikes only who maps an object that its
\* creator has not sized, and a second shm_open() fails only when another has unlinked it.
THEOREM FailuresHaveCauses == ExamplesSpec => FailuresExplained
<1> DEFINE Explained ==
      \A p \in ShmProcess :
        /\ pcP[p] # "SIGBUS" /\ pcP'[p] = "SIGBUS" =>
             map[p] # p /\ pcP[map[p]] \in {"ftruncate", "exit"}
        /\ pcP[p] = "open" /\ pcP'[p] = "exit" =>
             \E q \in ShmProcess \ {p} : pcP[q] = "done"
<1>1. ExamplesInv /\ [ExamplesNext]_exampleVars => Explained
  BY ShmFailures, ExamplesStep DEF ExamplesInv
<1>2. ExamplesInv /\ [ExamplesNext]_exampleVars => [Explained]_Posix!shmVars
  BY <1>1
<1> QED
  BY <1>2, ExamplesInvariance, PTL
  DEF ExamplesSpec, exampleVars, FailuresExplained, Posix!FailuresExplained

\* ex05-1/2, exercise-1/2 and ex04-1/2, for any number of senders, lines and places: no
\* program looks at a result of msgsnd(), msgrcv(), read() or write(), and still a message
\* is lost only to the end of its receiver, and the lines of each come in order.
THEOREM EndsLoseOnly == ExamplesSpec => []OnlyEndsLose
<1>1. ExamplesInv => OnlyEndsLose
  BY DEF ExamplesInv, OnlyEndsLose, FifoInv, FifoOrder, TalkInv
<1> QED
  BY <1>1, ExamplesInvariance, PTL

\* Who ends last removes the queues and the segment, but for the late starts the modules
\* name.
THEOREM ObjectsGone == ExamplesSpec => []ObjectsRemoved
<1>1. BusyInv => Busy!BusyLeavesNothing
  BY DEF BusyInv, BusyShapes, BusySegments, Busy!BusyLeavesNothing
<1>2. ExamplesInv => ObjectsRemoved
  BY <1>1, TalkQueuesRemoved DEF ExamplesInv, ObjectsRemoved
<1> QED
  BY <1>2, ExamplesInvariance, PTL

\* ch06, ch06-2 and ch08: whichever signals come, however many and whenever, none that the
\* program blocks or has a handler for at that moment ends it; in the programs with threads
\* no thread lets one through before its handler is there.
THEOREM OnlyOpenKills == ExamplesSpec => []OnlyOpenSignalsKill
<1>1. ExamplesInv => OnlyOpenSignalsKill
  BY DEF ExamplesInv, SignalInv, OnlyOpenSignalsKill
<1> QED
  BY <1>1, ExamplesInvariance, PTL

\* ch08: no increment of any thread is lost, wherever the others are when it is created and
\* when it reads; the block of ex08.c is freed once, wherever the cancellation acts, unless
\* that is before the handler is there; and ex02.c never prints the text of a thread that
\* was cancelled.
THEOREM NothingLost == ExamplesSpec => []NothingLostOrFreedTwice
<1>1. ExamplesInv => NothingLostOrFreedTwice
  BY ThreadCountExact, ThreadFreedOnce, ThreadTextIsJoined
  DEF ExamplesInv, NothingLostOrFreedTwice
<1> QED
  BY <1>1, ExamplesInvariance, PTL

==============================================================================
