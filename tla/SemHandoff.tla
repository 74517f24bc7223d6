------------------------------ MODULE SemHandoff ------------------------------
(***************************************************************************)
(* ch07/exercise-3.c and exercise-4.c: a sender and a receiver hand N      *)
(* messages and a final "end" over one shared-memory segment.  sem[0] is   *)
(* the permission to write and sem[1] the permission to read; both         *)
(* programs ignore the result of semop().  Either program may be started   *)
(* first and both create what does not exist yet.                          *)
(***************************************************************************)
EXTENDS Integers, Sequences

CONSTANT N      \* messages sent before "end", 20 in the program

ASSUME NAssumption == N \in Nat \ {0}

End == 0        \* the text "end"; message i is the number i
Nothing == -1   \* the empty string of a fresh segment

VARIABLES
  shm,      \* the segment exists: "none", "live" or "removed"
  text,     \* its content, which those attached see after its removal too
  set,      \* the semaphore set: "none", "live" or "removed"
  sem,      \* semaphore values
  spc, i,   \* the sender: where it is, and its loop counter
  rpc,      \* the receiver: where it is
  printed   \* what the receiver has printed

vars == <<shm, text, set, sem, spc, i, rpc, printed>>

Init ==
  /\ shm = "none" /\ text = Nothing
  /\ set = "none" /\ sem = [s \in 0..1 |-> 0]
  /\ spc = "shmget" /\ i = 1
  /\ rpc = "shmget" /\ printed = <<>>

------------------------------------------------------------------------------
\* Kernel objects.

\* shmget() and semget(), with IPC_CREAT|IPC_EXCL and then without: the object is
\* found, or created anew and zeroed.
GetShm == shm' = "live" /\ text' = IF shm = "live" THEN text ELSE Nothing
GetSem == set' = "live" /\ sem' = IF set = "live" THEN sem ELSE [s \in 0..1 |-> 0]

\* semop() of -1: blocks while the semaphore is 0; on a removed set, before the
\* call or while it sleeps, it fails at once and the caller goes on.
P(s) ==
  \/ set = "live" /\ sem[s] > 0 /\ sem' = [sem EXCEPT ![s] = @ - 1]
  \/ set = "removed" /\ UNCHANGED sem

\* semop() of +1.
V(s) == sem' = IF set = "live" THEN [sem EXCEPT ![s] = @ + 1] ELSE sem

------------------------------------------------------------------------------
\* The sender.

SenderShmget ==
  /\ spc = "shmget"
  /\ GetShm
  /\ spc' = "semget"
  /\ UNCHANGED <<set, sem, i, rpc, printed>>

SenderSemget ==
  /\ spc = "semget"
  /\ GetSem
  /\ spc' = "setval0"
  /\ UNCHANGED <<shm, text, i, rpc, printed>>

\* Mutation: two permissions to write at the start.
TwoPermits == 2
InitialPermits == 1

SenderSetval0 ==
  /\ spc = "setval0"
  /\ sem' = [sem EXCEPT ![0] = InitialPermits]
  /\ spc' = "setval1"
  /\ UNCHANGED <<shm, text, set, i, rpc, printed>>

SenderSetval1 ==
  /\ spc = "setval1"
  /\ sem' = [sem EXCEPT ![1] = 0]
  /\ spc' = "p"
  /\ UNCHANGED <<shm, text, set, i, rpc, printed>>

\* One permission to write is taken for each message and for "end".  Mutation:
\* none is taken for "end".
SenderPExceptEnd ==
  /\ spc = "p"
  /\ IF i <= N THEN P(0) ELSE UNCHANGED sem
  /\ spc' = "write"
  /\ UNCHANGED <<shm, text, set, i, rpc, printed>>
SenderP ==
  /\ spc = "p"
  /\ P(0)
  /\ spc' = "write"
  /\ UNCHANGED <<shm, text, set, i, rpc, printed>>

SenderWrite ==
  /\ spc = "write"
  /\ text' = IF i <= N THEN i ELSE End
  /\ spc' = IF i <= N THEN "v" ELSE "rmid"
  /\ UNCHANGED <<shm, set, sem, i, rpc, printed>>

SenderV ==
  /\ spc = "v"
  /\ V(1)
  /\ i' = i + 1
  /\ spc' = "p"
  /\ UNCHANGED <<shm, text, set, rpc, printed>>

\* After "end" there is no V: the removal of the set lets the receiver go on.
\* Mutation: the set is left in place.
SenderKeepsSet ==
  /\ spc = "rmid"
  /\ spc' = "rmid2"
  /\ UNCHANGED <<shm, text, set, sem, i, rpc, printed>>
SenderRmid ==
  /\ spc = "rmid"
  /\ set' = "removed"
  /\ spc' = "rmid2"
  /\ UNCHANGED <<shm, text, sem, i, rpc, printed>>

\* IPC_RMID removes the whole set, so that the second call fails.
SenderRmidAgain ==
  /\ spc = "rmid2"
  /\ spc' = "done"
  /\ UNCHANGED <<shm, text, set, sem, i, rpc, printed>>

Sender ==
  \/ SenderShmget \/ SenderSemget \/ SenderSetval0 \/ SenderSetval1
  \/ SenderP \/ SenderWrite \/ SenderV \/ SenderRmid \/ SenderRmidAgain

------------------------------------------------------------------------------
\* The receiver.

ReceiverShmget ==
  /\ rpc = "shmget"
  /\ GetShm
  /\ rpc' = "semget"
  /\ UNCHANGED <<set, sem, spc, i, printed>>

ReceiverSemget ==
  /\ rpc = "semget"
  /\ GetSem
  /\ rpc' = "p"
  /\ UNCHANGED <<shm, text, spc, i, printed>>

ReceiverP ==
  /\ rpc = "p"
  /\ P(1)
  /\ rpc' = "check"
  /\ UNCHANGED <<shm, text, set, spc, i, printed>>

\* "end" leaves the loop; an empty string starts it again, with no V.
ReceiverCheck ==
  /\ rpc = "check"
  /\ rpc' = IF text = End THEN "rmid" ELSE IF text = Nothing THEN "p" ELSE "print"
  /\ UNCHANGED <<shm, text, set, sem, spc, i, printed>>

\* The segment is read again for the output.
ReceiverPrint ==
  /\ rpc = "print"
  /\ printed' = Append(printed, text)
  /\ rpc' = "v"
  /\ UNCHANGED <<shm, text, set, sem, spc, i>>

ReceiverV ==
  /\ rpc = "v"
  /\ V(0)
  /\ rpc' = "p"
  /\ UNCHANGED <<shm, text, set, spc, i, printed>>

\* The segment is removed.  Mutation: it is not.
ReceiverKeepsShm ==
  /\ rpc = "rmid"
  /\ rpc' = "rmset"
  /\ UNCHANGED <<shm, text, set, sem, spc, i, printed>>
ReceiverRmidShm ==
  /\ rpc = "rmid"
  /\ shm' = "removed"
  /\ rpc' = "rmset"
  /\ UNCHANGED <<text, set, sem, spc, i, printed>>

\* Then the set, in vain if the sender has removed it.
ReceiverRmidSet ==
  /\ rpc = "rmset"
  /\ set' = "removed"
  /\ rpc' = "done"
  /\ UNCHANGED <<shm, text, sem, spc, i, printed>>

Receiver ==
  \/ ReceiverShmget \/ ReceiverSemget \/ ReceiverP
  \/ ReceiverCheck \/ ReceiverPrint \/ ReceiverV
  \/ ReceiverRmidShm \/ ReceiverRmidSet

------------------------------------------------------------------------------
Next == Sender \/ Receiver

Spec == Init /\ [][Next]_vars

\* Both programs are started and scheduled.
FairSpec == Spec /\ WF_vars(Sender) /\ WF_vars(Receiver)

------------------------------------------------------------------------------
\* Properties.

\* Every variable stays in its range; in particular both semaphores are binary.
TypeOK ==
  /\ shm \in {"none", "live", "removed"} /\ set \in {"none", "live", "removed"}
  /\ text \in Nothing..N
  /\ sem \in [0..1 -> 0..1]
  /\ spc \in {"shmget", "semget", "setval0", "setval1", "p", "write", "v", "rmid", "rmid2",
             "done"}
  /\ i \in 1..(N + 1)
  /\ rpc \in {"shmget", "semget", "p", "check", "print", "v", "rmid", "rmset", "done"}
  /\ printed \in Seq(1..N)

\* While the semaphores exist at most one of the programs is between its P and
\* its V, and then neither semaphore is available.
SenderInside == spc \in {"write", "v", "rmid"}
ReceiverInside == rpc \in {"check", "print", "v", "rmid", "rmset"}
OneInside ==
  set = "live" =>
    /\ ~(SenderInside /\ ReceiverInside)
    /\ SenderInside \/ ReceiverInside => sem = [s \in 0..1 |-> 0]

\* A message is in the segment and has not been printed yet.
Unread ==
  spc = "v" \/ sem[1] = 1 \/ (rpc \in {"check", "print"} /\ text # End)

\* The two programs implement a one-place buffer: a message is never overwritten
\* before it was printed, and each is printed once and in order.
Fifo == INSTANCE BoundedFifo
          WITH Item <- 1..N, Capacity <- 1, taken <- printed, refused <- 0,
               items <- IF Unread THEN <<text>> ELSE <<>>
FifoSpec == Fifo!Spec

\* Both programs end and all messages were printed, in order.
BothEnded == spc = "done" /\ rpc = "done" /\ printed = [j \in 1..N |-> j]
BothEnd == []<>BothEnded

\* No IPC object outlives the two programs.
NothingLeftBehind == spc = "done" /\ rpc = "done" => shm = "removed" /\ set = "removed"
==============================================================================
