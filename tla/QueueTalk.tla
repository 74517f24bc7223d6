------------------------------ MODULE QueueTalk ------------------------------
(***************************************************************************)
(* The System V message queue pairs of ch07.                               *)
(* - "oneway": ex05-1.c, which may run in several terminals, sends lines   *)
(*   to ex05-2.c over queue 1.                                             *)
(* - "talk": exercise-1.c ("first") and exercise-2.c ("second") take turns *)
(*   over two queues; first sends over queue 1 and second over queue 2.    *)
(* No program looks at the result of fgets(), msgsnd() or msgrcv().  The   *)
(* type of a message always is the one its only kind of receiver asks for. *)
(***************************************************************************)
EXTENDS Integers, Sequences

CONSTANTS
  Sender,     \* the ex05-1 processes
  Room,       \* messages that fit into a queue
  MaxLines    \* lines a user types before "end" or end-of-file at the latest

VARIABLES
  kind,     \* which pair runs: "oneway" or "talk"
  exists,   \* the queues that exist
  queue,    \* queue[k]: the messages in queue k
  id,       \* id[p][k]: p has no identifier of queue k, that of the present queue, or
            \* that of a removed one: "none", "live", "gone"
  pc,
  buf,      \* what fgets() has left in the buffer of p
  rbuf,     \* what msgrcv() has left in the buffer of p
  typed,    \* lines typed into p
  eof,      \* programs whose stdin has ended
  \* of the model only
  ghost,    \* programs that have shown a message msgrcv() did not deliver then
  lost,     \* messages that were in a queue when it was removed, or sent to one that is
  heardEnd  \* whose "end" has stopped its receiver

talkVars == <<kind, exists, queue, id, pc, buf, rbuf, typed, eof, ghost, lost, heardEnd>>

Nobody == "nobody"
Process == Sender \union {"receiver", "first", "second"}

QueueAssumption ==
  /\ Room \in Nat \ {0} /\ MaxLines \in Nat
  /\ Sender \intersect {"receiver", "first", "second", Nobody} = {}

Running == IF kind = "oneway" THEN Sender \union {"receiver"} ELSE {"first", "second"}

\* A message is its author and the number of the line; line 0 is "end".
End(p) == <<p, 0>>
IsEnd(m) == m[2] = 0
Message == Process \X (0..(MaxLines + 1))

Out(p) == IF p = "second" THEN 2 ELSE 1     \* the queue p sends to
In(p) == IF p = "first" THEN 2 ELSE 1       \* the queue p receives from

TalkInit ==
  /\ kind \in {"oneway", "talk"}
  /\ exists = {} /\ queue = [k \in 1..2 |-> <<>>]
  /\ id = [p \in Process |-> [k \in 1..2 |-> "none"]]
  /\ pc = [p \in Process |-> "msgget"]
  /\ \E g \in {0, MaxLines + 1} : buf = [p \in Process |-> <<p, g>>]
  /\ rbuf = buf
  /\ typed = [p \in Process |-> 0] /\ eof = {}
  /\ ghost = {} /\ lost = {} /\ heardEnd = Nobody

------------------------------------------------------------------------------
\* The steps.

\* msgget() with IPC_CREAT: of queue 1, and in a talk then of queue 2.
Msgget(p) ==
  LET k == IF id[p][1] = "none" THEN 1 ELSE 2
  IN /\ pc[p] = "msgget"
     /\ exists' = exists \union {k}
     /\ id' = [id EXCEPT ![p][k] = "live"]
     /\ pc' = [pc EXCEPT ![p] =
                 IF kind = "talk" /\ k = 1 THEN "msgget"
                 ELSE IF p \in {"receiver", "second"} THEN "msgrcv" ELSE "fgets"]
     /\ UNCHANGED <<kind, queue, buf, rbuf, typed, eof, ghost, lost, heardEnd>>

\* The user types a line or "end", or stdin ends and the buffer keeps what it held.
Fgets(p) ==
  /\ pc[p] = "fgets"
  /\ \/ /\ p \notin eof /\ typed[p] < MaxLines
        /\ typed' = [typed EXCEPT ![p] = @ + 1]
        /\ buf' = [buf EXCEPT ![p] = <<p, typed'[p]>>]
        /\ UNCHANGED eof
     \/ /\ p \notin eof
        /\ buf' = [buf EXCEPT ![p] = End(p)]
        /\ UNCHANGED <<typed, eof>>
     \/ /\ eof' = eof \union {p}
        /\ UNCHANGED <<typed, buf>>
  /\ pc' = [pc EXCEPT ![p] = "msgsnd"]
  /\ UNCHANGED <<kind, exists, queue, id, rbuf, ghost, lost, heardEnd>>

\* After msgsnd(): "end" leaves the loop.
AfterSend(p) ==
  IF ~IsEnd(buf[p])
  THEN IF kind = "talk" THEN "msgrcv" ELSE "fgets"
  ELSE IF p = "second" THEN "rmid" ELSE "done"

\* msgsnd() hands the message to a process that sleeps in msgrcv(), or else puts
\* it into the queue once there is room.  Mutation: IPC_NOWAIT, the message is
\* dropped when there is none.
Deliver(p) ==
  LET k == Out(p)
      asleep == {r \in Running : pc[r] = "asleep" /\ In(r) = k}
  IN \/ /\ asleep # {}
        /\ \E r \in asleep :
             /\ rbuf' = [rbuf EXCEPT ![r] = buf[p]]
             /\ pc' = [pc EXCEPT ![p] = AfterSend(p), ![r] = "show"]
        /\ UNCHANGED <<queue, lost>>
     \/ /\ asleep = {} /\ Len(queue[k]) < Room
        /\ queue' = [queue EXCEPT ![k] = Append(@, buf[p])]
        /\ pc' = [pc EXCEPT ![p] = AfterSend(p)]
        /\ UNCHANGED <<rbuf, lost>>
Drop(p) ==
  /\ lost' = lost \union {buf[p]}
  /\ pc' = [pc EXCEPT ![p] = AfterSend(p)]
  /\ UNCHANGED <<queue, rbuf>>

MsgsndNoWait(p) ==
  /\ pc[p] = "msgsnd"
  /\ IF id[p][Out(p)] = "gone" \/ (Len(queue[Out(p)]) = Room) THEN Drop(p) ELSE Deliver(p)
  /\ UNCHANGED <<kind, exists, id, buf, typed, eof, ghost, heardEnd>>
Msgsnd(p) ==
  /\ pc[p] = "msgsnd"
  /\ IF id[p][Out(p)] = "gone" THEN Drop(p) ELSE Deliver(p)
  /\ UNCHANGED <<kind, exists, id, buf, typed, eof, ghost, heardEnd>>

\* msgrcv() takes the oldest message, or sleeps.  On a removed queue it fails; then
\* the program shows what its buffer held before.  Mutation: IPC_NOWAIT.
MsgrcvNoWait(p) ==
  /\ pc[p] = "msgrcv"
  /\ IF id[p][In(p)] = "gone" \/ queue[In(p)] = <<>>
     THEN ghost' = ghost \union {p} /\ UNCHANGED <<queue, rbuf>>
     ELSE /\ rbuf' = [rbuf EXCEPT ![p] = Head(queue[In(p)])]
          /\ queue' = [queue EXCEPT ![In(p)] = Tail(@)]
          /\ UNCHANGED ghost
  /\ pc' = [pc EXCEPT ![p] = "show"]
  /\ UNCHANGED <<kind, exists, id, buf, typed, eof, lost, heardEnd>>
Msgrcv(p) ==
  /\ pc[p] = "msgrcv"
  /\ IF id[p][In(p)] = "gone"
     THEN /\ pc' = [pc EXCEPT ![p] = "show"] /\ ghost' = ghost \union {p}
          /\ UNCHANGED <<queue, rbuf>>
     ELSE IF queue[In(p)] = <<>>
     THEN pc' = [pc EXCEPT ![p] = "asleep"] /\ UNCHANGED <<queue, rbuf, ghost>>
     ELSE /\ rbuf' = [rbuf EXCEPT ![p] = Head(queue[In(p)])]
          /\ queue' = [queue EXCEPT ![In(p)] = Tail(@)]
          /\ pc' = [pc EXCEPT ![p] = "show"]
          /\ UNCHANGED ghost
  /\ UNCHANGED <<kind, exists, id, buf, typed, eof, lost, heardEnd>>

\* The message is shown; "end" leaves the loop.
Show(p) ==
  /\ pc[p] = "show"
  /\ IF IsEnd(rbuf[p])
     THEN /\ heardEnd' = rbuf[p][1]
          /\ pc' = [pc EXCEPT ![p] = IF p = "first" THEN "done" ELSE "rmid"]
     ELSE /\ pc' = [pc EXCEPT ![p] = IF p = "receiver" THEN "msgrcv" ELSE "fgets"]
          /\ UNCHANGED heardEnd
  /\ UNCHANGED <<kind, exists, queue, id, buf, rbuf, typed, eof, ghost, lost>>

\* The queues a program removes at its end, one call each.  Mutation: exercise-2 removes
\* the first only.
FirstOnly == {1}
Removed == IF kind = "talk" THEN 1..2 ELSE {1}

\* msgctl(IPC_RMID), by ex05-2 of queue 1 and by exercise-2 of queue 1 and then 2: what
\* is in the queue is lost, and who sleeps on it goes on with what it held before.
Rmid(p) ==
  LET k == IF id[p][1] = "live" THEN 1 ELSE 2
      asleep == {r \in Running : pc[r] = "asleep" /\ In(r) = k}
  IN /\ pc[p] = "rmid"
     /\ lost' = lost \union {queue[k][j] : j \in DOMAIN queue[k]}
     /\ exists' = exists \ {k} /\ queue' = [queue EXCEPT ![k] = <<>>]
     /\ id' = [r \in Process |-> [id[r] EXCEPT ![k] = IF @ = "live" THEN "gone" ELSE @]]
     /\ ghost' = ghost \union asleep
     /\ pc' = [r \in Process |-> IF r \in asleep THEN "show"
                                 ELSE IF r = p /\ k + 1 \notin Removed THEN "done"
                                 ELSE pc[r]]
     /\ UNCHANGED <<kind, buf, rbuf, typed, eof, heardEnd>>

\* What a program does by itself, and what it waits for its user to do.
Works(p) == Msgget(p) \/ Msgsnd(p) \/ Msgrcv(p) \/ Show(p) \/ Rmid(p)

TalkNext == \E p \in Running : Works(p) \/ Fgets(p)

\* The programs are scheduled; users may stay silent.
TalkFairness == \A p \in Process : WF_talkVars(p \in Running /\ Works(p))

TalkSpec == TalkInit /\ [][TalkNext]_talkVars /\ TalkFairness

------------------------------------------------------------------------------
\* Properties.

\* Every variable stays in its range; no queue is over-full.
TalkTypeOK ==
  /\ \A k \in 1..2 : queue[k] \in Seq(Message) /\ Len(queue[k]) <= Room
  /\ \A p \in Process :
       /\ pc[p] \in {"msgget", "fgets", "msgsnd", "msgrcv", "asleep", "show", "rmid", "done"}
       /\ buf[p] \in Message /\ rbuf[p] \in Message /\ typed[p] \in 0..MaxLines
  /\ lost \subseteq Message /\ ghost \subseteq Process

\* No result is looked at, yet what a program shows is what it has just received, unless
\* its partner has ended.  A message is lost only to the end of its receiver: of a talk,
\* the "end" of second or what first said after it; of ex05-1, what was not yet heard when
\* the "end" of another terminal was, never a line of the one whose "end" it was.
OnlyEndsLose ==
  /\ \A p \in ghost : p = "first" /\ pc["second"] \in {"rmid", "done"}
  /\ \A m \in lost :
       IF kind = "oneway" THEN heardEnd \notin {Nobody, m[1]}
       ELSE m = End("second") \/ (m[1] = "first" /\ pc["second"] \in {"rmid", "done"})

\* Both queues outlive the processes; exercise-2 leaves none of them, whoever ended the
\* talk, and ex05-2 none unless an ex05-1 was started after its end.
QueuesRemoved ==
  /\ pc["second"] = "done" => exists = {}
  /\ pc["receiver"] = "done" =>
       (1 \in exists <=> \E p \in Sender : id[p][1] = "live")

\* An "end" that was sent is acted on: the receiver ends, and in a talk both
\* programs.  The one exception is that second removes the queue before
\* first has come to sleep on it, so that the "end" is lost.
EndIsHeard ==
  []<>( /\ (\E p \in Sender : pc[p] = "done") => pc["receiver"] = "done"
        /\ pc["first"] = "done" => pc["second"] = "done"
        /\ pc["second"] = "done" => pc["first"] = "done" \/ End("second") \in lost )
==============================================================================
