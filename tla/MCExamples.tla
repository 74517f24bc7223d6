------------------------------ MODULE MCExamples ------------------------------
(***************************************************************************)
(* Model-checking instance of the programs of ch06, ch06-2, ch07 and ch08: *)
(* SemHandoff, SemRestart, QueueTalk, BusyPair, PosixShm, FifoPair,        *)
(* ThreadExamples and SignalExamples.  A behaviour is a run of one of      *)
(* them; the others are never started.  See MCExamples*.cfg.               *)
(***************************************************************************)
EXTENDS SemHandoff

CONSTANTS RestartN, MaxKills,           \* SemRestart
          QueueSender, Room, MaxLines,  \* QueueTalk and FifoPair
          ShmProcess, ShmText,          \* PosixShm
          Outside, MaxSent              \* SignalExamples

VARIABLES
  example,  \* what runs: "handoff", "restart", "queue", "busy", "posix", "fifo",
            \* "thread", "signal"
  shm2, text2, set2, sem2, spc2, i2, rpc2, printed2,
  undo, kills, segment2, oldSet, missed, parted,
  kind, exists, queue, id, pcQ, buf, rbuf, typed, eof, ghost, lost, heardEnd,
  segment, contentB, smap, rmap, spcB, iB, rpcB, last,
  name, sized, contentP, map, pcP, shown,
  pcF, existsF, met, pipe, msg, held, typedF, input, shownF,
  progT, codeT, pcT, loops, temp, count, holder, asked, disabled, pushed, heap, result, statusT,
  progS, codeS, pcS, mask, disp, saMask, once, pend, inside, saved, timer, caught, sent, statusS

Restart == INSTANCE SemRestart
             WITH N <- RestartN, shm <- shm2, text <- text2, set <- set2, sem <- sem2,
                  spc <- spc2, i <- i2, rpc <- rpc2, printed <- printed2,
                  segment <- segment2
Queues == INSTANCE QueueTalk WITH Sender <- QueueSender, pc <- pcQ
Busy == INSTANCE BusyPair WITH content <- contentB, spc <- spcB, i <- iB, rpc <- rpcB
Posix == INSTANCE PosixShm
           WITH Process <- ShmProcess, Text <- ShmText, content <- contentP, pc <- pcP,
                Size <- [t \in ShmText |-> IF t = "hi" THEN 2 ELSE 5]

Fifos == INSTANCE FifoPair
           WITH Sender <- QueueSender, Capacity <- Room, MaxTyped <- MaxLines, pc <- pcF,
                exists <- existsF, typed <- typedF, shown <- shownF
Threads == INSTANCE ThreadExamples
             WITH prog <- progT, code <- codeT, pc <- pcT, status <- statusT
Signals == INSTANCE SignalExamples
             WITH prog <- progS, code <- codeS, pc <- pcS, status <- statusS

ASSUME ExamplesAssumption ==
  /\ Restart!RestartAssumption /\ Queues!QueueAssumption
  /\ Busy!BusyAssumption /\ Posix!ShmAssumption /\ Fifos!FifoAssumption
  /\ Signals!SignalAssumption

restartV == <<shm2, text2, set2, sem2, spc2, i2, rpc2, printed2, undo, kills, segment2, oldSet,
              missed, parted>>
queueV == <<kind, exists, queue, id, pcQ, buf, rbuf, typed, eof, ghost, lost, heardEnd>>
busyV == <<segment, contentB, smap, rmap, spcB, iB, rpcB, last>>
posixV == <<name, sized, contentP, map, pcP, shown>>
fifoV == <<pcF, existsF, met, pipe, msg, held, typedF, input, shownF>>
threadV == <<progT, codeT, pcT, loops, temp, count, holder, asked, disabled, pushed, heap, result,
             statusT>>
signalV == <<progS, codeS, pcS, mask, disp, saMask, once, pend, inside, saved, timer, caught, sent,
             statusS>>

ExamplesInit ==
  /\ example \in {"handoff", "restart", "queue", "busy", "posix", "fifo", "thread", "signal"}
  /\ Init /\ Restart!RestartInit /\ Queues!TalkInit /\ Busy!BusyInit /\ Posix!ShmInit
  /\ Fifos!FifoInit /\ Threads!ThreadInit /\ Signals!SignalInit
  \* Programs that do not run have one initial state.
  /\ example # "queue" => kind = "talk" /\ \A p \in Queues!Process : buf[p] = Queues!End(p)
  /\ example # "busy" => segment = "none"
  /\ example # "fifo" => existsF /\ \A s \in QueueSender : held[s] = "line"
  /\ example # "thread" => progT = "ex01"
  /\ example # "signal" => progS = "ch06_ex01"

Runs(e) == example = e /\ UNCHANGED example

ExamplesNext ==
  \/ Runs("handoff") /\ Next
     /\ UNCHANGED <<restartV, queueV, busyV, posixV, fifoV, threadV, signalV>>
  \/ Runs("restart") /\ Restart!RestartNext
     /\ UNCHANGED <<vars, queueV, busyV, posixV, fifoV, threadV, signalV>>
  \/ Runs("queue") /\ Queues!TalkNext
     /\ UNCHANGED <<vars, restartV, busyV, posixV, fifoV, threadV, signalV>>
  \/ Runs("busy") /\ Busy!BusyNext
     /\ UNCHANGED <<vars, restartV, queueV, posixV, fifoV, threadV, signalV>>
  \/ Runs("posix") /\ Posix!ShmNext
     /\ UNCHANGED <<vars, restartV, queueV, busyV, fifoV, threadV, signalV>>
  \/ Runs("thread") /\ Threads!ThreadNext
     /\ UNCHANGED <<vars, restartV, queueV, busyV, posixV, fifoV, signalV>>
  \/ Runs("signal") /\ Signals!SignalNext
     /\ UNCHANGED <<vars, restartV, queueV, busyV, posixV, fifoV, threadV>>
  \/ Runs("fifo") /\ Fifos!FifoNext
     /\ UNCHANGED <<vars, restartV, queueV, busyV, posixV, threadV, signalV>>

\* The programs that run are scheduled, as the module of each says.
Fair ==
  /\ WF_vars(example = "handoff" /\ Sender) /\ WF_vars(example = "handoff" /\ Receiver)
  /\ WF_restartV(example = "restart" /\ Restart!SenderStep)
  /\ WF_restartV(example = "restart" /\ Restart!ReceiverStep)
  /\ \A p \in Queues!Process :
       WF_queueV(example = "queue" /\ p \in Queues!Running /\ Queues!Works(p))
  /\ WF_busyV(example = "busy" /\ Busy!Sender) /\ WF_busyV(example = "busy" /\ Busy!Receiver)
  /\ \A p \in Fifos!Process : WF_fifoV(example = "fifo" /\ Fifos!Step(p))
  /\ \A t \in Threads!Thread : WF_threadV(example = "thread" /\ Threads!Step(t))
  /\ WF_threadV(example = "thread" /\ Threads!MainReturns)
  /\ \A t \in Signals!Thread : WF_signalV(example = "signal" /\ Signals!Step(t))
  /\ WF_signalV(example = "signal" /\ Signals!Expire)
  /\ WF_signalV(example = "signal" /\ Signals!MainReturns)

ExamplesSpec ==
  /\ ExamplesInit
  /\ [][ExamplesNext]_<<example, vars, restartV, queueV, busyV, posixV, fifoV, threadV,
                     signalV>>
  /\ Fair

\* Every variable of the programs stays in its range.
ExamplesTypeOK ==
  /\ TypeOK /\ Restart!RestartTypeOK /\ Queues!TalkTypeOK /\ Busy!BusyTypeOK /\ Posix!ShmTypeOK
  /\ Fifos!FifoTypeOK /\ Threads!ThreadTypeOK /\ Signals!SignalTypeOK

\* exercise-3/4 under kills: the programs do not wait for each other for ever.
RestartEnds == []<>(example = "restart" => Restart!SomeEnded)

\* Programs end that should: exercise-3/4; the queue pairs and the busy-waiting pair by
\* "end", but for the races QueueTalk and BusyPair name; the named pipe by its last sender,
\* but for one that writes an empty text for ever; the threads of ch08; the alarm of
\* ch06-2, but for the one that comes before pause().
AllEnd ==
  /\ []<>(example = "handoff" => BothEnded)
  /\ Queues!EndIsHeard
  /\ []<>(example = "busy" => Busy!BusyEnded)
  /\ Fifos!FifoEnds
  /\ []<>(example = "thread" => Threads!ThreadsEnded)
  /\ []<>(example = "signal" => Signals!AlarmEnded)

\* The queue pairs and the busy-waiting pair: no kernel object is left, but for the
\* late starts the modules name.
ObjectsRemoved == Queues!QueuesRemoved /\ Busy!BusyLeavesNothing

\* ex05-1/2 and exercise-1/2, ex04-1/2: only the end of a receiver loses a message.
OnlyEndsLose == Queues!OnlyEndsLose /\ Fifos!LinesInOrder

\* ex08-1/2: whole texts are printed in the order of the sender.
NoStepBack == Busy!NoStepBack

\* posix_shm.c: SIGBUS and a failed open have the one cause each.
FailuresExplained == Posix!FailuresExplained

\* posix_shm.c: what "*" shows was typed.
ShownWasTyped == Posix!ShownWasTyped

\* ch08: no increment is lost, no block freed twice, no text taken from a cancelled thread.
NothingLostOrFreedTwice ==
  Threads!CountExact /\ Threads!FreedOnce /\ Threads!TextIsJoined

\* ch06, ch06-2, ch08: only a signal that the program lets through and does not catch ends
\* it.
OnlyOpenSignalsKill == Signals!OnlyOpenSignalsKill

\* ch06, ch06-2, ch08: a signal to be caught does not stay pending.
SignalsArrive == Signals!SignalsArrive

\* ch06-2/exercise.c: Ctrl+C shows the counts and ends the program.
CtrlCEnds == Signals!CtrlCEnds
==============================================================================
