------------------------------ MODULE SemRestart ------------------------------
(***************************************************************************)
(* SemHandoff when either program may be killed at any point and is then   *)
(* started again.  All semaphore operations of exercise-3.c and            *)
(* exercise-4.c carry SEM_UNDO: the kernel keeps, for each process, what   *)
(* has to be added to each semaphore to undo the operations of the         *)
(* process, and adds it when the process ends.                             *)
(*                                                                         *)
(* A program that is started again may find a segment or a set the other   *)
(* one removes while it gets hold of it, or may make a new one while the   *)
(* other one still has the old: ids name one object, not the key.          *)
(***************************************************************************)
EXTENDS SemHandoff

CONSTANT MaxKills   \* how often a program is killed, for the model only

RestartAssumption == N \in Nat \ {0} /\ MaxKills \in Nat

VARIABLES
  undo,     \* undo[p][s]: what the end of program p adds to semaphore s
  kills,    \* kills so far
  segment,  \* the segment of the sender: "key" if it is the one of the key, "gone" if that
            \* was removed after shmat(), "bad" if it was before, so that shmat() failed
  oldSet,   \* the set of the receiver has been removed
  missed,   \* programs whose first semget() found a set that is removed before the second
  parted    \* history: a program has made an object while the other had ended or had an
            \* older one

restartVars == <<vars, undo, kills, segment, oldSet, missed, parted>>

Program == {"sender", "receiver"}
NoUndo == [s \in 0..1 |-> 0]

RestartInit ==
  /\ Init
  /\ undo = [p \in Program |-> NoUndo] /\ kills = 0
  /\ segment = "key" /\ oldSet = FALSE /\ missed = {} /\ parted = FALSE

------------------------------------------------------------------------------
\* What the kernel notes of the steps of the programs.

\* semop() with SEM_UNDO.  Mutation: without it.
PlainSemop(p) == UNCHANGED undo
UndoneSemop(p) ==
  undo' = [undo EXCEPT ![p] = [s \in 0..1 |-> @[s] - (sem'[s] - sem[s])]]

\* SETVAL forgets what any process has to undo on the semaphore.
Setval(s) == undo' = [p \in Program |-> [undo[p] EXCEPT ![s] = 0]]

\* With the set goes everything there is to undo on it; the other program may be between
\* its two calls of semget().
RemovesSet(other, pc) ==
  /\ undo' = [p \in Program |-> NoUndo]
  /\ \/ UNCHANGED missed
     \/ pc = "semget" /\ missed' = missed \cup {other}

\* A program makes an object that the other one does not have or get.
MakesShm(pc) == parted' = (parted \/ (shm # "live" /\ pc # "shmget"))
MakesSet(pc) == parted' = (parted \/ (set # "live" /\ pc \notin {"shmget", "semget"}))

\* The end of a process: its undo values are added; a semaphore that would become
\* negative becomes 0.
Undo(p) ==
  /\ sem' = IF set # "live" THEN sem
            ELSE [s \in 0..1 |-> IF sem[s] + undo[p][s] < 0 THEN 0 ELSE sem[s] + undo[p][s]]
  /\ undo' = [undo EXCEPT ![p] = NoUndo]
  /\ missed' = missed \ {p}

SenderAgain ==
  /\ Undo("sender")
  /\ spc' = "shmget" /\ i' = 1 /\ segment' = "key"
  /\ UNCHANGED <<shm, text, set, rpc, printed, oldSet, parted>>

ReceiverAgain ==
  /\ Undo("receiver")
  /\ rpc' = "shmget" /\ oldSet' = FALSE
  /\ UNCHANGED <<shm, text, set, spc, i, printed, segment, parted>>

------------------------------------------------------------------------------
\* The sender.

\* exit(1), when the second semget() comes after the removal, and SIGSEGV: shmat() fails
\* with -1, which is not NULL.
SenderFails ==
  /\ \/ spc = "semget" /\ "sender" \in missed
     \/ spc = "write" /\ segment = "bad"
  /\ SenderAgain

\* A write to the segment, or to one that nobody else will read.
SenderWriteLost ==
  /\ spc = "write" /\ segment = "gone"
  /\ spc' = IF i <= N THEN "v" ELSE "rmid"
  /\ UNCHANGED <<shm, text, set, sem, i, rpc, printed>>

SenderSteps ==
  \/ /\ SenderShmget /\ MakesShm(rpc) /\ segment' = "key"
     /\ UNCHANGED <<undo, oldSet, missed>>
  \/ /\ "sender" \notin missed /\ SenderSemget /\ MakesSet(rpc)
     /\ UNCHANGED <<undo, segment, oldSet, missed>>
  \/ /\ (SenderSetval0 /\ Setval(0)) \/ (SenderSetval1 /\ Setval(1))
     /\ UNCHANGED <<segment, oldSet, missed, parted>>
  \/ /\ (SenderP \/ SenderV) /\ UndoneSemop("sender")
     /\ UNCHANGED <<segment, oldSet, missed, parted>>
  \/ /\ (segment = "key" /\ SenderWrite) \/ SenderWriteLost \/ SenderRmidAgain
     /\ UNCHANGED <<undo, segment, oldSet, missed, parted>>
  \/ /\ SenderRmid /\ RemovesSet("receiver", rpc)
     /\ oldSet' = (oldSet \/ rpc \notin {"shmget", "semget"})
     /\ UNCHANGED <<segment, parted>>
  \/ SenderFails

SenderStep == SenderSteps /\ UNCHANGED kills

------------------------------------------------------------------------------
\* The receiver.

ReceiverFails == rpc = "semget" /\ "receiver" \in missed /\ ReceiverAgain

\* The output is not kept here: a receiver that goes round without a set repeats itself.
ReceiverShows ==
  /\ rpc = "print" /\ rpc' = "v"
  /\ UNCHANGED <<shm, text, set, sem, spc, i, printed>>

\* The calls on a set that has been removed fail.
ReceiverGoesOn ==
  /\ oldSet
  /\ \/ rpc = "p" /\ rpc' = "check"
     \/ rpc = "v" /\ rpc' = "p"
     \/ rpc = "rmset" /\ rpc' = "done"
  /\ UNCHANGED <<shm, text, set, sem, spc, i, printed>>

\* shmctl(): a sender between shmget() and shmat() has a bad id, one behind shmat() keeps
\* what nobody else can find.
SenderLosesShm ==
  segment' = IF spc \in {"semget", "setval0", "setval1"} THEN "bad"
             ELSE IF spc \in {"p", "write", "v"} /\ segment = "key" THEN "gone" ELSE segment

ReceiverSteps ==
  \/ /\ ReceiverShmget /\ MakesShm(spc)
     /\ UNCHANGED <<undo, segment, oldSet, missed>>
  \/ /\ "receiver" \notin missed /\ ReceiverSemget /\ MakesSet(spc)
     /\ UNCHANGED <<undo, segment, oldSet, missed>>
  \/ /\ ReceiverCheck \/ ReceiverShows \/ ReceiverGoesOn
     /\ UNCHANGED <<undo, segment, oldSet, missed, parted>>
  \/ /\ ~oldSet /\ (ReceiverP \/ ReceiverV) /\ UndoneSemop("receiver")
     /\ UNCHANGED <<segment, oldSet, missed, parted>>
  \/ /\ ReceiverRmidShm /\ SenderLosesShm
     /\ UNCHANGED <<undo, oldSet, missed, parted>>
  \/ /\ ~oldSet /\ ReceiverRmidSet /\ RemovesSet("sender", spc)
     /\ UNCHANGED <<segment, oldSet, parted>>
  \/ ReceiverFails

ReceiverStep == ReceiverSteps /\ UNCHANGED kills

------------------------------------------------------------------------------
\* Kills, before the program has ended.
KillSender == spc # "done" /\ kills < MaxKills /\ kills' = kills + 1 /\ SenderAgain
KillReceiver == rpc # "done" /\ kills < MaxKills /\ kills' = kills + 1 /\ ReceiverAgain

RestartNext == SenderStep \/ ReceiverStep \/ KillSender \/ KillReceiver

RestartSpec == RestartInit /\ [][RestartNext]_restartVars

\* A program that was killed or has failed is started again, and both are scheduled.
RestartFairness == WF_restartVars(SenderStep) /\ WF_restartVars(ReceiverStep)

RestartFairSpec == RestartSpec /\ RestartFairness

------------------------------------------------------------------------------
\* Properties.

\* Every variable stays in its range; the semaphores are not binary any more.
RestartTypeOK ==
  /\ shm \in {"none", "live", "removed"} /\ set \in {"none", "live", "removed"}
  /\ text \in Nothing..N /\ i \in 1..(N + 1)
  /\ sem \in [0..1 -> Nat] /\ undo \in [Program -> [0..1 -> Int]]
  /\ kills \in 0..MaxKills
  /\ segment \in {"key", "gone", "bad"} /\ oldSet \in BOOLEAN
  /\ missed \subseteq Program /\ parted \in BOOLEAN

\* However often and wherever the programs are killed, both end, as long as they have the
\* same segment and the same set: the permission that went with a killed program is given
\* back.  Only when one of them makes an object anew, because the other one removed it and
\* was killed then or has ended, may the two wait for each other, or the new one for nobody.
SomeEnded == parted \/ (spc = "done" /\ rpc = "done")
RestartEnds == []<>SomeEnded
==============================================================================
