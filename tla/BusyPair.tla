------------------------------ MODULE BusyPair ------------------------------
(***************************************************************************)
(* ch07/ex08-1.c and ex08-2.c: a sender writes N texts and "end" into a    *)
(* shared-memory segment, and a receiver prints what it finds there until  *)
(* it finds "end".  Nothing but busy loops of about the same length keeps  *)
(* the two in step.  As built without optimisation, so that the receiver   *)
(* reads the segment again in every turn.                                  *)
(***************************************************************************)
EXTENDS Integers, Sequences

CONSTANT N      \* texts before "end", 20 in the program

BusyAssumption == N \in Nat \ {0}

End == 0        \* "end"; text i is the number i
Nothing == -1   \* the empty string of a fresh segment
Torn == -2      \* part of a text in front of nothing, or "e", "en" or "end" in front of
                \* the rest of the text before

VARIABLES
  segment,  \* the segment of the key: "none", "left" (by an earlier sender whose receiver
            \* was not run), "new"
  content,  \* content[s]: what is in that segment, also after its removal
  smap,     \* the segment the sender has the id of
  rmap,     \* the segment the receiver is attached to
  spc, i,   \* the sender: where it is, and its loop counter
  rpc,      \* the receiver: where it is
  last      \* what the receiver has printed last, and whether it was being written then

busyVars == <<segment, content, smap, rmap, spc, i, rpc, last>>

BusyInit ==
  /\ segment \in {"none", "left"}
  /\ content = [s \in {"left", "new"} |-> IF s = "left" THEN End ELSE Nothing]
  /\ smap = "none" /\ rmap = "none"
  /\ spc = "shmget" /\ i = 1
  /\ rpc = "shmget" /\ last = [text |-> Nothing, half |-> FALSE]

\* What a reader may find while sprintf() puts text k over the one before: each byte is
\* the old or the new one.  Only the number differs, and both its digits only
\* when it gets a second digit or the first one changes.
Digits(old, new) ==
  IF old \in {Nothing, End} \/ new = End THEN {Torn}
  ELSE IF old \div 10 = new \div 10 THEN {}
  ELSE IF old < 10 THEN {new \div 10, 10 * old + (new % 10)}
  ELSE {10 * (old \div 10) + (new % 10), 10 * (new \div 10) + (old % 10)}

------------------------------------------------------------------------------
\* The sender.

\* shmget() with IPC_CREAT|IPC_EXCL makes the segment, ...
SenderShmget ==
  /\ spc = "shmget"
  /\ IF segment = "none" THEN segment' = "new" /\ smap' = "new" /\ spc' = "shmat"
     ELSE spc' = "again" /\ UNCHANGED <<segment, smap>>
  /\ UNCHANGED <<content, rmap, i, rpc, last>>

\* ... or fails, and a second call gets the one there is, unless the receiver has removed
\* it since: exit(1).
SenderShmgetAgain ==
  /\ spc = "again"
  /\ IF segment # "none" THEN smap' = segment /\ spc' = "shmat"
     ELSE spc' = "failed" /\ UNCHANGED smap
  /\ UNCHANGED <<segment, content, rmap, i, rpc, last>>

\* shmat() of a segment that has been removed returns -1, which is not the NULL that is
\* asked for: SIGSEGV in sprintf().
SenderShmat ==
  /\ spc = "shmat"
  /\ spc' = IF segment = smap THEN "write" ELSE "crashed"
  /\ UNCHANGED <<segment, content, smap, rmap, i, rpc, last>>

\* The text of a turn.  Mutations: one turn too many; the numbers run backwards.
TextOneMore == IF i <= N + 1 THEN i ELSE End
TextBackwards == IF i <= N THEN N + 1 - i ELSE End
Text == IF i <= N THEN i ELSE End

\* sprintf() passes through the mixtures of old and new text, or is not caught at it.
SenderTear ==
  /\ spc = "write"
  /\ \E t \in Digits(content[smap], Text) : content' = [content EXCEPT ![smap] = t]
  /\ spc' = "writing"
  /\ UNCHANGED <<segment, smap, rmap, i, rpc, last>>

\* Mutation: the loop ends without "end".
SenderWritesNoEnd ==
  /\ spc \in {"write", "writing"}
  /\ content' = [content EXCEPT ![smap] = IF Text = End THEN @ ELSE Text]
  /\ IF Text = End THEN spc' = "done" /\ UNCHANGED i ELSE spc' = "write" /\ i' = i + 1
  /\ UNCHANGED <<segment, smap, rmap, rpc, last>>
SenderWrite ==
  /\ spc \in {"write", "writing"}
  /\ content' = [content EXCEPT ![smap] = Text]
  /\ IF Text = End THEN spc' = "done" /\ UNCHANGED i ELSE spc' = "write" /\ i' = i + 1
  /\ UNCHANGED <<segment, smap, rmap, rpc, last>>

Sender ==
  SenderShmget \/ SenderShmgetAgain \/ SenderShmat \/ SenderTear \/ SenderWrite

------------------------------------------------------------------------------
\* The receiver.

\* shmget(), perhaps twice, and shmat() in one: nobody else removes a segment.
Attached == IF segment = "none" THEN "new" ELSE segment

ReceiverAttach ==
  /\ rpc = "shmget"
  /\ segment' = Attached /\ rmap' = Attached
  /\ rpc' = "check"
  /\ UNCHANGED <<content, smap, spc, i, last>>

\* Two comparisons: "end" leaves the loop, "" starts it again.
ReceiverCheckEnd ==
  /\ rpc = "check"
  /\ rpc' = IF content[rmap] = End THEN "rmid" ELSE "empty"
  /\ UNCHANGED <<segment, content, smap, rmap, spc, i, last>>

ReceiverCheckEmpty ==
  /\ rpc = "empty"
  /\ rpc' = IF content[rmap] = Nothing THEN "check" ELSE "print"
  /\ UNCHANGED <<segment, content, smap, rmap, spc, i, last>>

ReceiverPrint ==
  /\ rpc = "print"
  /\ last' = [text |-> content[rmap], half |-> spc = "writing"]
  /\ rpc' = "check"
  /\ UNCHANGED <<segment, content, smap, rmap, spc, i>>

\* The segment is removed; the sender may still be attached to it.
ReceiverRmid ==
  /\ rpc = "rmid"
  /\ segment' = "none"
  /\ rpc' = "done"
  /\ UNCHANGED <<content, smap, rmap, spc, i, last>>

Receiver ==
  ReceiverAttach \/ ReceiverCheckEnd \/ ReceiverCheckEmpty \/ ReceiverPrint \/ ReceiverRmid

BusyNext == Sender \/ Receiver

\* Both programs are started and scheduled.
BusyFairness == WF_busyVars(Sender) /\ WF_busyVars(Receiver)

BusySpec == BusyInit /\ [][BusyNext]_busyVars /\ BusyFairness

------------------------------------------------------------------------------
\* Properties.

\* Every variable stays in its range.
BusyTypeOK ==
  /\ segment \in {"none", "left", "new"} /\ smap \in {"none", "left", "new"}
  /\ rmap \in {"none", "left", "new"}
  /\ i \in 1..(N + 1) /\ rpc \in {"shmget", "check", "empty", "print", "rmid", "done"}
  /\ spc \in {"shmget", "again", "shmat", "write", "writing", "done", "failed", "crashed"}

\* The receiver may skip and repeat texts, and print one it caught half written;
\* but of two whole texts printed one after the other the second is not the
\* earlier one.
NoStepBack ==
  [][last' # last /\ ~last.half /\ ~last'.half /\ last'.text # End
       => last'.text >= last.text]_busyVars

\* Both programs end: "end" is written last and stays, so that nobody misses it.  A sender
\* that has not written it met a receiver that removed the segment of an earlier sender.
BusyEnded ==
  /\ rpc = "done"
  /\ spc = "done" \/ (spc \in {"failed", "crashed"} /\ rmap = "left")
BusyEnds == []<>BusyEnded

\* A pair leaves a segment behind only when its receiver found the "end" of an earlier
\* sender, removed that segment and left before its own sender came.
BusyLeavesNothing ==
  spc \in {"done", "failed", "crashed"} /\ rpc = "done" /\ segment # "none" =>
    rmap = "left" /\ smap = "new" /\ spc = "done"
==============================================================================
