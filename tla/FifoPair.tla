------------------------------- MODULE FifoPair -------------------------------
(***************************************************************************)
(* ch07/ex04-1.c and ex04-2.c: senders and a receiver at a named pipe.     *)
(* Each side waits in open() for the other; a sender writes the lines its  *)
(* user types, the receiver shows what it reads until end-of-file.         *)
(***************************************************************************)
EXTENDS Integers, Sequences

CONSTANTS Sender,    \* processes that run ex04-1
          Capacity,  \* lines the pipe holds
          MaxTyped   \* bound on the lines typed for a sender

Receiver == "ex04-2"

FifoAssumption == Capacity \in Nat \ {0} /\ MaxTyped \in Nat /\ Receiver \notin Sender

Process == Sender \union {Receiver}

VARIABLES
  pc,      \* pc[p]: "mkfifo", "open", "opening", "loop", "write", "done", "failed" or "killed"
  exists,  \* ./myfifo has been made
  met,     \* processes whose open() has met the other side
  pipe,    \* lines in the pipe: the sender and the number of the line
  msg,     \* msg[s]: number of the line in the buffer of s; 0 is what was there at first
  held,    \* held[s]: what the buffer is as a text: "line", "quit" (so it begins), "empty"
  typed,   \* typed[s]: number of lines typed
  input,   \* input[s]: what fgets() of s will find: "none" yet, "line", "quit", "empty" (a
           \* line that begins with NUL), "eof"
  shown    \* shown[s]: the last line of s that the receiver has shown

fifoVars == <<pc, exists, met, pipe, msg, held, typed, input, shown>>

Text == {"line", "quit", "empty"}

\* The buffer is not initialised.
FifoInit ==
  /\ pc = [p \in Process |-> "mkfifo"] /\ exists \in BOOLEAN
  /\ met = {} /\ pipe = <<>>
  /\ msg = [s \in Sender |-> 0] /\ held \in [Sender -> Text]
  /\ typed = [s \in Sender |-> 0] /\ input = [s \in Sender |-> "none"]
  /\ shown = [s \in Sender |-> 0]

Ended(p) == pc[p] \in {"done", "failed", "killed"}
Holds(p) == pc[p] \in {"opening", "loop", "write"}  \* counted by the kernel as an end
Writers == {s \in Sender : Holds(s)}
Partners(p) == IF p = Receiver THEN Writers ELSE {Receiver} \intersect {r \in Process : Holds(r)}

\* What is in the pipe goes with its last end.
Leaves(p, how) ==
  /\ pc' = [pc EXCEPT ![p] = how]
  /\ pipe' = IF \E q \in Process \ {p} : Holds(q) THEN pipe ELSE <<>>

\* mkfifo() makes the pipe, finds it (EEXIST), or fails: exit(1).
Mkfifo(p) ==
  /\ pc[p] = "mkfifo"
  /\ \/ pc' = [pc EXCEPT ![p] = "open"] /\ exists' = TRUE
     \/ ~exists /\ pc' = [pc EXCEPT ![p] = "failed"] /\ UNCHANGED exists
  /\ UNCHANGED <<met, pipe, msg, held, typed, input, shown>>

\* open() counts the caller at once, which wakes partners that wait in theirs, ...
Open(p) ==
  /\ pc[p] = "open"
  /\ pc' = [pc EXCEPT ![p] = "opening"]
  /\ met' = met \union Partners(p) \union (IF Partners(p) # {} THEN {p} ELSE {})
  /\ UNCHANGED <<exists, pipe, msg, held, typed, input, shown>>

\* ... and returns once it has met one, even if that one has left again.
OpenReturns(p) ==
  /\ pc[p] = "opening" /\ p \in met
  /\ pc' = [pc EXCEPT ![p] = "loop"]
  /\ UNCHANGED <<exists, met, pipe, msg, held, typed, input, shown>>

\* The user types a line, or ends stdin.
Types(s) ==
  /\ pc[s] = "loop" /\ input[s] = "none"
  /\ \/ /\ typed[s] < MaxTyped /\ typed' = [typed EXCEPT ![s] = @ + 1]
        /\ input' = [input EXCEPT ![s] = "line"]
     \/ \E x \in {"quit", "empty", "eof"} : input' = [input EXCEPT ![s] = x] /\ UNCHANGED typed
  /\ UNCHANGED <<pc, exists, met, pipe, msg, held, shown>>

\* fgets(), whose result is ignored: at end-of-file msg keeps its text.  "quit" closes.
Fgets(s) ==
  /\ pc[s] = "loop" /\ input[s] # "none"
  /\ IF input[s] = "eof" THEN UNCHANGED <<held, input>>
     ELSE held' = [held EXCEPT ![s] = input[s]] /\ input' = [input EXCEPT ![s] = "none"]
  /\ msg' = [msg EXCEPT ![s] = typed[s]]
  /\ IF held'[s] = "quit" THEN Leaves(s, "done")
     ELSE pc' = [pc EXCEPT ![s] = "write"] /\ UNCHANGED pipe
  /\ UNCHANGED <<exists, met, typed, shown>>

\* write() of a line waits for room; without a reader it ends the sender with SIGPIPE.
\* Mutation: a full pipe has the line dropped.
WriteDrops(s) ==
  /\ pc[s] = "write" /\ held[s] # "empty"
  /\ IF pc[Receiver] \in {"opening", "loop"}
     THEN /\ pipe' = IF Len(pipe) < Capacity THEN Append(pipe, <<s, msg[s]>>) ELSE pipe
          /\ pc' = [pc EXCEPT ![s] = "loop"]
     ELSE Leaves(s, "killed")
  /\ UNCHANGED <<exists, met, msg, held, typed, input, shown>>
Write(s) ==
  /\ pc[s] = "write" /\ held[s] # "empty"
  /\ IF pc[Receiver] \in {"opening", "loop"}
     THEN /\ Len(pipe) < Capacity
          /\ pipe' = Append(pipe, <<s, msg[s]>>)
          /\ pc' = [pc EXCEPT ![s] = "loop"]
     ELSE Leaves(s, "killed")
  /\ UNCHANGED <<exists, met, msg, held, typed, input, shown>>

\* write() of no bytes returns 0, with a reader or without one.
WriteNothing(s) ==
  /\ pc[s] = "write" /\ held[s] = "empty"
  /\ pc' = [pc EXCEPT ![s] = "loop"]
  /\ UNCHANGED <<exists, met, pipe, msg, held, typed, input, shown>>

\* The number of the last line of s among the first n of q, or x.
LastOf(s, q, n, x) ==
  IF \E k \in 1..n : q[k][1] = s
  THEN q[CHOOSE k \in 1..n : q[k][1] = s /\ \A j \in (k + 1)..n : q[j][1] # s][2]
  ELSE x

\* read() takes what is there and shows it; without a writer it finds end-of-file.
\* Mutation: the receiver keeps a write end open (O_RDWR), as is often done for FIFOs.
ReadNoEnd ==
  /\ pc[Receiver] = "loop" /\ pipe # <<>>
  /\ shown' = [s \in Sender |-> LastOf(s, pipe, Len(pipe), shown[s])]
  /\ pipe' = <<>>
  /\ UNCHANGED <<pc, exists, met, msg, held, typed, input>>
Read ==
  \/ ReadNoEnd
  \/ /\ pc[Receiver] = "loop" /\ pipe = <<>> /\ Writers = {}
     /\ Leaves(Receiver, "done")
     /\ UNCHANGED <<exists, met, msg, held, typed, input, shown>>

\* The user ends the receiver, from another terminal or with Ctrl+C.
Interrupt ==
  /\ pc[Receiver] \in {"opening", "loop"} /\ Leaves(Receiver, "killed")
  /\ UNCHANGED <<exists, met, msg, held, typed, input, shown>>

Step(p) ==
  \/ Mkfifo(p) \/ Open(p) \/ OpenReturns(p)
  \/ p \in Sender /\ (Fgets(p) \/ Write(p) \/ WriteNothing(p))
  \/ p = Receiver /\ Read

FifoNext == Interrupt \/ (\E s \in Sender : Types(s)) \/ \E p \in Process : Step(p)

\* The programs run; users may stay silent.
FifoPairSpec ==
  FifoInit /\ [][FifoNext]_fifoVars /\ \A p \in Process : WF_fifoVars(Step(p))

------------------------------------------------------------------------------
\* Properties.

\* Every variable stays in its range, and a pipe that nobody holds is empty.
FifoTypeOK ==
  /\ pc \in [Process -> {"mkfifo", "open", "opening", "loop", "write",
                         "done", "failed", "killed"}]
  /\ exists \in BOOLEAN /\ met \subseteq Process
  /\ Len(pipe) \in 0..Capacity
  /\ \A k \in DOMAIN pipe : pipe[k] \in Sender \X (0..MaxTyped)
  /\ ((\E p \in Process : Holds(p)) \/ pipe = <<>>)
  /\ msg \in [Sender -> 0..MaxTyped] /\ typed \in [Sender -> 0..MaxTyped]
  /\ held \in [Sender -> Text] /\ input \in [Sender -> Text \union {"none", "eof"}]
  /\ shown \in [Sender -> 0..MaxTyped]

\* While there is a receiver no line is skipped and none comes before an earlier one,
\* shown, in the pipe or in the buffer of its sender, though the last one may be repeated
\* after the end of stdin.
LinesInOrder ==
  ~Ended(Receiver) =>
    \A s \in Sender :
      /\ \A k \in DOMAIN pipe :
           pipe[k][1] = s => pipe[k][2] - LastOf(s, pipe, k - 1, shown[s]) \in {0, 1}
      /\ pc[s] = "write" => msg[s] - LastOf(s, pipe, Len(pipe), shown[s]) \in {0, 1}

\* When all senders have ended, the receiver shows what is left and ends; and a sender that
\* writes on after the receiver has gone is ended too, unless the text it repeats after the
\* end of stdin is empty: that one writes nothing for ever.
FifoEnds ==
  /\ []<>(pc[Receiver] = "loop" => \E s \in Sender : ~Ended(s))
  /\ \A s \in Sender :
       []<>( Ended(Receiver) /\ pc[s] \in {"loop", "write"} =>
               \/ pc[s] = "loop" /\ input[s] = "none"
               \/ input[s] = "eof" /\ held[s] = "empty" )
==============================================================================
