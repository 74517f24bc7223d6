------------------------------ MODULE ChatPair ------------------------------
(***************************************************************************)
(* The two-party chats of ch09/chattingProgram: TCPChattingServer.c with   *)
(* TCPChattingClient.c over select(), ex04.c with ex03.c over poll().  Both*)
(* sides run the same loop chatting(): a turn takes one line from standard *)
(* input and sends it, or else receives what has come and prints it.  One  *)
(* buffer serves both directions; the result of fgets() is ignored.        *)
(*                                                                         *)
(* A line is the number of the line its side typed, or Exit; what the      *)
(* buffer held before and is sent once more is Stale.  stdin is a terminal,*)
(* which hands out a line for each read and an end-of-file for each Ctrl+D,*)
(* or a pipe, which hands out all there is at once, to be kept by stdio,   *)
(* and is at end-of-file for good once its writer has gone.                *)
(***************************************************************************)
EXTENDS Integers, Sequences, SequencesExt

CONSTANTS MaxLines,    \* bound on the lines typed on each side
          Window       \* lines under way to a side before send() to it blocks

BoundsAssumption == MaxLines \in Nat /\ Window \in Nat \ {0}

Side == {"server", "client"}
Other(e) == IF e = "server" THEN "client" ELSE "server"

Exit == 0
Stale == -1
EndOfFile == -2  \* not a line: what stdin holds when it ends

VARIABLES
  api,     \* "select" or "poll"
  kind,    \* kind[e]: stdin is a "terminal" or a "pipe"
  pc,      \* pc[e]: "boot", "listen", "chat", "left", or "cut" when the peer was first
  typed,   \* typed[e]: lines typed so far
  stdin,   \* stdin[e]: what read(0) has not returned yet
  ahead,   \* ahead[e]: lines stdio has read and fgets() has not returned
  feof,    \* feof[e]: stdio has seen end-of-file, and will not read again
  buffer,  \* buffer[e]: what buffer begins with, "text", "exit" or its end ("empty")
  wire,    \* wire[e]: lines on their way to e
  said,    \* said[e]: lines e has sent, but for stale ones
  shown,   \* shown[e]: lines e has printed, but for stale ones
  reset    \* reset[e]: e has sent to a peer that had closed

inputVars == <<typed, stdin, ahead, feof>>
vars == <<api, kind, pc, inputVars, buffer, wire, said, shown, reset>>

Init ==
  /\ api \in {"select", "poll"}
  /\ kind \in [Side -> {"terminal", "pipe"}]
  /\ pc = [e \in Side |-> "boot"]
  /\ typed = [e \in Side |-> <<>>]
  /\ stdin = [e \in Side |-> <<>>]
  /\ ahead = [e \in Side |-> <<>>]
  /\ feof = [e \in Side |-> FALSE]
  /\ buffer \in [Side -> {"empty", "text"}]     \* char buffer[BUFF_SIZE]; has no value
  /\ wire = [e \in Side |-> <<>>]
  /\ said = [e \in Side |-> <<>>]
  /\ shown = [e \in Side |-> <<>>]
  /\ reset = [e \in Side |-> "no"]

Gone(e) == pc[e] \in {"left", "cut"}

------------------------------------------------------------------------------
\* Who types, and nothing after "exit".
Ended(e) == kind[e] = "pipe" /\ EndOfFile \in Range(stdin[e])

Type(e) ==
  /\ Len(typed[e]) < MaxLines /\ Exit \notin Range(typed[e]) /\ ~Ended(e)
  /\ \E line \in {Len(typed[e]) + 1, Exit} :
       /\ typed' = [typed EXCEPT ![e] = Append(@, line)]
       /\ stdin' = [stdin EXCEPT ![e] = Append(@, line)]
  /\ UNCHANGED <<api, kind, pc, ahead, feof, buffer, wire, said, shown, reset>>

EndInput(e) ==
  /\ EndOfFile \notin Range(stdin[e]) /\ ~feof[e]
  /\ stdin' = [stdin EXCEPT ![e] = Append(@, EndOfFile)]
  /\ UNCHANGED <<api, kind, pc, typed, ahead, feof, buffer, wire, said, shown, reset>>

------------------------------------------------------------------------------
\* main(): the server listens and accepts one client; a client that comes before
\* the server listens, or after it has gone, is refused and ends.
Listen ==
  /\ pc["server"] = "boot"
  /\ pc' = [pc EXCEPT !["server"] = "listen"]
  /\ UNCHANGED <<api, kind, inputVars, buffer, wire, said, shown, reset>>

ConnectTo ==
  /\ pc["client"] = "boot"
  /\ pc' = [pc EXCEPT !["client"] = IF pc["server"] = "listen" THEN "chat" ELSE "refused"]
  /\ UNCHANGED <<api, kind, inputVars, buffer, wire, said, shown, reset>>

Accept ==
  /\ pc["server"] = "listen"
  /\ pc["client"] \notin {"boot", "refused"}
  /\ pc' = [pc EXCEPT !["server"] = "chat"]
  /\ UNCHANGED <<api, kind, inputVars, buffer, wire, said, shown, reset>>

------------------------------------------------------------------------------
\* chatting().

\* FD_ISSET(0) or POLLIN: there is something to read, or end-of-file; but poll()
\* reports the end of a pipe as POLLHUP only.
HangUp(e) ==
  api = "poll" /\ kind[e] = "pipe" /\ stdin[e] # <<>> /\ Head(stdin[e]) = EndOfFile
StdinReady(e) == stdin[e] # <<>> /\ ~HangUp(e)

\* The peer's data, or the end of its side of the connection.  Mutation: the end is
\* noticed before the data.
CutFirst(e) == Gone(Other(e))
Cut(e) == wire[e] = <<>> /\ Gone(Other(e))

\* What one read(0) by stdio returns, and what it leaves: the end of a pipe is last.
Block(e) ==
  IF kind[e] = "terminal" THEN <<Head(stdin[e])>>
  ELSE IF Ended(e) THEN Front(stdin[e]) ELSE stdin[e]
LeftInStdin(e) ==
  IF kind[e] = "terminal" THEN Tail(stdin[e])
  ELSE IF Ended(e) THEN <<EndOfFile>> ELSE <<>>

Begins(line) == IF line = Exit THEN "exit" ELSE "text"

\* fgets() returns line: from what stdio holds, else from a block it reads.
FgetsLine(e, line) ==
  \/ /\ ahead[e] # <<>> /\ line = Head(ahead[e])
     /\ ahead' = [ahead EXCEPT ![e] = Tail(@)]
     /\ UNCHANGED <<stdin, feof>>
  \/ /\ ahead[e] = <<>> /\ ~feof[e] /\ Head(stdin[e]) # EndOfFile
     /\ line = Head(Block(e))
     /\ ahead' = [ahead EXCEPT ![e] = Tail(Block(e))]
     /\ stdin' = [stdin EXCEPT ![e] = LeftInStdin(e)]
     /\ UNCHANGED feof

\* fgets() returns NULL, at end-of-file or because it was there before.
FgetsNull(e) ==
  /\ ahead[e] = <<>>
  /\ feof[e] \/ Head(stdin[e]) = EndOfFile
  /\ feof' = [feof EXCEPT ![e] = TRUE]
  /\ stdin' = [stdin EXCEPT ![e] = IF ~feof[e] /\ kind[e] = "terminal" THEN Tail(@) ELSE @]
  /\ UNCHANGED ahead

\* send() of a line.  It blocks while Window lines are under way.  A peer that has
\* closed answers with a reset, and a send after that ends the program (SIGPIPE, or
\* "send" and EXIT), as "exit" does.  Mutation: the line is sent twice.
DeliverTwice(e, line, exits) ==
  IF reset[e] = "yes"
  THEN pc' = [pc EXCEPT ![e] = "left"] /\ UNCHANGED <<wire, reset>>
  ELSE /\ pc' = [pc EXCEPT ![e] = IF exits THEN "left" ELSE @]
       /\ IF Gone(Other(e))
          THEN reset' = [reset EXCEPT ![e] = "coming"] /\ UNCHANGED wire
          ELSE /\ Len(wire[Other(e)]) < Window
               /\ wire' = [wire EXCEPT ![Other(e)] = @ \o <<line, line>>]
               /\ UNCHANGED reset
Deliver(e, line, exits) ==
  IF reset[e] = "yes"
  THEN pc' = [pc EXCEPT ![e] = "left"] /\ UNCHANGED <<wire, reset>>
  ELSE /\ pc' = [pc EXCEPT ![e] = IF exits THEN "left" ELSE @]
       /\ IF Gone(Other(e))
          THEN reset' = [reset EXCEPT ![e] = "coming"] /\ UNCHANGED wire
          ELSE /\ Len(wire[Other(e)]) < Window
               /\ wire' = [wire EXCEPT ![Other(e)] = Append(@, line)]
               /\ UNCHANGED reset

\* A turn for stdin: what fgets() has left in the buffer is sent, a new line or what
\* was there before.  An empty string sends nothing.
SayLine(e) ==
  \E line \in 0..MaxLines :
    /\ FgetsLine(e, line)
    /\ buffer' = [buffer EXCEPT ![e] = Begins(line)]
    /\ Deliver(e, line, line = Exit)
    /\ said' = IF reset[e] = "yes" THEN said ELSE [said EXCEPT ![e] = Append(@, line)]

SayAgain(e) ==
  /\ FgetsNull(e)
  /\ IF buffer[e] = "empty" THEN UNCHANGED <<pc, wire, reset>>
     ELSE Deliver(e, Stale, buffer[e] = "exit")
  /\ UNCHANGED <<buffer, said>>

StdinTurn(e) ==
  /\ pc[e] = "chat" /\ StdinReady(e)
  /\ SayLine(e) \/ SayAgain(e)
  /\ UNCHANGED <<api, kind, typed, shown>>

\* The lines of a part of the stream but for the stale ones, which come last: fgets()
\* returns no line after end-of-file.
Lines(s) ==
  SubSeq(s, 1, CHOOSE n \in 0..Len(s) : \A i \in 1..Len(s) : s[i] # Stale <=> i <= n)

\* recv() takes any part of the stream that has come.
RecvTurn(e) ==
  /\ pc[e] = "chat" /\ ~StdinReady(e)
  /\ wire[e] # <<>> /\ ~Cut(e)
  /\ \E n \in 1..Len(wire[e]) :
       /\ buffer' = [buffer EXCEPT ![e] = Begins(Head(wire[e]))]
       /\ shown' = [shown EXCEPT ![e] = @ \o Lines(SubSeq(wire[e], 1, n))]
       /\ wire' = [wire EXCEPT ![e] = SubSeq(@, n + 1, Len(@))]
  /\ UNCHANGED <<api, kind, pc, inputVars, said, reset>>

\* recv() returns 0, or -1 after a reset.  Mutation: the loop goes on.
CutGoesOn(e) ==
  /\ pc[e] = "chat" /\ ~StdinReady(e)
  /\ Cut(e)
  /\ UNCHANGED vars
CutTurn(e) ==
  /\ pc[e] = "chat" /\ ~StdinReady(e)
  /\ Cut(e)
  /\ pc' = [pc EXCEPT ![e] = "cut"]
  /\ UNCHANGED <<api, kind, inputVars, buffer, wire, said, shown, reset>>

\* poll() woke up for neither: the error branch.
ErrorTurn(e) ==
  /\ pc[e] = "chat" /\ HangUp(e)
  /\ wire[e] = <<>> /\ ~Cut(e)
  /\ pc' = [pc EXCEPT ![e] = "left"]
  /\ UNCHANGED <<api, kind, inputVars, buffer, wire, said, shown, reset>>

\* The network brings the reset.
ResetArrives(e) ==
  /\ reset[e] = "coming"
  /\ reset' = [reset EXCEPT ![e] = "yes"]
  /\ UNCHANGED <<api, kind, pc, inputVars, buffer, wire, said, shown>>

Chatting(e) == StdinTurn(e) \/ RecvTurn(e) \/ CutTurn(e) \/ ErrorTurn(e)

------------------------------------------------------------------------------
Next ==
  \/ Listen \/ ConnectTo \/ Accept
  \/ \E e \in Side : Type(e) \/ EndInput(e) \/ Chatting(e) \/ ResetArrives(e)

Spec == Init /\ [][Next]_vars

\* Both programs are scheduled and resets arrive; nobody is obliged to type.
FairSpec ==
  /\ Spec
  /\ WF_vars(Listen) /\ WF_vars(ConnectTo) /\ WF_vars(Accept)
  /\ \A e \in Side : WF_vars(Chatting(e)) /\ WF_vars(ResetArrives(e))

------------------------------------------------------------------------------
\* Properties.

\* Every variable stays in its range.
TypeOK ==
  /\ pc \in [Side -> {"boot", "listen", "chat", "left", "cut", "refused"}]
  /\ feof \in [Side -> BOOLEAN]
  /\ \A e \in Side :
       /\ Range(typed[e]) \cup Range(ahead[e]) \subseteq 0..MaxLines
       /\ Range(stdin[e]) \subseteq 0..MaxLines \cup {EndOfFile}
       /\ Range(wire[e]) \subseteq 0..MaxLines \cup {Stale} /\ Len(wire[e]) <= Window
       /\ Range(shown[e]) \subseteq 0..MaxLines
  /\ buffer \in [Side -> {"empty", "text", "exit"}]
  /\ reset \in [Side -> {"no", "coming", "yes"}]

\* However reads, stdio and the turns for the socket interleave, a side says the
\* lines typed on it, each once and in order, and the other side shows them so; it
\* repeats itself only at end-of-file.
SaidWasTyped ==
  \A e \in Side :
    /\ IsPrefix(said[e], typed[e])
    /\ ~Gone(Other(e)) => shown[Other(e)] \o Lines(wire[Other(e)]) = said[e]
    /\ Stale \in Range(wire[e]) => feof[Other(e)]

\* A side that ends with "CUT." has shown everything the other side said.
CutLosesNothing ==
  \A e \in Side : pc[e] = "cut" => shown[e] = said[Other(e)]

\* When one side has gone the other goes too, except that a side whose stdin ends
\* before its buffer ever held a line sends nothing, over and over.
SpinsAtEnd(e) == feof[e] /\ stdin[e] # <<>> /\ buffer[e] = "empty"
BothLeave ==
  \A e \in Side : []<>(pc[e] = "chat" /\ Gone(Other(e)) => SpinsAtEnd(e))
==============================================================================
