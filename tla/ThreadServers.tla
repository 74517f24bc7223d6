---------------------------- MODULE ThreadServers ----------------------------
(***************************************************************************)
(* Four TCP servers with one thread per connection, which differ in how    *)
(* main() hands the accepted descriptor over and in what the thread does:  *)
(*   "greeting"   ch09/tcpProgramming/ex01.c: the address of a local of    *)
(*                main(), the thread detached                              *)
(*   "webserver"  ch09/chattingProgram/webserver.c and                     *)
(*   "webLED"     ch09/webLED/webserver.c: the address of a local, the     *)
(*                thread joined at once                                    *)
(*   "rpi6"       ch09/chattingProgram/rpi6.c: an int of its own for each  *)
(*                thread, the thread detached                              *)
(* A behaviour is one run of one of them.                                  *)
(*                                                                         *)
(* A client connects, sends a request line and the end of its headers,     *)
(* reads its answer and closes, each at any time or never.  Descriptors    *)
(* are numbered from 1, in the order in which the kernel gives them out,   *)
(* without the listening socket and the served file, which is opened and   *)
(* closed in one step.                                                     *)
(***************************************************************************)
EXTENDS Integers, FiniteSets, SequencesExt

CONSTANTS Client,    \* the clients, one connection each
          Programs,  \* the programs to look at
          Asked,     \* the requests that clients make
          FdLimits   \* numbers of descriptors the process may have left for connections

ASSUME FdLimitsAssumption == FdLimits \subseteq Nat \ {0}

NoFd == 0
NoClient == "none"

ASSUME ClientAssumption == IsFiniteSet(Client) /\ NoClient \notin Client

Thread == 1..Cardinality(Client)

Serial == {"webserver", "webLED"}

ASSUME ProgramsAssumption == Programs \subseteq {"greeting", "rpi6"} \cup Serial

\* What a request line asks for: a page, a level of the LED, or anything but GET.
Request == {"page", "on", "off", "blink", "post"}

\* The requests a program tells apart.
Known(p) == IF p = "greeting" THEN {"page"}
            ELSE IF p = "webserver" THEN {"page", "post"}
            ELSE IF p = "rpi6" THEN {"page", "on", "off"}
            ELSE Request

VARIABLES
  program,   \* the program that runs
  limit,     \* how many descriptors it can open
  alive,     \* the server process exists
  mpc,       \* main(), or rpi6's webserverFunction(): "accept", "nosocket",
             \* "create", "join" or "stopped"
  local,     \* the descriptor variable of the accept loop
  backlog,   \* clients waiting to be accepted
  accepted,  \* clients accepted so far, in order
  fds,       \* fds[f]: the client behind descriptor f, or NoClient
  thread,    \* thread[t]: the t-th thread
  led,       \* the level of the LED pin
  peer,      \* peer[c]: "new", "connected" or "gone"
  asked,     \* asked[c]: the request of client c
  sent,      \* sent[c]: 0 nothing, 1 the request line, 2 the headers as well
  answers,   \* answers[c]: number of answers written to client c
  socket     \* socket[c]: "room" for an answer, "full" of one that client c does not
             \* read, or "read" so that the rest fits as well

mainVars == <<mpc, local, accepted>>
clientVars == <<peer, asked, sent>>
startVars == <<program, limit>>
outVars == <<answers, socket>>
vars == <<startVars, alive, mainVars, backlog, fds, thread, led, clientVars, outVars>>

Fd == 1..limit

NoThread == [pc |-> "none", arg |-> NoFd, rd |-> NoFd, wr |-> NoFd, req |-> "page"]

Init ==
  /\ program \in Programs /\ limit \in FdLimits
  /\ alive = TRUE
  /\ mpc = "accept" /\ local = NoFd /\ accepted = <<>>
  /\ backlog = <<>>
  /\ fds = [f \in Fd |-> NoClient]
  /\ thread = [t \in Thread |-> NoThread]
  /\ led = "low"
  /\ peer = [c \in Client |-> "new"]
  /\ asked \in [Client -> Known(program) \intersect Asked]
  /\ sent = [c \in Client |-> 0]
  /\ answers = [c \in Client |-> 0]
  /\ socket = [c \in Client |-> "room"]

------------------------------------------------------------------------------
\* The clients.

Connect(c) ==
  /\ alive /\ mpc # "stopped"
  /\ peer[c] = "new"
  /\ peer' = [peer EXCEPT ![c] = "connected"]
  /\ backlog' = Append(backlog, c)
  /\ UNCHANGED <<startVars, alive, mainVars, fds, thread, led, asked, sent, outVars>>

SendPart(c) ==
  /\ alive /\ peer[c] = "connected"
  /\ program # "greeting"
  /\ sent[c] < 2
  /\ sent' = [sent EXCEPT ![c] = @ + 1]
  /\ UNCHANGED <<startVars, alive, mainVars, backlog, fds, thread, led, peer, asked, outVars>>

Close(c) ==
  /\ alive /\ peer[c] = "connected"
  /\ peer' = [peer EXCEPT ![c] = "gone"]
  /\ UNCHANGED <<startVars, alive, mainVars, backlog, fds, thread, led, asked, sent, outVars>>

\* The client reads what its socket was full of.
Read(c) ==
  /\ alive /\ peer[c] = "connected"
  /\ socket[c] = "full"
  /\ socket' = [socket EXCEPT ![c] = "read"]
  /\ UNCHANGED <<startVars, alive, mainVars, backlog, fds, thread, led, clientVars, answers>>

------------------------------------------------------------------------------
\* The accept loop.

FreeFds == {f \in Fd : fds[f] = NoClient}
Lowest(S) == CHOOSE f \in S : \A g \in S : f <= g

Accept ==
  /\ mpc = "accept"
  /\ backlog # <<>> /\ FreeFds # {}
  /\ local' = Lowest(FreeFds)
  /\ fds' = [fds EXCEPT ![local'] = Head(backlog)]
  /\ accepted' = Append(accepted, Head(backlog))
  /\ backlog' = Tail(backlog)
  /\ mpc' = "create"
  /\ UNCHANGED <<startVars, alive, thread, led, clientVars, outVars>>

\* accept() fails for want of descriptors, with the client left in the backlog:
\* the greeting server tries again, rpi6 leaves the loop for good, and the serial
\* servers, whom failed creations have left no descriptor, go on with csock = -1.
AcceptFails ==
  /\ mpc = "accept"
  /\ backlog # <<>> /\ FreeFds = {}
  /\ local' = NoFd
  /\ mpc' = IF program = "greeting" THEN "accept"
            ELSE IF program = "rpi6" THEN "stopped" ELSE "nosocket"
  /\ UNCHANGED <<startVars, alive, accepted, backlog, fds, thread, led, clientVars, outVars>>

\* Their thread reads from a NULL stream, which ends the process, unless it cannot be
\* created either and the process gets over joining a stale id.
NoSocket ==
  /\ mpc = "nosocket"
  /\ alive' \in BOOLEAN
  /\ mpc' = "accept"
  /\ UNCHANGED <<startVars, local, accepted, backlog, fds, thread, led, clientVars, outVars>>

\* rpi6 copies the descriptor into an int of its own for the thread.  Mutation:
\* the address of csock, as in the other servers.
OwnInt == FALSE
CopiesArgument == program = "rpi6"

\* Serial servers wait for the thread they have made.  Mutation: they do not.
NeverJoins == "accept"
AfterCreate == IF program \in Serial THEN "join" ELSE "accept"

Create ==
  /\ mpc = "create"
  /\ thread' = [thread EXCEPT ![Len(accepted)] =
                  [NoThread EXCEPT !.pc = "start",
                                   !.arg = IF CopiesArgument THEN local ELSE NoFd]]
  /\ mpc' = AfterCreate
  /\ UNCHANGED <<startVars, alive, local, accepted, backlog, fds, led, clientVars, outVars>>

\* pthread_create() fails.  The greeting server exits; the others do not look: nobody
\* has the descriptor any more, which the record of the missing thread keeps in rd, and
\* the id detached or joined is that of an earlier thread or no value at all, which is
\* undefined: the call fails, or the process does.
CreateFails ==
  /\ mpc = "create"
  /\ IF program = "greeting"
     THEN alive' = FALSE /\ UNCHANGED <<mpc, thread>>
     ELSE /\ alive' \in BOOLEAN
          /\ thread' = [thread EXCEPT ![Len(accepted)] =
                          [NoThread EXCEPT !.pc = "failed", !.rd = local]]
          /\ mpc' = "accept"
  /\ UNCHANGED <<startVars, local, accepted, backlog, fds, led, clientVars, outVars>>

Join ==
  /\ mpc = "join"
  /\ thread[Len(accepted)].pc = "done"
  /\ mpc' = "accept"
  /\ UNCHANGED <<startVars, alive, local, accepted, backlog, fds, thread, led, clientVars,
                 outVars>>

\* rpi6: 'q' sends SIGINT to the server thread; nothing handles it, so it ends the
\* process before "Good Bye!".
Quit ==
  /\ program = "rpi6"
  /\ alive' = FALSE
  /\ UNCHANGED <<startVars, mainVars, backlog, fds, thread, led, clientVars, outVars>>

------------------------------------------------------------------------------
\* The connection threads.

\* Thread t goes on at pc.
Goto(t, pc) == thread' = [thread EXCEPT ![t].pc = pc]

\* The argument is read through the pointer, whenever the thread gets to it.
ThreadStart(t) ==
  /\ thread[t].pc = "start"
  /\ thread' = [thread EXCEPT ![t].rd = IF CopiesArgument THEN thread[t].arg ELSE local,
                              ![t].pc = IF program = "greeting" THEN "free" ELSE "dup"]
  /\ UNCHANGED <<alive, fds, led, answers>>

\* The client a thread talks to.
Talks(t) == fds[thread[t].rd]

\* A write succeeds, is lost on a client that has gone, or is answered by SIGPIPE
\* because the client's reset came first.
WriteTo(c) ==
  \/ alive' = alive /\ answers' = [answers EXCEPT ![c] = @ + 1]
  \/ peer[c] = "gone" /\ alive' = FALSE /\ UNCHANGED answers

\* greeting: free() of the address of a local.  Undefined; glibc aborts the process
\* unless what precedes the variable passes for the header of a chunk.
GreetFree(t) ==
  /\ thread[t].pc = "free"
  /\ alive' \in BOOLEAN
  /\ Goto(t, "greet")
  /\ UNCHANGED <<fds, led, answers>>

\* greeting: send() on a descriptor that may be closed, or another client's, by now.
GreetSend(t) ==
  /\ thread[t].pc = "greet"
  /\ IF thread[t].rd \in Fd \ FreeFds
     THEN WriteTo(Talks(t)) ELSE UNCHANGED <<alive, answers>>
  /\ Goto(t, "close")
  /\ UNCHANGED <<fds, led>>

\* dup() for the writing stream; without a free descriptor the stream is NULL.
ThreadDup(t) ==
  /\ thread[t].pc = "dup"
  /\ IF FreeFds # {}
     THEN /\ thread' = [thread EXCEPT ![t].wr = Lowest(FreeFds), ![t].pc = "line"]
          /\ fds' = [fds EXCEPT ![Lowest(FreeFds)] = Talks(t)]
     ELSE /\ Goto(t, "line")
          /\ UNCHANGED fds
  /\ UNCHANGED <<alive, led, answers>>

\* Where a request leads to.  Mutation: webLED looks at the path whatever the method.
AfterLineNoMethod(req) ==
  IF program = "rpi6" THEN "headers"
  ELSE IF program = "webLED" /\ req # "page" THEN "led"
  ELSE IF req = "post" THEN "reply"
  ELSE "headers"
AfterLine(req) ==
  IF program = "rpi6" THEN "headers"
  ELSE IF req = "post" THEN "reply"
  ELSE IF program = "webLED" /\ req # "page" THEN "led"
  ELSE "headers"

\* The request line.  At end-of-file the buffer is parsed as it is: uninitialised,
\* or with a request the same stack has held before.
ThreadLine(t) ==
  /\ thread[t].pc = "line"
  /\ \E req \in Known(program) :
       /\ \/ sent[Talks(t)] >= 1 /\ req = asked[Talks(t)]
          \/ sent[Talks(t)] = 0 /\ peer[Talks(t)] = "gone"
       /\ thread' = [thread EXCEPT ![t].req = req, ![t].pc = AfterLine(req)]
  /\ UNCHANGED <<alive, fds, led, answers>>

\* The headers.  At end-of-file rpi6 goes on; the others read for ever.  Mutation:
\* rpi6 does not look for the empty line.
HeadersToEndOfFile(t) ==
  /\ thread[t].pc = "headers"
  /\ IF program = "rpi6" THEN peer[Talks(t)] = "gone" ELSE sent[Talks(t)] = 2
  /\ Goto(t, IF program = "rpi6" /\ thread[t].req \in {"on", "off"} THEN "led" ELSE "reply")
  /\ UNCHANGED <<alive, fds, led, answers>>
ThreadHeaders(t) ==
  /\ thread[t].pc = "headers"
  /\ \/ sent[Talks(t)] = 2
     \/ program = "rpi6" /\ peer[Talks(t)] = "gone"
  /\ Goto(t, IF program = "rpi6" /\ thread[t].req \in {"on", "off"} THEN "led" ELSE "reply")
  /\ UNCHANGED <<alive, fds, led, answers>>

Level(req) == IF req = "off" THEN "low" ELSE "high"

\* digitalWrite(); webLED does it in a thread from a library and joins that, ignores
\* that the library may not be there, and exits when the thread cannot be created.
\* "blink" goes low after a delay.
ThreadLed(t) ==
  /\ thread[t].pc = "led"
  /\ \/ led' = Level(thread[t].req)
        /\ Goto(t, IF program = "webLED" /\ thread[t].req = "blink" THEN "ledlow"
                   ELSE "reply")
        /\ UNCHANGED alive
     \/ program = "webLED" /\ UNCHANGED led
        /\ \/ Goto(t, "reply") /\ UNCHANGED alive
           \/ alive' = FALSE /\ UNCHANGED thread
  /\ UNCHANGED <<fds, answers>>

ThreadLedLow(t) ==
  /\ thread[t].pc = "ledlow"
  /\ led' = "low"
  /\ Goto(t, "reply")
  /\ UNCHANGED <<alive, fds, answers>>

\* The client a thread answers.
Answers(t) == fds[thread[t].wr]

\* A page may be more than a socket holds, other answers are not.  The thread then waits
\* in its write until the client reads or goes; a page that fills the socket again and
\* again makes it wait at the same place.
ThreadFills(t) ==
  /\ thread[t].pc = "reply" /\ thread[t].wr # NoFd
  /\ program = "rpi6" \/ thread[t].req = "page"
  /\ peer[Answers(t)] = "connected" /\ socket[Answers(t)] = "room"
  /\ socket' = [socket EXCEPT ![Answers(t)] = "full"]
  /\ UNCHANGED <<alive, fds, thread, led, answers>>

\* The answer, or the rest of it; writing to a NULL stream ends the process.
ThreadReply(t) ==
  /\ thread[t].pc = "reply"
  /\ IF thread[t].wr = NoFd THEN alive' = FALSE /\ UNCHANGED answers
     ELSE /\ socket[Answers(t)] # "full" \/ peer[Answers(t)] = "gone"
          /\ WriteTo(Answers(t))
  /\ Goto(t, "close")
  /\ UNCHANGED <<fds, led>>

\* fclose(clnt_read) or close(new_fd); then fclose(clnt_write).
Closing(f) == fds' = [g \in Fd |-> IF g = f THEN NoClient ELSE fds[g]]

\* The thread returns, and its stack is gone.
Ends(t) == thread' = [thread EXCEPT ![t] = [NoThread EXCEPT !.pc = "done"]]

ThreadClose(t) ==
  /\ thread[t].pc = "close"
  /\ Closing(thread[t].rd)
  /\ IF program = "greeting" THEN Ends(t) ELSE Goto(t, "closewrite")
  /\ UNCHANGED <<alive, led, answers>>

\* Mutation: the writing stream is left open.
ThreadKeepsWrite(t) ==
  /\ thread[t].pc = "closewrite"
  /\ Ends(t)
  /\ UNCHANGED <<alive, fds, led, answers>>
ThreadCloseWrite(t) ==
  /\ thread[t].pc = "closewrite"
  /\ Closing(thread[t].wr)
  /\ Ends(t)
  /\ UNCHANGED <<alive, led, answers>>

ThreadStep(t) ==
  /\ alive
  /\ \/ /\ \/ ThreadStart(t) \/ GreetFree(t) \/ GreetSend(t) \/ ThreadDup(t) \/ ThreadLine(t)
           \/ ThreadHeaders(t) \/ ThreadLed(t) \/ ThreadLedLow(t) \/ ThreadReply(t)
           \/ ThreadClose(t) \/ ThreadCloseWrite(t)
        /\ UNCHANGED socket
     \/ ThreadFills(t)
  /\ UNCHANGED <<startVars, mainVars, backlog, clientVars>>

------------------------------------------------------------------------------
MainStep == alive /\ (Accept \/ AcceptFails \/ NoSocket \/ Create \/ CreateFails \/ Join)

Next ==
  \/ \E c \in Client : Connect(c) \/ SendPart(c) \/ Read(c) \/ Close(c)
  \/ MainStep
  \/ alive /\ Quit
  \/ \E t \in Thread : ThreadStep(t)

Spec == Init /\ [][Next]_vars

\* The threads of the server are scheduled; clients and the keyboard are not obliged
\* to anything.
FairSpec == Spec /\ WF_vars(MainStep) /\ \A t \in Thread : WF_vars(ThreadStep(t))

------------------------------------------------------------------------------
\* Properties.

Working(t) == thread[t].pc \notin {"none", "failed", "done"}

\* Every variable stays in its range; a serial server has a thread only while main()
\* waits for it.
TypeOK ==
  /\ program \in Programs /\ limit \in FdLimits /\ alive \in BOOLEAN
  /\ mpc \in {"accept", "nosocket", "create", "join", "stopped"}
  /\ local \in Fd \cup {NoFd}
  /\ Range(accepted) \cup Range(backlog) \subseteq Client
  /\ fds \in [Fd -> Client \cup {NoClient}]
  /\ \A t \in Thread :
       /\ {thread[t].arg, thread[t].rd, thread[t].wr} \subseteq Fd \cup {NoFd}
       /\ thread[t].req \in Request
       /\ Working(t) => t <= Len(accepted) /\ (program \in Serial => mpc = "join")
  /\ led \in {"low", "high"}
  /\ peer \in [Client -> {"new", "connected", "gone"}]
  /\ sent \in [Client -> 0..2]
  /\ answers \in [Client -> Nat]
  /\ socket \in [Client -> {"room", "full", "read"}]

\* A thread reads and writes the connection it was created for, although main()
\* reuses its local and the kernel the numbers of closed descriptors.
OwnConnection(t) ==
  /\ thread[t].pc \notin {"none", "failed", "start", "closewrite", "done"} =>
       thread[t].rd # NoFd /\ fds[thread[t].rd] = accepted[t]
  /\ thread[t].wr # NoFd => fds[thread[t].wr] = accepted[t]
OwnSocket == program # "greeting" => \A t \in Thread : OwnConnection(t)

\* Threads that have a descriptor to read from, or still to take over.
Reader == {t \in Thread : thread[t].pc \notin {"none", "failed", "closewrite", "done"}}
\* Threads that have a descriptor to write to.
Writer == {t \in Thread : thread[t].wr # NoFd}
\* Connections for which no thread could be created.
Failed == {t \in Thread : thread[t].pc = "failed"}

\* Whatever way requests went through the threads, none of them left a descriptor open or
\* closed one of another thread: besides those in use, and the one not handed over yet,
\* only those are open whose thread could not be created, one for each of these.
OpenExplained ==
  program # "greeting" =>
    Cardinality(Fd \ FreeFds) =
      Cardinality(Reader) + Cardinality(Writer) + Cardinality(Failed)
      + (IF mpc = "create" THEN 1 ELSE 0)

\* The LED goes on only for a client that asked for it, or when one left without a
\* request and its thread parsed what happened to be on its stack.
LedAsked ==
  led = "high" =>
    \E c \in Client :
      \/ sent[c] >= 1 /\ asked[c] \in {"on", "blink"}
      \/ sent[c] = 0 /\ peer[c] = "gone"

\* A complete request is answered, while the process lives and rpi6 still accepts, unless
\* the client has got no thread or does not read its answer.  A serial server answers it
\* unless its thread waits for another client, to send or to read, or failed creations
\* have left it no descriptor.
Complete(c) == sent[c] = 2 /\ peer[c] = "connected"
Settled(c) == answers[c] > 0 \/ peer[c] = "gone" \/ ~alive
Excused(c) == socket[c] = "full" \/ \E t \in Failed : accepted[t] = c
WaitsFor(t, d) ==
  /\ Working(t) /\ accepted[t] = d
  /\ \/ thread[t].pc = "line" /\ sent[d] = 0 /\ peer[d] = "connected"
     \/ thread[t].pc = "headers" /\ sent[d] < 2
     \/ thread[t].pc = "reply" /\ socket[d] = "full" /\ peer[d] = "connected"
AllAnswered ==
  \A c \in Client :
    []<>( Complete(c) =>
            \/ Settled(c) \/ Excused(c) \/ mpc = "stopped"
            \/ /\ program \in Serial
               /\ \/ \E t \in Thread, d \in Client \ {c} : WaitsFor(t, d)
                  \/ Cardinality(Failed) = limit )

\* chattingProgram/webserver.c: "a queue so that up to 10 clients that connect at
\* the same time can be handled".  Of those that get a thread and read their answers.
EveryRequestAnswered == \A c \in Client : []<>(Complete(c) => Settled(c) \/ Excused(c))

\* tcpProgramming/ex01.c, handle_client(): "the thread function that handles the
\* communication with the client ... takes the client's socket descriptor".
EachThreadItsClient == \A t \in Thread : OwnConnection(t)
==============================================================================
