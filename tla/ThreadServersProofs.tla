------------------------- MODULE ThreadServersProofs -------------------------
(***************************************************************************)
(* Proofs about ThreadServers for any finite set of clients and any limits *)
(* of descriptors: in the three servers that hand the descriptor over by   *)
(* waiting for the thread or in an int of its own, every thread works on   *)
(* the connection it was made for, and no descriptor is left open but      *)
(* those whose thread could not be created.  In all four the LED is on     *)
(* only for a reason, as it is in GpioMenu, which runs beside them in the  *)
(* specification MCThreads checks.                                         *)
(***************************************************************************)
EXTENDS MCThreads, FiniteSetTheorems, SequenceTheorems, TLAPS

Label == {"none", "failed", "start", "free", "greet", "dup", "line", "headers", "led", "ledlow",
          "reply", "close", "closewrite", "done"}
MaybeFd == Fd \cup {NoFd}
ThreadRecord ==
  [pc : Label, arg : MaybeFd, rd : MaybeFd, wr : MaybeFd, req : Request]

\* The types of the variables, with those that TypeOK leaves open.
Types ==
  /\ program \in Programs /\ limit \in FdLimits /\ alive \in BOOLEAN
  /\ mpc \in {"accept", "nosocket", "create", "join", "stopped"}
  /\ local \in MaybeFd
  /\ accepted \in Seq(Client) /\ backlog \in Seq(Client)
  /\ fds \in [Fd -> Client \cup {NoClient}]
  /\ thread \in [Thread -> ThreadRecord]
  /\ led \in {"low", "high"}
  /\ peer \in [Client -> {"new", "connected", "gone"}]
  /\ asked \in [Client -> Request]
  /\ sent \in [Client -> 0..2]
  /\ answers \in [Client -> Nat]
  /\ socket \in [Client -> {"room", "full", "read"}]

\* The labels of the greeting server and of the others.
Phases ==
  \A t \in Thread :
    /\ thread[t].pc \in {"free", "greet"} => program = "greeting"
    /\ thread[t].pc \in {"dup", "line", "headers", "led", "ledlow", "reply", "closewrite"}
         => program # "greeting"

\* A thread exists only for an accepted client, and of a serial server only the last.
Made ==
  /\ mpc \in {"create", "join"} => Len(accepted) > 0
  /\ mpc = "join" => program \in Serial
  /\ mpc = "create" /\ Len(accepted) \in Thread => thread[Len(accepted)].pc = "none"
  /\ \A t \in Thread :
       Working(t) => /\ t <= Len(accepted)
                     /\ mpc = "create" => t # Len(accepted)
                     /\ program \in Serial => mpc = "join" /\ t = Len(accepted)
  /\ \A t \in Thread : thread[t].pc # "none" => t <= Len(accepted)

------------------------------------------------------------------------------
(* Who owns which descriptor. *)

\* The descriptor thread t reads from, will read from once it looks at its argument, or
\* was to read from if it could have been created.
FdIn(t) ==
  IF thread[t].pc \in {"none", "closewrite", "done"} THEN NoFd
  ELSE IF thread[t].pc # "start" THEN thread[t].rd
  ELSE IF CopiesArgument THEN thread[t].arg ELSE local
FdOut(t) == thread[t].wr
FdMain == IF mpc = "create" THEN local ELSE NoFd

\* Whose connection a descriptor is.
Owners ==
  /\ \A t \in Thread :
       /\ thread[t].pc \notin {"none", "closewrite", "done"} => FdIn(t) # NoFd
       /\ FdIn(t) # NoFd => FdIn(t) \in Fd /\ fds[FdIn(t)] = accepted[t]
       /\ FdOut(t) # NoFd => fds[FdOut(t)] = accepted[t]
       /\ thread[t].pc \in {"none", "start", "dup", "done"} => FdOut(t) = NoFd
  /\ mpc = "create" => FdMain \in Fd /\ fds[FdMain] = accepted[Len(accepted)]

\* No descriptor has two owners.
Distinct ==
  /\ \A t, u \in Thread :
       /\ FdIn(t) # NoFd /\ t # u => FdIn(t) # FdIn(u)
       /\ FdOut(t) # NoFd /\ t # u => FdOut(t) # FdOut(u)
       /\ FdIn(t) # NoFd => FdIn(t) # FdOut(u)
  /\ FdMain # NoFd => \A t \in Thread : FdMain # FdIn(t) /\ FdMain # FdOut(t)

\* No descriptor is left without one.
Owned ==
  \A f \in Fd :
    fds[f] # NoClient => f = FdMain \/ \E t \in Thread : f = FdIn(t) \/ f = FdOut(t)

\* A client is accepted once.
Queued ==
  /\ \A m, n \in 1..Len(accepted) : accepted[m] = accepted[n] => m = n
  /\ \A m, n \in 1..Len(backlog) : backlog[m] = backlog[n] => m = n
  /\ \A m \in 1..Len(accepted), n \in 1..Len(backlog) : accepted[m] # backlog[n]
  /\ \A m \in 1..Len(accepted) : peer[accepted[m]] # "new"
  /\ \A n \in 1..Len(backlog) : peer[backlog[n]] # "new"

IInv ==
  /\ Types /\ Phases /\ Made /\ Queued
  /\ program # "greeting" => Owners /\ Distinct /\ Owned

------------------------------------------------------------------------------
(* Types. *)

LEMMA FdFacts == Types => /\ NoFd \notin Fd /\ Fd \subseteq Nat /\ limit \in Nat
                          /\ Fd = 1..limit /\ 1 \in Fd
BY FdLimitsAssumption DEF Types, Fd, NoFd

\* The number of clients is a number, and so are the threads.
LEMMA ThreadFacts == Cardinality(Client) \in Nat /\ Thread \subseteq Nat
BY ClientAssumption, FS_CardinalityType DEF Thread

\* What a new descriptor is.
LEMMA LowestIsFree ==
  ASSUME Types, FreeFds # {}
  PROVE  Lowest(FreeFds) \in Fd /\ fds[Lowest(FreeFds)] = NoClient
<1>1. FreeFds \subseteq Nat
  BY FdFacts DEF FreeFds
<1> DEFINE Less == OpToRel(<, Nat)
<1>2. IsWellFoundedOn(Less, Nat)
  BY NatLessThanWellFounded
<1>3. \A g, f \in Nat : g < f => <<g, f>> \in Less
  BY DEF OpToRel
<1> HIDE DEF Less
<1>4. PICK f \in FreeFds : \A g \in FreeFds : <<g, f>> \notin Less
  BY <1>1, <1>2, WFMin
<1>5. ASSUME NEW g \in FreeFds PROVE f <= g
  <2>1. f \in Nat /\ g \in Nat
    BY <1>1
  <2>2. ~(g < f)
    BY <1>3, <1>4, <2>1
  <2> QED
    BY <2>1, <2>2
<1> QED
  BY <1>5 DEF FreeFds, Lowest

\* A thread that goes on keeps everything but its label.
LEMMA GotoEffect ==
  ASSUME Types, NEW t \in Thread, NEW label \in Label, Goto(t, label)
  PROVE  /\ thread' \in [Thread -> ThreadRecord]
         /\ thread'[t].pc = label
         /\ thread'[t].arg = thread[t].arg /\ thread'[t].rd = thread[t].rd
         /\ thread'[t].wr = thread[t].wr /\ thread'[t].req = thread[t].req
         /\ \A u \in Thread \ {t} : thread'[u] = thread[u]
BY DEF Types, Goto, ThreadRecord

LEMMA EndsEffect ==
  ASSUME Types, NEW t \in Thread, Ends(t)
  PROVE  /\ thread' \in [Thread -> ThreadRecord]
         /\ thread'[t].pc = "done" /\ thread'[t].wr = NoFd
         /\ \A u \in Thread \ {t} : thread'[u] = thread[u]
BY DEF Types, Ends, NoThread, ThreadRecord, Label, MaybeFd, Request

LEMMA ClosingEffect ==
  ASSUME Types, NEW f, Closing(f)
  PROVE  /\ fds' \in [Fd -> Client \cup {NoClient}]
         /\ \A g \in Fd : fds'[g] = IF g = f THEN NoClient ELSE fds[g]
BY DEF Types, Closing

LEMMA WriteEffect ==
  ASSUME Types, NEW c, WriteTo(c)
  PROVE  alive' \in BOOLEAN /\ answers' \in [Client -> Nat]
<1>1. CASE UNCHANGED answers
  BY <1>1 DEF Types, WriteTo
<1>2. CASE answers' = [answers EXCEPT ![c] = @ + 1]
  <2>1. \A n \in Nat : n + 1 \in Nat
    OBVIOUS
  <2>2. answers \in [Client -> Nat]
    BY DEF Types
  <2>3. answers' \in [Client -> Nat]
    BY <1>2, <2>1, <2>2
  <2> QED
    BY <2>3 DEF Types, WriteTo
<1> QED
  BY <1>1, <1>2 DEF WriteTo

LEMMA InitInv == Init => IInv
<1> SUFFICES ASSUME Init PROVE IInv
  OBVIOUS
<1>1. Types
  BY FdLimitsAssumption
     DEF Init, Types, Fd, NoThread, ThreadRecord, Label, MaybeFd, Request, Known
<1>2. \A t \in Thread : thread[t].pc = "none" /\ thread[t].wr = NoFd
  BY DEF Init, NoThread
<1>3. Len(accepted) = 0 /\ Len(backlog) = 0
  BY DEF Init
<1>4. Phases /\ Made /\ Queued
  BY <1>2, <1>3 DEF Init, Phases, Made, Queued, Working
<1>5. Owners /\ Distinct /\ Owned
  BY <1>2 DEF Init, Owners, Distinct, Owned, FdIn, FdOut, FdMain
<1> QED
  BY <1>1, <1>4, <1>5 DEF IInv

\* The steps of a thread keep the types.
LEMMA ThreadTypes ==
  ASSUME IInv, NEW t \in Thread, ThreadStep(t)
  PROVE  Types'
<1>0. Types
  BY DEF IInv
<1>1. /\ UNCHANGED <<program, limit, mpc, local, accepted, backlog, peer, asked, sent>>
      /\ MaybeFd' = MaybeFd /\ Fd' = Fd /\ ThreadRecord' = ThreadRecord
  BY DEF ThreadStep, startVars, mainVars, clientVars, MaybeFd, Fd, ThreadRecord
<1>2. SUFFICES /\ alive' \in BOOLEAN /\ led' \in {"low", "high"}
               /\ fds' \in [Fd -> Client \cup {NoClient}]
               /\ thread' \in [Thread -> ThreadRecord]
               /\ answers' \in [Client -> Nat]
               /\ socket' \in [Client -> {"room", "full", "read"}]
  BY <1>0, <1>1 DEF Types
<1>3. /\ alive \in BOOLEAN /\ led \in {"low", "high"}
      /\ fds \in [Fd -> Client \cup {NoClient}]
      /\ thread \in [Thread -> ThreadRecord]
      /\ answers \in [Client -> Nat]
      /\ socket \in [Client -> {"room", "full", "read"}]
      /\ local \in MaybeFd
  BY <1>0 DEF Types
<1>. SUFFICES /\ alive' \in BOOLEAN /\ led' \in {"low", "high"}
              /\ fds' \in [Fd -> Client \cup {NoClient}]
              /\ thread' \in [Thread -> ThreadRecord]
              /\ answers' \in [Client -> Nat]
  <2>1. socket' \in [Client -> {"room", "full", "read"}]
    BY <1>3 DEF ThreadStep, ThreadFills
  <2> QED
    BY <2>1
<1>4. CASE ThreadStart(t)
  BY <1>3, <1>4 DEF ThreadStart, ThreadRecord, Label
<1>5. CASE GreetFree(t)
  BY <1>3, <1>5, <1>0, GotoEffect DEF GreetFree, Label
<1>6. CASE GreetSend(t)
  <2>1. alive' \in BOOLEAN /\ answers' \in [Client -> Nat]
    BY <1>0, <1>3, <1>6, WriteEffect DEF GreetSend
  <2> QED
    BY <1>3, <1>6, <2>1, <1>0, GotoEffect DEF GreetSend, Label
<1>7. CASE ThreadDup(t)
  <2>1. CASE FreeFds = {}
    BY <1>3, <1>7, <2>1, <1>0, GotoEffect DEF ThreadDup, Label
  <2>2. CASE FreeFds # {}
    <3>1. Lowest(FreeFds) \in Fd
      BY <1>0, <2>2, LowestIsFree
    <3>2. thread' \in [Thread -> ThreadRecord]
      BY <1>3, <1>7, <2>2, <3>1 DEF ThreadDup, ThreadRecord, Label, MaybeFd
    <3>3. FdIn(t) = thread[t].rd /\ FdIn(t) \in Fd
      BY <1>7 DEF ThreadDup, IInv, Phases, Owners, FdIn
    <3>4. Talks(t) \in Client \cup {NoClient}
      BY <1>3, <3>3 DEF Talks
    <3> QED
      BY <1>3, <1>7, <2>2, <3>1, <3>2, <3>4 DEF ThreadDup
  <2> QED
    BY <2>1, <2>2
<1>8. CASE ThreadLine(t)
  BY <1>3, <1>8 DEF ThreadLine, ThreadRecord, Label, AfterLine, Known, Request
<1>9. CASE ThreadHeaders(t)
  BY <1>3, <1>9, <1>0, GotoEffect DEF ThreadHeaders, Label
<1>10. CASE ThreadLed(t)
  BY <1>3, <1>10, <1>0, GotoEffect DEF ThreadLed, Label, Level
<1>11. CASE ThreadLedLow(t)
  BY <1>3, <1>11, <1>0, GotoEffect DEF ThreadLedLow, Label
<1>12. CASE ThreadReply(t)
  <2>1. alive' \in BOOLEAN /\ answers' \in [Client -> Nat]
    BY <1>0, <1>3, <1>12, WriteEffect DEF ThreadReply
  <2> QED
    BY <1>3, <1>12, <2>1, <1>0, GotoEffect DEF ThreadReply, Label
<1>13. CASE ThreadClose(t)
  BY <1>3, <1>13, <1>0, GotoEffect, EndsEffect, ClosingEffect DEF ThreadClose, Label
<1>14. CASE ThreadCloseWrite(t)
  BY <1>3, <1>0, <1>14, EndsEffect, ClosingEffect DEF ThreadCloseWrite
<1>15. CASE ThreadFills(t)
  BY <1>3, <1>15 DEF ThreadFills
<1> QED
  BY <1>4, <1>5, <1>6, <1>7, <1>8, <1>9, <1>10, <1>11, <1>12, <1>13, <1>14, <1>15 DEF ThreadStep

------------------------------------------------------------------------------
(* The steps of a thread and the owners of descriptors. *)

Reading == Label \ {"none", "closewrite", "done"}

\* What every step of thread t leaves alone.
LEMMA ThreadFrame ==
  ASSUME NEW t \in Thread, ThreadStep(t)
  PROVE  /\ UNCHANGED <<program, limit, mpc, local, accepted, backlog, peer>>
         /\ Fd' = Fd /\ FdMain' = FdMain
BY DEF ThreadStep, startVars, mainVars, clientVars, Fd, FdMain

\* A step of a thread that goes on reading what it reads.
LEMMA SameOwners ==
  ASSUME IInv, program # "greeting", NEW t \in Thread, ThreadStep(t),
         UNCHANGED fds,
         \A u \in Thread \ {t} : thread'[u] = thread[u],
         thread[t].pc \in Reading, thread'[t].pc \in Reading,
         FdIn(t)' = FdIn(t), FdOut(t)' = FdOut(t),
         thread'[t].pc \in {"start", "dup"} => FdOut(t) = NoFd
  PROVE  Owners' /\ Distinct' /\ Owned'
<1>1. /\ UNCHANGED <<program, limit, mpc, local, accepted>>
      /\ Fd' = Fd /\ FdMain' = FdMain
  BY ThreadFrame
<1>2. \A u \in Thread : FdIn(u)' = FdIn(u) /\ FdOut(u)' = FdOut(u)
  BY <1>1 DEF FdIn, FdOut, CopiesArgument
<1>3. Owners /\ Distinct /\ Owned
  BY DEF IInv
<1>4. Owners'
  BY <1>1, <1>2, <1>3 DEF Owners, Reading
<1>5. Distinct' /\ Owned'
  BY <1>1, <1>2, <1>3 DEF Distinct, Owned
<1> QED
  BY <1>4, <1>5

\* A descriptor with an owner is open.
LEMMA OwnedIsOpen ==
  ASSUME IInv, program # "greeting"
  PROVE  /\ \A u \in Thread :
              /\ FdIn(u) # NoFd => FdIn(u) \in Fd \ FreeFds
              /\ FdOut(u) # NoFd => FdOut(u) \in Fd \ FreeFds
         /\ FdMain # NoFd => FdMain \in Fd \ FreeFds
<1>1. accepted \in Seq(Client) /\ thread \in [Thread -> ThreadRecord] /\ Thread \subseteq Int
  BY DEF IInv, Types, Thread
<1>2. \A n \in 1..Len(accepted) : accepted[n] # NoClient
  BY <1>1, ClientAssumption
<1>3. \A u \in Thread : thread[u].pc # "none" => u \in 1..Len(accepted)
  BY <1>1 DEF IInv, Made, Thread
<1>4. \A u \in Thread : FdIn(u) # NoFd => FdIn(u) \in Fd \ FreeFds
  BY <1>2, <1>3 DEF IInv, Owners, FdIn, FreeFds
<1>5. \A u \in Thread : FdOut(u) # NoFd => FdOut(u) \in Fd \ FreeFds
  <2>1. \A u \in Thread : FdOut(u) \in MaybeFd
    BY <1>1 DEF FdOut, ThreadRecord
  <2> QED
    BY <1>2, <1>3, <2>1 DEF IInv, Owners, FreeFds, MaybeFd
<1>6. FdMain # NoFd => FdMain \in Fd \ FreeFds
  <2>1. mpc = "create" => Len(accepted) \in 1..Len(accepted)
    BY <1>1 DEF IInv, Made
  <2> QED
    BY <1>2, <2>1 DEF IInv, Owners, FreeFds, FdMain
<1> QED
  BY <1>4, <1>5, <1>6

LEMMA ThreadOwners ==
  ASSUME IInv, program # "greeting", NEW t \in Thread, ThreadStep(t)
  PROVE  Owners' /\ Distinct' /\ Owned'
<1>0. Types /\ Owners /\ Distinct /\ Owned /\ Phases
  BY DEF IInv
<1>1. /\ UNCHANGED <<program, limit, mpc, local, accepted>>
      /\ Fd' = Fd /\ FdMain' = FdMain
  BY ThreadFrame
<1>2. thread \in [Thread -> ThreadRecord] /\ fds \in [Fd -> Client \cup {NoClient}]
  BY <1>0 DEF Types
<1>3. CASE ThreadStart(t)
  <2>1. /\ thread'[t].pc = "dup"
        /\ thread'[t].rd = IF CopiesArgument THEN thread[t].arg ELSE local
        /\ thread'[t].wr = thread[t].wr
        /\ \A u \in Thread \ {t} : thread'[u] = thread[u]
    BY <1>2, <1>3 DEF ThreadStart, ThreadRecord
  <2>2. FdIn(t)' = FdIn(t) /\ FdOut(t)' = FdOut(t)
    BY <1>1, <1>3, <2>1 DEF ThreadStart, FdIn, FdOut, CopiesArgument
  <2>3. FdOut(t) = NoFd
    BY <1>0, <1>3 DEF ThreadStart, Owners
  <2> QED
    BY <1>3, <2>1, <2>2, <2>3, SameOwners DEF ThreadStart, Reading, Label
<1>4. CASE GreetFree(t) \/ GreetSend(t)
  BY <1>0, <1>4 DEF GreetFree, GreetSend, Phases
<1>5. CASE ThreadDup(t) /\ FreeFds = {}
  BY <1>0, <1>5, GotoEffect, SameOwners
     DEF ThreadDup, Reading, Label, FdIn, FdOut, Owners
<1>6. CASE ThreadDup(t) /\ FreeFds # {}
  <2> DEFINE f == Lowest(FreeFds)
  <2>1. f \in Fd /\ f \in FreeFds /\ f # NoFd
    BY <1>0, <1>6, LowestIsFree, FdFacts DEF FreeFds
  <2> HIDE DEF f
  <2>2. /\ thread[t].pc = "dup" /\ thread'[t].pc = "line"
        /\ thread'[t].rd = thread[t].rd /\ thread'[t].wr = f
        /\ \A u \in Thread \ {t} : thread'[u] = thread[u]
    BY <1>2, <1>6 DEF ThreadDup, ThreadRecord, f
  <2>3. FdIn(t) # NoFd /\ FdIn(t) = thread[t].rd /\ fds[FdIn(t)] = accepted[t]
    BY <1>0, <2>2 DEF Owners, FdIn
  <2>4. fds' = [fds EXCEPT ![f] = accepted[t]]
    BY <1>6, <2>3 DEF ThreadDup, Talks, f
  <2>5. \A u \in Thread : /\ FdIn(u)' = FdIn(u)
                          /\ FdOut(u)' = IF u = t THEN f ELSE FdOut(u)
    BY <1>1, <2>2 DEF FdIn, FdOut, CopiesArgument
  <2>6. /\ \A u \in Thread : FdIn(u) # f /\ FdOut(u) # f
        /\ FdMain # f
    BY <2>1, OwnedIsOpen
  <2>7. \A g \in Fd : fds'[g] = IF g = f THEN accepted[t] ELSE fds[g]
    BY <1>2, <2>1, <2>4
  <2>8. \A u \in Thread : /\ FdIn(u) # NoFd => FdIn(u) \in Fd
                          /\ FdOut(u) # NoFd => FdOut(u) \in Fd
    BY OwnedIsOpen
  <2>9. Owners'
    BY <1>0, <1>1, <2>1, <2>2, <2>5, <2>6, <2>7, <2>8 DEF Owners
  <2>10. Distinct'
    BY <1>0, <1>1, <2>5, <2>6 DEF Distinct
  <2>11. Owned'
    <3>1. FdOut(t) = NoFd /\ NoFd \notin Fd
      BY <1>0, <2>2, FdFacts DEF Owners
    <3> QED
      BY <1>0, <1>1, <2>5, <2>7, <3>1 DEF Owned
  <2> QED
    BY <2>9, <2>10, <2>11
<1>7. CASE ThreadLine(t)
  <2>1. /\ thread'[t].pc \in {"headers", "led", "reply"}
        /\ thread'[t].rd = thread[t].rd /\ thread'[t].wr = thread[t].wr
        /\ \A u \in Thread \ {t} : thread'[u] = thread[u]
    BY <1>2, <1>7 DEF ThreadLine, ThreadRecord, AfterLine
  <2>2. FdIn(t)' = FdIn(t) /\ FdOut(t)' = FdOut(t)
    BY <1>7, <2>1 DEF ThreadLine, FdIn, FdOut
  <2> QED
    BY <1>7, <2>1, <2>2, SameOwners DEF ThreadLine, Reading, Label
<1>8. CASE ThreadHeaders(t) \/ ThreadLed(t) \/ ThreadLedLow(t) \/ ThreadReply(t)
  <2>1. /\ thread[t].pc \in {"headers", "led", "ledlow", "reply"}
        /\ UNCHANGED thread \/ \E label \in {"led", "ledlow", "reply", "close"} : Goto(t, label)
        /\ UNCHANGED fds
    BY <1>8 DEF ThreadHeaders, ThreadLed, ThreadLedLow, ThreadReply
  <2>2. {"led", "ledlow", "reply", "close"} \subseteq Label
    BY DEF Label
  <2>4. /\ thread'[t].pc \in {"headers", "led", "ledlow", "reply", "close"}
        /\ thread'[t].rd = thread[t].rd /\ thread'[t].wr = thread[t].wr
        /\ \A u \in Thread \ {t} : thread'[u] = thread[u]
    BY <1>0, <2>1, <2>2, GotoEffect
  <2>5. FdIn(t)' = FdIn(t) /\ FdOut(t)' = FdOut(t)
    BY <2>1, <2>4 DEF FdIn, FdOut
  <2> QED
    BY <2>1, <2>4, <2>5, SameOwners DEF Reading, Label
<1>9. CASE ThreadClose(t)
  <2>1. /\ thread[t].pc = "close" /\ thread'[t].pc = "closewrite"
        /\ thread'[t].wr = thread[t].wr
        /\ \A u \in Thread \ {t} : thread'[u] = thread[u]
    BY <1>0, <1>9, GotoEffect DEF ThreadClose, Label
  <2>2. \A u \in Thread : /\ FdIn(u)' = IF u = t THEN NoFd ELSE FdIn(u)
                          /\ FdOut(u)' = FdOut(u)
    BY <1>1, <2>1 DEF FdIn, FdOut, CopiesArgument
  <2>3. /\ FdIn(t) = thread[t].rd
        /\ \A g \in Fd : fds'[g] = IF g = FdIn(t) THEN NoClient ELSE fds[g]
    BY <1>0, <1>9, <2>1, ClosingEffect DEF ThreadClose, FdIn
  <2>4. FdIn(t) # NoFd
    BY <1>0, <2>1 DEF Owners
  <2>5. \A u \in Thread : /\ FdIn(u) # NoFd => FdIn(u) \in Fd
                          /\ FdOut(u) # NoFd => FdOut(u) \in Fd
    BY OwnedIsOpen
  <2>6. Owners'
    BY <1>0, <1>1, <2>1, <2>2, <2>3, <2>4, <2>5 DEF Owners, Distinct, FdMain
  <2>7. Distinct'
    BY <1>0, <1>1, <2>2 DEF Distinct
  <2>8. Owned'
    BY <1>0, <1>1, <2>2, <2>3 DEF Owned
  <2> QED
    BY <2>6, <2>7, <2>8
<1>10. CASE ThreadCloseWrite(t)
  <2>1. /\ thread[t].pc = "closewrite" /\ thread'[t].pc = "done"
        /\ thread'[t].wr = NoFd
        /\ \A u \in Thread \ {t} : thread'[u] = thread[u]
    BY <1>0, <1>10, EndsEffect DEF ThreadCloseWrite
  <2>2. \A u \in Thread : /\ FdIn(u)' = FdIn(u)
                          /\ FdOut(u)' = IF u = t THEN NoFd ELSE FdOut(u)
    BY <1>1, <2>1 DEF FdIn, FdOut, CopiesArgument
  <2>3. \A g \in Fd : fds'[g] = IF g = FdOut(t) THEN NoClient ELSE fds[g]
    BY <1>0, <1>10, <2>1, ClosingEffect DEF ThreadCloseWrite, FdOut
  <2>4. \A u \in Thread : /\ FdIn(u) # NoFd => FdIn(u) \in Fd
                          /\ FdOut(u) # NoFd => FdOut(u) \in Fd
    BY OwnedIsOpen
  <2>5. Owners'
    <3>1. FdIn(t) = NoFd /\ (mpc = "create" => FdMain # NoFd)
      BY <1>0, <2>1, FdFacts DEF Owners, FdIn
    <3> QED
      BY <1>0, <1>1, <2>1, <2>2, <2>3, <2>4, <3>1 DEF Owners, Distinct
  <2>6. Distinct'
    BY <1>0, <1>1, <2>2 DEF Distinct
  <2>7. Owned'
    BY <1>0, <1>1, <2>2, <2>3 DEF Owned
  <2> QED
    BY <2>5, <2>6, <2>7
<1>11. CASE ThreadFills(t)
  BY <1>0, <1>11, SameOwners DEF ThreadFills, Reading, Label, FdIn, FdOut, CopiesArgument
<1> QED
  BY <1>3, <1>4, <1>5, <1>6, <1>7, <1>8, <1>9, <1>10, <1>11 DEF ThreadStep

\* Every step of a thread is one of a thread at work, at labels of its program.
LEMMA ThreadLabels ==
  ASSUME IInv, NEW t \in Thread, ThreadStep(t)
  PROVE  /\ Working(t)
         /\ thread'[t].pc # "none"
         /\ thread'[t].pc \in {"free", "greet"} => program = "greeting"
         /\ thread'[t].pc \in {"dup", "line", "headers", "led", "ledlow", "reply", "closewrite"}
              => program # "greeting"
         /\ \A u \in Thread \ {t} : thread'[u] = thread[u]
<1>0. Types /\ Phases /\ thread \in [Thread -> ThreadRecord]
  BY DEF IInv, Types
<1> USE DEF Working
<1>1. CASE ThreadStart(t)
  BY <1>0, <1>1 DEF ThreadStart, ThreadRecord
<1>2. CASE GreetFree(t) \/ GreetSend(t)
  <2>1. PICK label \in {"greet", "close"} : Goto(t, label)
    BY <1>2 DEF GreetFree, GreetSend
  <2>2. label \in Label
    BY DEF Label
  <2>3. thread'[t].pc = label /\ \A u \in Thread \ {t} : thread'[u] = thread[u]
    BY <1>0, <2>1, <2>2, GotoEffect
  <2> QED
    BY <1>0, <1>2, <2>3 DEF GreetFree, GreetSend, Phases
<1>3. CASE ThreadDup(t) \/ ThreadLine(t)
  <2>1. thread'[t].pc \in {"line", "headers", "led", "reply"}
    <3>1. CASE ThreadDup(t)
      <4>1. thread'[t].pc = "line"
        BY <1>0, <3>1 DEF ThreadDup, ThreadRecord, Goto
      <4> QED
        BY <4>1
    <3>2. CASE ThreadLine(t)
      <4>1. PICK req \in Known(program) :
              thread' = [thread EXCEPT ![t].req = req, ![t].pc = AfterLine(req)]
        BY <3>2 DEF ThreadLine
      <4>2. AfterLine(req) \in {"headers", "led", "reply"}
        BY DEF AfterLine
      <4>3. thread'[t].pc = AfterLine(req)
        BY <1>0, <4>1 DEF ThreadRecord
      <4> QED
        BY <4>2, <4>3
    <3> QED
      BY <1>3, <3>1, <3>2
  <2>2. \A u \in Thread \ {t} : thread'[u] = thread[u]
    BY <1>0, <1>3 DEF ThreadDup, ThreadLine, Goto
  <2> QED
    BY <1>0, <1>3, <2>1, <2>2 DEF ThreadDup, ThreadLine, Phases
<1>4. CASE ThreadHeaders(t) \/ ThreadLed(t) \/ ThreadLedLow(t) \/ ThreadReply(t)
  <2>1. UNCHANGED thread \/ \E label \in {"led", "ledlow", "reply", "close"} : Goto(t, label)
    BY <1>4 DEF ThreadHeaders, ThreadLed, ThreadLedLow, ThreadReply
  <2>2. {"led", "ledlow", "reply", "close"} \subseteq Label
    BY DEF Label
  <2>3. /\ \/ UNCHANGED thread
           \/ thread'[t].pc \in {"led", "ledlow", "reply", "close"}
        /\ \A u \in Thread \ {t} : thread'[u] = thread[u]
    BY <1>0, <2>1, <2>2, GotoEffect
  <2> QED
    BY <1>0, <1>4, <2>3 DEF ThreadHeaders, ThreadLed, ThreadLedLow, ThreadReply, Phases
<1>5. CASE ThreadClose(t)
  <2>1. CASE program = "greeting"
    BY <1>0, <1>5, <2>1, EndsEffect DEF ThreadClose
  <2>2. CASE program # "greeting"
    BY <1>0, <1>5, <2>2, GotoEffect DEF ThreadClose, Label
  <2> QED
    BY <2>1, <2>2
<1>6. CASE ThreadCloseWrite(t)
  BY <1>0, <1>6, EndsEffect DEF ThreadCloseWrite
<1>7. CASE ThreadFills(t)
  BY <1>0, <1>7 DEF ThreadFills, Phases
<1> QED
  BY <1>1, <1>2, <1>3, <1>4, <1>5, <1>6, <1>7 DEF ThreadStep

LEMMA ThreadInv == ASSUME IInv, NEW t \in Thread, ThreadStep(t) PROVE IInv'
<1>1. UNCHANGED <<program, limit, mpc, local, accepted, backlog, peer>>
  BY ThreadFrame
<1>2. Phases /\ Made /\ Queued
  BY DEF IInv
<1>3. Types'
  BY ThreadTypes
<1>4. Phases'
  BY <1>1, <1>2, ThreadLabels DEF Phases
<1>5. Made'
  <2>1. mpc = "create" /\ Len(accepted) \in Thread => t # Len(accepted)
    BY <1>2, ThreadLabels DEF Made
  <2>2. t <= Len(accepted) /\ (program \in Serial => mpc = "join" /\ t = Len(accepted))
    BY <1>2, ThreadLabels DEF Made
  <2> QED
    BY <1>1, <1>2, <2>1, <2>2, ThreadLabels DEF Made, Working
<1>6. Queued'
  BY <1>1, <1>2 DEF Queued
<1>7. program' # "greeting" => Owners' /\ Distinct' /\ Owned'
  BY <1>1, ThreadOwners
<1> QED
  BY <1>3, <1>4, <1>5, <1>6, <1>7 DEF IInv

------------------------------------------------------------------------------
(* The other steps. *)

\* The owners do not change with what else changes.
LEMMA SameOwnersOutside ==
  ASSUME IInv, UNCHANGED <<program, limit, fds, thread, accepted>>,
         FdMain' = FdMain, (mpc' = "create") <=> (mpc = "create"),
         \A t \in Thread : FdIn(t)' = FdIn(t)
  PROVE  program' # "greeting" => Owners' /\ Distinct' /\ Owned'
<1>1. \A t \in Thread : FdOut(t)' = FdOut(t)
  BY DEF FdOut
<1>2. Fd' = Fd
  BY DEF Fd
<1>3. program' # "greeting" => Owners /\ Distinct /\ Owned
  BY DEF IInv
<1>4. Owners => Owners'
  BY <1>1, <1>2 DEF Owners
<1>5. (Distinct => Distinct') /\ (Owned => Owned')
  BY <1>1, <1>2 DEF Distinct, Owned
<1> QED
  BY <1>3, <1>4, <1>5

LEMMA ClientInv ==
  ASSUME IInv, NEW c \in Client, Connect(c) \/ SendPart(c) \/ Read(c) \/ Close(c)
  PROVE  IInv'
<1>1. /\ UNCHANGED <<program, limit, mpc, local, accepted, alive, fds, thread, led, asked,
                     answers>>
      /\ Fd' = Fd /\ MaybeFd' = MaybeFd /\ ThreadRecord' = ThreadRecord
  BY DEF Connect, SendPart, Read, Close, startVars, mainVars, clientVars, outVars, Fd, MaybeFd,
         ThreadRecord
<1>2. Types /\ Phases /\ Made /\ Queued
  BY DEF IInv
<1>3. backlog \in Seq(Client) /\ accepted \in Seq(Client)
  BY <1>2 DEF Types
<1>4. CASE Connect(c)
  <2>1. /\ backlog' = Append(backlog, c) /\ backlog' \in Seq(Client)
        /\ Len(backlog') = Len(backlog) + 1 /\ backlog'[Len(backlog) + 1] = c
        /\ \A n \in 1..Len(backlog) : backlog'[n] = backlog[n]
    BY <1>3, <1>4, AppendProperties DEF Connect
  <2>2. /\ peer' = [peer EXCEPT ![c] = "connected"] /\ peer[c] = "new"
        /\ UNCHANGED <<sent, socket>>
    BY <1>4 DEF Connect, outVars
  <2>3. peer' \in [Client -> {"new", "connected", "gone"}]
    BY <1>2, <2>2 DEF Types
  <2>4. \A d \in Client : peer'[d] = "new" => peer[d] = "new" /\ d # c
    BY <1>2, <2>2 DEF Types
  <2>5. Types'
    BY <1>1, <1>2, <2>1, <2>2, <2>3 DEF Types
  <2>6. Queued'
    <3>1. \A n \in 1..Len(backlog) : backlog[n] \in Client /\ backlog[n] # c
      BY <1>2, <1>3, <2>2 DEF Queued
    <3>2. \A m \in 1..Len(accepted) : accepted[m] \in Client /\ accepted[m] # c
      BY <1>2, <1>3, <2>2 DEF Queued
    <3>3. \A n \in 1..Len(backlog') : n \in 1..Len(backlog) \/ n = Len(backlog) + 1
      BY <1>3, <2>1
    <3> QED
      BY <1>1, <1>2, <2>1, <2>4, <3>1, <3>2, <3>3, SMTT(60) DEF Queued
  <2> QED
    BY <1>1, <1>2, <2>5, <2>6, SameOwnersOutside
       DEF IInv, Phases, Made, Working, FdIn, FdMain, CopiesArgument
<1>5. CASE SendPart(c) \/ Read(c) \/ Close(c)
  <2>1. Types'
    <3>1. sent \in [Client -> 0..2] /\ peer \in [Client -> {"new", "connected", "gone"}]
      BY <1>2 DEF Types
    <3>2. sent' \in [Client -> 0..2]
      <4>1. CASE sent[c] < 2 /\ sent' = [sent EXCEPT ![c] = @ + 1]
        <5>1. sent[c] + 1 \in 0..2
          BY <3>1, <4>1
        <5> QED
          BY <3>1, <4>1, <5>1
      <4> QED
        BY <1>5, <3>1, <4>1 DEF SendPart, Read, Close, clientVars
    <3>3. /\ peer' \in [Client -> {"new", "connected", "gone"}]
          /\ UNCHANGED backlog
      BY <1>5, <3>1 DEF SendPart, Read, Close, clientVars
    <3>4. socket' \in [Client -> {"room", "full", "read"}]
      BY <1>2, <1>5 DEF Types, SendPart, Read, Close, outVars
    <3> QED
      BY <1>1, <1>2, <3>2, <3>3, <3>4 DEF Types
  <2>2. backlog' = backlog /\ \A d \in Client : peer'[d] = "new" => peer[d] = "new"
    BY <1>2, <1>5 DEF SendPart, Read, Close, clientVars, Types
  <2>3. Queued'
    BY <1>1, <1>2, <1>3, <2>2, SMTT(60) DEF Queued
  <2> QED
    BY <1>1, <1>2, <2>1, <2>3, SameOwnersOutside
       DEF IInv, Phases, Made, Working, FdIn, FdMain, CopiesArgument
<1> QED
  BY <1>4, <1>5

LEMMA AcceptInv == IInv /\ Accept => IInv'
<1> SUFFICES ASSUME IInv, Accept PROVE IInv'
  OBVIOUS
<1> DEFINE f == Lowest(FreeFds)
           c == Head(backlog)
<1>1. /\ UNCHANGED <<program, limit, alive, thread, led, peer, asked, sent, answers, socket>>
      /\ Fd' = Fd /\ MaybeFd' = MaybeFd /\ ThreadRecord' = ThreadRecord
      /\ mpc = "accept" /\ mpc' = "create"
      /\ backlog # <<>> /\ local' = f
      /\ fds' = [fds EXCEPT ![f] = c]
      /\ accepted' = Append(accepted, c) /\ backlog' = Tail(backlog)
  BY DEF Accept, startVars, clientVars, outVars, Fd, MaybeFd, ThreadRecord
<1>2. Types /\ Phases /\ Made /\ Queued
  BY DEF IInv
<1>3. f \in Fd /\ f \in FreeFds /\ f # NoFd
  BY <1>2, LowestIsFree, FdFacts DEF Accept, FreeFds
<1>4. accepted \in Seq(Client) /\ backlog \in Seq(Client)
  BY <1>2 DEF Types
<1>5. /\ c \in Client /\ backlog' \in Seq(Client) /\ c = backlog[1]
      /\ Len(backlog') = Len(backlog) - 1 /\ Len(backlog) \in Nat \ {0}
      /\ \A n \in 1..Len(backlog') : backlog'[n] = backlog[n + 1]
  BY <1>1, <1>4, HeadTailProperties
<1>6. /\ accepted' \in Seq(Client) /\ Len(accepted) \in Nat
      /\ Len(accepted') = Len(accepted) + 1 /\ accepted'[Len(accepted) + 1] = c
      /\ \A n \in 1..Len(accepted) : accepted'[n] = accepted[n]
  BY <1>1, <1>4, <1>5, AppendProperties
<1> HIDE DEF f, c
<1>7. fds' \in [Fd -> Client \cup {NoClient}]
      /\ \A g \in Fd : fds'[g] = IF g = f THEN c ELSE fds[g]
  BY <1>1, <1>2, <1>3, <1>5 DEF Types
<1>8. Types'
  BY <1>1, <1>2, <1>3, <1>5, <1>6, <1>7 DEF Types, MaybeFd
<1>9. Phases'
  BY <1>1, <1>2 DEF Phases
<1>10. \A t \in Thread : thread[t].pc # "none" => t \in 1..Len(accepted)
  BY <1>2, <1>6 DEF Made, Thread
<1>11. program \in Serial => \A t \in Thread : ~Working(t)
  BY <1>1, <1>2 DEF Made
<1>12. Made'
  BY <1>1, <1>2, <1>6, <1>10, <1>11 DEF Made, Working
<1>13. Queued'
  <2>1. \A m \in 1..Len(accepted') : m \in 1..Len(accepted) \/ m = Len(accepted) + 1
    BY <1>6
  <2>2. \A n \in 1..Len(backlog') : n \in 1..Len(backlog) /\ n + 1 \in 1..Len(backlog)
    BY <1>5
  <2>3. 1 \in 1..Len(backlog)
    BY <1>5
  <2>4. \A m, n \in 1..Len(backlog') : backlog'[m] = backlog'[n] => m = n
    <3> TAKE m, n \in 1..Len(backlog')
    <3>1. backlog[m + 1] = backlog[n + 1] => m + 1 = n + 1
      BY <1>2, <2>2 DEF Queued
    <3> QED
      BY <1>5, <3>1
  <2>5. \A n \in 1..Len(backlog') : backlog'[n] # c /\ peer[backlog'[n]] # "new"
    <3> TAKE n \in 1..Len(backlog')
    <3>1. n + 1 # 1 /\ n + 1 \in 1..Len(backlog)
      BY <2>2
    <3> QED
      BY <1>2, <1>5, <2>3, <3>1 DEF Queued
  <2>6. \A m \in 1..Len(accepted) : accepted[m] # c
    BY <1>2, <1>5, <2>3 DEF Queued
  <2>7. \A m \in 1..Len(accepted), n \in 1..Len(backlog') : accepted[m] # backlog'[n]
    BY <1>2, <1>5, <2>2 DEF Queued
  <2>8. peer[c] # "new"
    BY <1>2, <1>5, <2>3 DEF Queued
  <2> QED
    BY <1>1, <1>2, <1>6, <2>1, <2>4, <2>5, <2>6, <2>7, <2>8 DEF Queued
<1>14. ASSUME program # "greeting" PROVE Owners' /\ Distinct' /\ Owned'
  <2>1. Owners /\ Distinct /\ Owned
    BY <1>14 DEF IInv
  <2>2. \A t \in Thread : FdIn(t)' = FdIn(t) /\ FdOut(t)' = FdOut(t)
    <3>1. \A t \in Thread : thread[t].pc = "start" => CopiesArgument \/ program \in Serial
      BY <1>2, <1>14, ProgramsAssumption DEF Types, CopiesArgument
    <3> QED
      BY <1>1, <1>11, <3>1 DEF FdIn, FdOut, CopiesArgument, Working
  <2>3. FdMain' = f /\ FdMain = NoFd
    BY <1>1 DEF FdMain
  <2>4. \A t \in Thread : FdIn(t) # f /\ FdOut(t) # f
    BY <1>3, <1>14, OwnedIsOpen
  <2>5. \A t \in Thread : /\ FdIn(t) # NoFd => FdIn(t) \in Fd
                          /\ FdOut(t) # NoFd => FdOut(t) \in Fd
    BY <1>14, OwnedIsOpen
  <2>6. \A t \in Thread : thread[t].pc # "none" => accepted'[t] = accepted[t]
    BY <1>6, <1>10
  <2>7. \A t \in Thread : FdIn(t) # NoFd \/ FdOut(t) # NoFd => thread[t].pc # "none"
    BY <2>1 DEF Owners, FdIn
  <2>8. Owners'
    <3>1. \A t \in Thread :
            /\ thread'[t].pc \notin {"none", "closewrite", "done"} => FdIn(t)' # NoFd
            /\ thread'[t].pc \in {"none", "start", "dup", "done"} => FdOut(t)' = NoFd
      BY <1>1, <2>1, <2>2 DEF Owners
    <3>2. \A t \in Thread : FdIn(t) # NoFd =>
            FdIn(t) \in Fd /\ fds'[FdIn(t)] = accepted'[t]
      BY <1>7, <2>1, <2>4, <2>5, <2>6, <2>7 DEF Owners
    <3>3. \A t \in Thread : FdOut(t) # NoFd => fds'[FdOut(t)] = accepted'[t]
      BY <1>7, <2>1, <2>4, <2>5, <2>6, <2>7 DEF Owners
    <3>4. FdMain' \in Fd' /\ fds'[FdMain'] = accepted'[Len(accepted')]
      BY <1>1, <1>3, <1>6, <1>7, <2>3
    <3> QED
      BY <1>1, <2>2, <3>1, <3>2, <3>3, <3>4 DEF Owners
  <2>9. Distinct'
    BY <1>1, <2>1, <2>2, <2>3, <2>4 DEF Distinct
  <2>10. Owned'
    BY <1>1, <1>7, <2>1, <2>2, <2>3, FdFacts, <1>2 DEF Owned
  <2> QED
    BY <2>8, <2>9, <2>10
<1> QED
  BY <1>1, <1>8, <1>9, <1>12, <1>13, <1>14 DEF IInv

LEMMA AcceptFailsInv == IInv /\ AcceptFails => IInv'
<1> SUFFICES ASSUME IInv, AcceptFails PROVE IInv'
  OBVIOUS
<1>1. /\ UNCHANGED <<program, limit, alive, accepted, backlog, fds, thread, led, peer, asked,
                     sent, answers, socket>>
      /\ Fd' = Fd /\ MaybeFd' = MaybeFd /\ ThreadRecord' = ThreadRecord
      /\ mpc = "accept" /\ mpc' \in {"accept", "stopped", "nosocket"} /\ local' = NoFd
  BY DEF AcceptFails, startVars, clientVars, outVars, Fd, MaybeFd, ThreadRecord
<1>2. Types /\ Phases /\ Made /\ Queued
  BY DEF IInv
<1>3. Types'
  BY <1>1, <1>2 DEF Types, MaybeFd
<1>4. program \in Serial => \A t \in Thread : ~Working(t)
  BY <1>1, <1>2 DEF Made
<1>5. Phases' /\ Made' /\ Queued'
  BY <1>1, <1>2, <1>4 DEF Phases, Made, Queued, Working
<1>6. ASSUME program # "greeting" PROVE Owners' /\ Distinct' /\ Owned'
  <2>1. \A t \in Thread : thread[t].pc = "start" => CopiesArgument \/ program \in Serial
    BY <1>2, <1>6, ProgramsAssumption DEF Types, CopiesArgument
  <2>2. \A t \in Thread : FdIn(t)' = FdIn(t)
    BY <1>1, <1>4, <2>1 DEF FdIn, CopiesArgument, Working
  <2>3. FdMain' = FdMain
    BY <1>1 DEF FdMain
  <2> QED
    BY <1>1, <1>6, <2>2, <2>3, SameOwnersOutside
<1> QED
  BY <1>1, <1>3, <1>5, <1>6 DEF IInv

\* There is a thread for every accepted client.
LEMMA AcceptedFew ==
  ASSUME Types, Queued
  PROVE  Len(accepted) \in Nat /\ Len(accepted) <= Cardinality(Client)
<1>1. accepted \in Seq(Client)
  BY DEF Types
<1>2. Len(accepted) \in Nat
  BY <1>1
<1> DEFINE place == [n \in 1..Len(accepted) |-> accepted[n]]
<1>3. \A n \in 1..Len(accepted) : accepted[n] \in Client
  BY <1>1
<1>4. place \in [1..Len(accepted) -> Client]
  BY <1>3
<1>5. \A m, n \in 1..Len(accepted) : place[m] = place[n] => m = n
  BY DEF Queued
<1>6. IsFiniteSet(1..Len(accepted)) /\ Cardinality(1..Len(accepted)) = Len(accepted)
  BY <1>2, FS_Interval, SMTT(60)
<1>7. Cardinality(Client) \in Nat /\ IsFiniteSet(Client)
  BY ThreadFacts, ClientAssumption
<1> HIDE DEF place
<1>8. ~(Cardinality(Client) < Cardinality(1..Len(accepted)))
  BY <1>4, <1>5, <1>6, <1>7, FS_PigeonHole
<1> QED
  BY <1>2, <1>6, <1>7, <1>8

LEMMA CreateInv == IInv /\ Create => IInv'
<1> SUFFICES ASSUME IInv, Create PROVE IInv'
  OBVIOUS
<1> DEFINE n == Len(accepted)
<1>1. /\ UNCHANGED <<program, limit, alive, local, accepted, backlog, fds, led, peer, asked,
                     sent, answers, socket>>
      /\ Fd' = Fd /\ MaybeFd' = MaybeFd /\ ThreadRecord' = ThreadRecord
      /\ mpc = "create" /\ mpc' = IF program \in Serial THEN "join" ELSE "accept"
  BY DEF Create, AfterCreate, startVars, clientVars, outVars, Fd, MaybeFd, ThreadRecord
<1>2. Types /\ Phases /\ Made /\ Queued
  BY DEF IInv
<1>3. n \in Nat /\ n > 0 /\ n \in Thread
  BY <1>1, <1>2, AcceptedFew, ThreadFacts DEF Made, Thread
<1>4. thread \in [Thread -> ThreadRecord] /\ local \in MaybeFd
  BY <1>2 DEF Types
<1> HIDE DEF n
<1>5. /\ thread' \in [Thread -> ThreadRecord]
      /\ thread'[n].pc = "start" /\ thread'[n].wr = NoFd
      /\ thread'[n].arg = IF CopiesArgument THEN local ELSE NoFd
      /\ \A u \in Thread \ {n} : thread'[u] = thread[u]
  BY <1>3, <1>4 DEF Create, NoThread, ThreadRecord, Label, MaybeFd, Request, n
<1>6. Types'
  BY <1>1, <1>2, <1>5 DEF Types
<1>7. Phases' /\ Queued'
  BY <1>1, <1>2, <1>5 DEF Phases, Queued
<1>8. thread[n].pc = "none"
  BY <1>1, <1>2, <1>3 DEF Made, n
<1>9. Made'
  <2>1. \A t \in Thread : t # n /\ Working(t) => program \notin Serial /\ t <= n
    BY <1>1, <1>2 DEF Made, n
  <2>2. \A t \in Thread : thread[t].pc # "none" => t <= n
    BY <1>2 DEF Made, n
  <2> QED
    BY <1>1, <1>3, <1>5, <2>1, <2>2 DEF Made, Working, n
<1>10. ASSUME program # "greeting" PROVE Owners' /\ Distinct' /\ Owned'
  <2>1. Owners /\ Distinct /\ Owned
    BY <1>10 DEF IInv
  <2>2. FdMain = local /\ FdMain' = NoFd /\ FdMain \in Fd /\ FdMain # NoFd
    BY <1>1, <1>2, <2>1, FdFacts DEF FdMain, Owners
  <2>3. FdIn(n) = NoFd /\ FdOut(n) = NoFd
    BY <1>3, <1>8, <2>1 DEF FdIn, Owners
  <2>4. \A t \in Thread : /\ FdIn(t)' = IF t = n THEN FdMain ELSE FdIn(t)
                          /\ FdOut(t)' = FdOut(t)
    BY <1>1, <1>3, <1>5, <2>2, <2>3 DEF FdIn, FdOut, CopiesArgument
  <2>5. fds[FdMain] = accepted[n]
    BY <1>1, <2>1 DEF Owners, n
  <2>6. Owners'
    BY <1>1, <1>5, <2>1, <2>2, <2>3, <2>4, <2>5 DEF Owners
  <2>7. Distinct'
    BY <1>1, <2>1, <2>2, <2>3, <2>4 DEF Distinct
  <2>8. Owned'
    BY <1>1, <1>2, <1>3, <2>1, <2>2, <2>3, <2>4, FdFacts DEF Owned
  <2> QED
    BY <2>6, <2>7, <2>8
<1> QED
  BY <1>1, <1>6, <1>7, <1>9, <1>10 DEF IInv

\* A failed creation leaves the descriptor to a thread that never runs.
LEMMA CreateFailsInv == IInv /\ CreateFails => IInv'
<1> SUFFICES ASSUME IInv, CreateFails PROVE IInv'
  OBVIOUS
<1> DEFINE n == Len(accepted)
<1>1. /\ UNCHANGED <<program, limit, local, accepted, backlog, fds, led, peer, asked,
                     sent, answers, socket>>
      /\ Fd' = Fd /\ MaybeFd' = MaybeFd /\ ThreadRecord' = ThreadRecord
      /\ alive' \in BOOLEAN /\ mpc = "create"
  BY DEF CreateFails, startVars, clientVars, outVars, Fd, MaybeFd, ThreadRecord
<1>2. Types /\ Phases /\ Made /\ Queued
  BY DEF IInv
<1>3. CASE program = "greeting"
  <2>1. UNCHANGED <<mpc, thread>>
    BY <1>3 DEF CreateFails
  <2>2. Types' /\ Phases' /\ Made' /\ Queued'
    BY <1>1, <1>2, <2>1 DEF Types, Phases, Made, Queued, Working
  <2> QED
    BY <1>1, <1>3, <2>2 DEF IInv
<1>4. CASE program # "greeting"
  <2>1. n \in Nat /\ n > 0 /\ n \in Thread
    BY <1>1, <1>2, AcceptedFew, ThreadFacts DEF Made, Thread
  <2>2. thread \in [Thread -> ThreadRecord] /\ local \in MaybeFd
    BY <1>2 DEF Types
  <2> HIDE DEF n
  <2>3. /\ thread' \in [Thread -> ThreadRecord]
        /\ thread'[n].pc = "failed" /\ thread'[n].rd = local /\ thread'[n].wr = NoFd
        /\ \A u \in Thread \ {n} : thread'[u] = thread[u]
        /\ mpc' = "accept"
    <3> DEFINE lost == [NoThread EXCEPT !.pc = "failed", !.rd = local]
    <3>1. thread' = [thread EXCEPT ![n] = lost] /\ mpc' = "accept"
      BY <1>4 DEF CreateFails, n
    <3>2. lost.pc = "failed" /\ lost.rd = local /\ lost.wr = NoFd /\ lost \in ThreadRecord
      BY <2>2 DEF NoThread, ThreadRecord, Label, MaybeFd, Request
    <3> QED
      BY <2>1, <2>2, <3>1, <3>2
  <2>4. Types'
    BY <1>1, <1>2, <2>3 DEF Types
  <2>5. Phases' /\ Queued'
    BY <1>1, <1>2, <2>3 DEF Phases, Queued
  <2>6. thread[n].pc = "none"
    BY <1>1, <1>2, <2>1 DEF Made, n
  <2>7. Made'
    <3>1. \A t \in Thread : t # n /\ Working(t) => program \notin Serial /\ t <= n
      BY <1>1, <1>2 DEF Made, n
    <3>2. \A t \in Thread : thread[t].pc # "none" => t <= n
      BY <1>2 DEF Made, n
    <3> QED
      BY <1>1, <2>1, <2>3, <3>1, <3>2 DEF Made, Working, n
  <2>8. Owners /\ Distinct /\ Owned
    BY <1>4 DEF IInv
  <2>9. FdMain = local /\ FdMain' = NoFd /\ FdMain \in Fd /\ FdMain # NoFd
    BY <1>1, <1>2, <2>3, <2>8, FdFacts DEF FdMain, Owners
  <2>10. FdIn(n) = NoFd /\ FdOut(n) = NoFd
    BY <2>1, <2>6, <2>8 DEF FdIn, Owners
  <2>11. \A t \in Thread : /\ FdIn(t)' = IF t = n THEN FdMain ELSE FdIn(t)
                           /\ FdOut(t)' = FdOut(t)
    BY <1>1, <2>1, <2>3, <2>9, <2>10 DEF FdIn, FdOut, CopiesArgument
  <2>12. fds[FdMain] = accepted[n]
    BY <1>1, <2>8 DEF Owners, n
  <2>13. Owners'
    BY <1>1, <2>3, <2>8, <2>9, <2>10, <2>11, <2>12 DEF Owners
  <2>14. Distinct'
    BY <1>1, <2>8, <2>9, <2>10, <2>11 DEF Distinct
  <2>15. Owned'
    BY <1>1, <1>2, <2>1, <2>8, <2>9, <2>10, <2>11, FdFacts DEF Owned
  <2> QED
    BY <2>4, <2>5, <2>7, <2>13, <2>14, <2>15 DEF IInv
<1> QED
  BY <1>3, <1>4

LEMMA NoSocketInv == IInv /\ NoSocket => IInv'
<1> SUFFICES ASSUME IInv, NoSocket PROVE IInv'
  OBVIOUS
<1>1. /\ UNCHANGED <<program, limit, local, accepted, backlog, fds, thread, led, peer,
                     asked, sent, answers, socket>>
      /\ Fd' = Fd /\ MaybeFd' = MaybeFd /\ ThreadRecord' = ThreadRecord
      /\ mpc = "nosocket" /\ mpc' = "accept" /\ alive' \in BOOLEAN
  BY DEF NoSocket, startVars, clientVars, outVars, Fd, MaybeFd, ThreadRecord
<1>2. Types /\ Phases /\ Made /\ Queued
  BY DEF IInv
<1>3. Types' /\ Phases' /\ Queued'
  BY <1>1, <1>2 DEF Types, Phases, Queued
<1>4. Made'
  BY <1>1, <1>2 DEF Made, Working
<1>5. FdMain' = FdMain /\ \A t \in Thread : FdIn(t)' = FdIn(t)
  BY <1>1 DEF FdMain, FdIn, CopiesArgument
<1> QED
  BY <1>1, <1>3, <1>4, <1>5, SameOwnersOutside DEF IInv

LEMMA JoinInv == IInv /\ Join => IInv'
<1> SUFFICES ASSUME IInv, Join PROVE IInv'
  OBVIOUS
<1>1. /\ UNCHANGED <<program, limit, alive, local, accepted, backlog, fds, thread, led, peer,
                     asked, sent, answers, socket>>
      /\ Fd' = Fd /\ MaybeFd' = MaybeFd /\ ThreadRecord' = ThreadRecord
      /\ mpc = "join" /\ mpc' = "accept" /\ thread[Len(accepted)].pc = "done"
  BY DEF Join, startVars, clientVars, outVars, Fd, MaybeFd, ThreadRecord
<1>2. Types /\ Phases /\ Made /\ Queued
  BY DEF IInv
<1>3. Types' /\ Phases' /\ Queued'
  BY <1>1, <1>2 DEF Types, Phases, Queued
<1>4. program \in Serial => \A t \in Thread : ~Working(t)
  BY <1>1, <1>2 DEF Made, Working
<1>5. Made'
  BY <1>1, <1>2, <1>4 DEF Made, Working
<1>6. FdMain' = FdMain /\ \A t \in Thread : FdIn(t)' = FdIn(t)
  BY <1>1 DEF FdMain, FdIn, CopiesArgument
<1> QED
  BY <1>1, <1>3, <1>5, <1>6, SameOwnersOutside DEF IInv

\* What rpi6's keyboard does, and a step in which nothing happens.
LEMMA QuitInv == ASSUME IInv, Quit \/ UNCHANGED vars PROVE IInv'
<1>1. /\ UNCHANGED <<program, limit, mpc, local, accepted, backlog, fds, thread, led, peer,
                     asked, sent, answers, socket>>
      /\ alive' \in BOOLEAN
      /\ Fd' = Fd /\ MaybeFd' = MaybeFd /\ ThreadRecord' = ThreadRecord
  BY DEF Quit, vars, startVars, mainVars, clientVars, outVars, Fd, MaybeFd, ThreadRecord, IInv,
         Types
<1>2. Types /\ Phases /\ Made /\ Queued
  BY DEF IInv
<1>3. Types' /\ Phases' /\ Made' /\ Queued'
  BY <1>1, <1>2 DEF Types, Phases, Made, Queued, Working
<1>4. FdMain' = FdMain /\ \A t \in Thread : FdIn(t)' = FdIn(t)
  BY <1>1 DEF FdMain, FdIn, CopiesArgument
<1> QED
  BY <1>1, <1>3, <1>4, SameOwnersOutside DEF IInv

\* The invariant is inductive.
LEMMA NextInv == IInv /\ [Next]_vars => IInv'
BY ClientInv, AcceptInv, AcceptFailsInv, NoSocketInv, CreateInv, CreateFailsInv, JoinInv,
   QuitInv, ThreadInv
   DEF Next, MainStep

LEMMA Invariance == Spec => []IInv
BY InitInv, NextInv, PTL DEF Spec

------------------------------------------------------------------------------
(* Theorems. *)

\* Every variable stays in its range, and a serial server has a thread only while main()
\* waits for it.
THEOREM TypeCorrect == Spec => []TypeOK
<1>1. ASSUME IInv PROVE TypeOK
  <2>1. Types /\ Made
    BY <1>1 DEF IInv
  <2>2. Range(accepted) \cup Range(backlog) \subseteq Client
    BY <2>1 DEF Types, Range
  <2>3. \A t \in Thread : /\ {thread[t].arg, thread[t].rd, thread[t].wr} \subseteq Fd \cup {NoFd}
                          /\ thread[t].req \in Request
    BY <2>1 DEF Types, ThreadRecord, MaybeFd
  <2>4. \A t \in Thread : Working(t) =>
          t <= Len(accepted) /\ (program \in Serial => mpc = "join")
    BY <2>1 DEF Made
  <2> QED
    BY <2>1, <2>2, <2>3, <2>4 DEF TypeOK, Types, MaybeFd
<1> QED
  BY <1>1, Invariance, PTL

\* The servers that wait for the thread, or give it an int of its own, never let it work on
\* another client's connection, in whatever order descriptors are closed and given out anew.
THEOREM OwnSockets == Spec => []OwnSocket
<1>1. ASSUME IInv PROVE OwnSocket
  <2> SUFFICES ASSUME program # "greeting", NEW t \in Thread PROVE OwnConnection(t)
    BY DEF OwnSocket
  <2>1. Owners
    BY <1>1 DEF IInv
  <2> QED
    BY <2>1 DEF OwnConnection, Owners, FdIn, FdOut
<1> QED
  BY <1>1, Invariance, PTL

\* An injective function has as many values as arguments.
LEMMA ImageSize ==
  ASSUME NEW S, IsFiniteSet(S), NEW T, NEW h \in [S -> T],
         \A x, y \in S : h[x] = h[y] => x = y
  PROVE  /\ IsFiniteSet({h[x] : x \in S})
         /\ Cardinality({h[x] : x \in S}) = Cardinality(S)
<1> DEFINE I == {h[x] : x \in S}
<1>1. h \in [S -> I]
  OBVIOUS
<1>2. h \in Bijection(S, I)
  BY <1>1 DEF Bijection, Injection, IsInjective, Surjection
<1> QED
  BY <1>2, FS_Bijection DEF ExistsBijection

\* Sizes of four sets that have nothing in common.
LEMMA DisjointSizes ==
  ASSUME NEW A, NEW B, NEW C, NEW D,
         IsFiniteSet(A), IsFiniteSet(B), IsFiniteSet(C), IsFiniteSet(D),
         A \cap B = {}, A \cap C = {}, A \cap D = {}, B \cap C = {}, B \cap D = {}, C \cap D = {}
  PROVE  Cardinality(A \cup B \cup C \cup D) =
           Cardinality(A) + Cardinality(B) + Cardinality(C) + Cardinality(D)
<1>1. (A \cup B) \cap C = {} /\ (A \cup B \cup C) \cap D = {}
  OBVIOUS
<1>2. Cardinality({}) = 0
  BY FS_EmptySet
<1>3. IsFiniteSet(A \cup B) /\ Cardinality(A \cup B) = Cardinality(A) + Cardinality(B) - 0
  BY <1>2, FS_Union
<1>4. /\ IsFiniteSet(A \cup B \cup C)
      /\ Cardinality((A \cup B) \cup C) = Cardinality(A \cup B) + Cardinality(C) - 0
  BY <1>1, <1>2, <1>3, FS_Union
<1>5. Cardinality((A \cup B \cup C) \cup D) = Cardinality(A \cup B \cup C) + Cardinality(D) - 0
  BY <1>1, <1>2, <1>4, FS_Union
<1>6. /\ Cardinality(A) \in Nat /\ Cardinality(B) \in Nat
      /\ Cardinality(C) \in Nat /\ Cardinality(D) \in Nat
  BY FS_CardinalityType
<1> QED
  BY <1>3, <1>4, <1>5, <1>6

\* The open descriptors are those of the threads that read, of the threads that write, the
\* one main() has not handed over yet, and one for every thread that could not be created:
\* threads close theirs once and no other, and nobody closes the last.
THEOREM OpenHasReason == Spec => []OpenExplained
<1>1. ASSUME IInv PROVE OpenExplained
  <2> SUFFICES ASSUME program # "greeting"
               PROVE  Cardinality(Fd \ FreeFds) =
                        Cardinality(Reader) + Cardinality(Writer) + Cardinality(Failed)
                        + (IF mpc = "create" THEN 1 ELSE 0)
    BY DEF OpenExplained
  <2> DEFINE in == [t \in Reader |-> FdIn(t)]
             out == [t \in Writer |-> FdOut(t)]
             lost == [t \in Failed |-> FdIn(t)]
             Ins == {in[t] : t \in Reader}
             Outs == {out[t] : t \in Writer}
             Losts == {lost[t] : t \in Failed}
             Mains == IF mpc = "create" THEN {FdMain} ELSE {}
  <2>1. Types /\ Owners /\ Distinct /\ Owned
    BY <1>1 DEF IInv
  <2>2. \A t \in Reader \cup Failed : t \in Thread /\ FdIn(t) # NoFd /\ FdIn(t) \in Fd \ FreeFds
    BY <1>1, <2>1, OwnedIsOpen DEF Owners, Reader, Failed
  <2>3. \A t \in Writer : t \in Thread /\ FdOut(t) # NoFd /\ FdOut(t) \in Fd \ FreeFds
    BY <1>1, OwnedIsOpen DEF FdOut, Writer
  <2>4. \A t \in Thread : /\ FdIn(t) # NoFd => t \in Reader \cup Failed
                          /\ FdOut(t) # NoFd => t \in Writer
    BY DEF FdIn, FdOut, Reader, Writer, Failed
  <2>5. Mains \subseteq Fd \ FreeFds
    BY <1>1, <2>1, OwnedIsOpen, FdFacts DEF Owners
  <2>6. IsFiniteSet(Thread)
    BY ThreadFacts, FS_Interval DEF Thread
  <2>7. IsFiniteSet(Reader) /\ IsFiniteSet(Writer) /\ IsFiniteSet(Failed)
    BY <2>6, FS_Subset DEF Reader, Writer, Failed
  <2>8. /\ in \in [Reader -> Fd]
        /\ \A t, u \in Reader : in[t] = in[u] => t = u
    BY <2>1, <2>2 DEF Distinct
  <2>9. /\ out \in [Writer -> Fd]
        /\ \A t, u \in Writer : out[t] = out[u] => t = u
    BY <2>1, <2>3 DEF Distinct
  <2>10. /\ lost \in [Failed -> Fd]
         /\ \A t, u \in Failed : lost[t] = lost[u] => t = u
    BY <2>1, <2>2 DEF Distinct
  <2>11. /\ Ins = {FdIn(t) : t \in Reader}
         /\ Outs = {FdOut(t) : t \in Writer}
         /\ Losts = {FdIn(t) : t \in Failed}
    OBVIOUS
  <2> HIDE DEF in, out, lost
  <2>12. IsFiniteSet(Ins) /\ Cardinality(Ins) = Cardinality(Reader)
    BY <2>7, <2>8, ImageSize, SMTT(60)
  <2>13. IsFiniteSet(Outs) /\ Cardinality(Outs) = Cardinality(Writer)
    BY <2>7, <2>9, ImageSize, SMTT(60)
  <2>14. IsFiniteSet(Losts) /\ Cardinality(Losts) = Cardinality(Failed)
    BY <2>7, <2>10, ImageSize, SMTT(60)
  <2>15. IsFiniteSet(Mains) /\ Cardinality(Mains) = IF mpc = "create" THEN 1 ELSE 0
    BY FS_EmptySet, FS_Singleton
  <2>16. Ins \cap Outs = {} /\ Losts \cap Outs = {}
    BY <2>1, <2>2, <2>3, <2>11 DEF Distinct
  <2>17. Ins \cap Losts = {}
    <3>1. Reader \cap Failed = {}
      BY DEF Reader, Failed
    <3> QED
      BY <2>1, <2>2, <2>11, <3>1 DEF Distinct
  <2>18. Ins \cap Mains = {} /\ Outs \cap Mains = {} /\ Losts \cap Mains = {}
    <3>1. mpc = "create" => FdMain # NoFd
      BY <2>1, FdFacts DEF Owners
    <3> QED
      BY <2>1, <2>2, <2>3, <2>11, <3>1 DEF Distinct
  <2>19. Fd \ FreeFds = Ins \cup Outs \cup Losts \cup Mains
    <3>1. Ins \cup Outs \cup Losts \cup Mains \subseteq Fd \ FreeFds
      BY <2>2, <2>3, <2>5, <2>11
    <3>2. ASSUME NEW f \in Fd \ FreeFds PROVE f \in Ins \cup Outs \cup Losts \cup Mains
      <4>1. f # NoFd /\ fds[f] # NoClient
        BY <2>1, FdFacts DEF FreeFds
      <4>2. CASE f = FdMain
        BY <4>1, <4>2 DEF FdMain
      <4>3. CASE \E t \in Thread : f = FdIn(t) \/ f = FdOut(t)
        BY <2>4, <2>11, <4>1, <4>3
      <4> QED
        BY <2>1, <4>1, <4>2, <4>3 DEF Owned
    <3> QED
      BY <3>1, <3>2
  <2> HIDE DEF Ins, Outs, Losts, Mains
  <2>20. Cardinality(Fd \ FreeFds) =
           Cardinality(Ins) + Cardinality(Outs) + Cardinality(Losts) + Cardinality(Mains)
    BY <2>12, <2>13, <2>14, <2>15, <2>16, <2>17, <2>18, <2>19, DisjointSizes
  <2> QED
    BY <2>12, <2>13, <2>14, <2>15, <2>20
<1> QED
  BY <1>1, Invariance, PTL

------------------------------------------------------------------------------
(* The LED. *)

\* Client c gives a thread a reason to light the LED: it has asked for light, or has gone
\* without a request.
Reason(c) ==
  \/ sent[c] >= 1 /\ asked[c] \in {"on", "blink"}
  \/ sent[c] = 0 /\ peer[c] = "gone"

\* A thread whose request, its own or one it found on its stack, will light the LED.
WillLight(t) ==
  /\ thread[t].pc \in {"headers", "led", "ledlow", "reply"}
  /\ thread[t].req \in {"on", "blink"}

LedInv ==
  /\ led = "high" \/ (\E t \in Thread : WillLight(t)) => \E c \in Client : Reason(c)
  /\ \A t \in Thread : thread[t].pc = "led" => thread[t].req \in {"on", "off", "blink"}

\* A reason stays one.
LEMMA ReasonStays ==
  ASSUME IInv, [Next]_vars, NEW c \in Client, Reason(c)
  PROVE  Reason(c)'
<1>1. asked' = asked
  BY DEF Next, vars, Connect, SendPart, Read, Close, MainStep, Accept, AcceptFails, NoSocket,
         Create, CreateFails, Join, Quit, ThreadStep, clientVars
<1>2. CASE UNCHANGED <<peer, sent>>
  BY <1>1, <1>2 DEF Reason
<1>3. CASE \E d \in Client : Connect(d) \/ SendPart(d) \/ Close(d)
  <2>1. peer \in [Client -> {"new", "connected", "gone"}] /\ sent \in [Client -> 0..2]
    BY DEF IInv, Types
  <2>2. /\ sent'[c] \in Int /\ sent'[c] >= sent[c]
        /\ peer[c] = "gone" => peer'[c] = "gone" /\ sent'[c] = sent[c]
    BY <1>3, <2>1 DEF Connect, SendPart, Close
  <2> QED
    BY <1>1, <2>1, <2>2 DEF Reason
<1> QED
  BY <1>2, <1>3 DEF Next, vars, MainStep, Read, Accept, AcceptFails, NoSocket, Create,
                    CreateFails, Join, Quit, ThreadStep, clientVars

\* Where a thread goes: it takes up a request to light the LED only for a reason.
LEMMA ThreadLights ==
  ASSUME IInv, LedInv, NEW t \in Thread, ThreadStep(t),
         led' = "high" \/ WillLight(t)'
  PROVE  \/ led = "high" \/ WillLight(t) \/ \E c \in Client : Reason(c)
<1>0. Types /\ Phases /\ thread \in [Thread -> ThreadRecord]
  BY DEF IInv, Types
<1>1. CASE ThreadLine(t)
  <2>1. PICK req \in Known(program) :
          /\ \/ sent[Talks(t)] >= 1 /\ req = asked[Talks(t)]
             \/ sent[Talks(t)] = 0 /\ peer[Talks(t)] = "gone"
          /\ thread' = [thread EXCEPT ![t].req = req, ![t].pc = AfterLine(req)]
    BY <1>1 DEF ThreadLine
  <2>2. thread'[t].req = req /\ led' = led
    BY <1>0, <1>1, <2>1 DEF ThreadLine, ThreadRecord
  <2>3. Talks(t) \in Client
    <3>1. program # "greeting" /\ thread[t].pc = "line"
      BY <1>0, <1>1 DEF ThreadLine, Phases
    <3>2. FdIn(t) = thread[t].rd /\ FdIn(t) # NoFd /\ FdIn(t) \in Fd
          /\ fds[FdIn(t)] = accepted[t]
      BY <3>1 DEF IInv, Owners, FdIn
    <3>3. t \in 1..Len(accepted) /\ accepted \in Seq(Client)
      BY <1>0, <3>1, ThreadFacts DEF IInv, Made, Working, Types, Thread
    <3> QED
      BY <3>2, <3>3 DEF Talks
  <2>4. CASE led' = "high"
    BY <2>2, <2>4
  <2>5. CASE WillLight(t)'
    BY <2>1, <2>2, <2>3, <2>5 DEF WillLight, Reason
  <2> QED
    BY <2>4, <2>5
<1>2. CASE ThreadHeaders(t) \/ ThreadLed(t) \/ ThreadLedLow(t) \/ ThreadReply(t)
  <2>1. UNCHANGED thread \/ \E label \in {"led", "ledlow", "reply", "close"} : Goto(t, label)
    BY <1>2 DEF ThreadHeaders, ThreadLed, ThreadLedLow, ThreadReply
  <2>2. {"led", "ledlow", "reply", "close"} \subseteq Label
    BY DEF Label
  <2>3. thread'[t].req = thread[t].req
    BY <1>0, <2>1, <2>2, GotoEffect
  <2>4. thread[t].pc \in {"headers", "led", "ledlow", "reply"}
    BY <1>2 DEF ThreadHeaders, ThreadLed, ThreadLedLow, ThreadReply
  <2>5. CASE WillLight(t)'
    BY <2>3, <2>4, <2>5 DEF WillLight
  <2>6. CASE led' = "high" /\ led # "high"
    <3>1. ThreadLed(t) /\ led' = Level(thread[t].req)
      BY <1>2, <2>6 DEF ThreadHeaders, ThreadLed, ThreadLedLow, ThreadReply
    <3> QED
      BY <2>6, <3>1 DEF ThreadLed, LedInv, Level, WillLight
  <2> QED
    BY <2>5, <2>6
<1>3. CASE \/ ThreadStart(t) \/ GreetFree(t) \/ GreetSend(t) \/ ThreadDup(t)
           \/ ThreadClose(t) \/ ThreadCloseWrite(t)
  <2>1. led' = led
    BY <1>3 DEF ThreadStart, GreetFree, GreetSend, ThreadDup, ThreadClose, ThreadCloseWrite
  <2>2. thread'[t].pc \notin {"headers", "led", "ledlow", "reply"}
    <3>1. CASE ThreadStart(t)
      BY <1>0, <3>1 DEF ThreadStart, ThreadRecord
    <3>2. CASE GreetFree(t) \/ GreetSend(t)
      BY <1>0, <3>2 DEF GreetFree, GreetSend, Goto, ThreadRecord
    <3>3. CASE ThreadDup(t)
      BY <1>0, <3>3 DEF ThreadDup, Goto, ThreadRecord
    <3>4. CASE ThreadClose(t) \/ ThreadCloseWrite(t)
      <4>1. CASE Ends(t)
        BY <1>0, <4>1, EndsEffect
      <4>2. CASE Goto(t, "closewrite")
        BY <1>0, <4>2 DEF Goto, ThreadRecord
      <4> QED
        BY <3>4, <4>1, <4>2 DEF ThreadClose, ThreadCloseWrite
    <3> QED
      BY <1>3, <3>1, <3>2, <3>3, <3>4
  <2> QED
    BY <2>1, <2>2 DEF WillLight
<1>4. CASE ThreadFills(t)
  BY <1>4 DEF ThreadFills, WillLight
<1> QED
  BY <1>1, <1>2, <1>3, <1>4 DEF ThreadStep

\* What a thread that is about to switch the LED was asked for.
LEMMA ThreadSwitches ==
  ASSUME IInv, LedInv, NEW t \in Thread, ThreadStep(t), thread'[t].pc = "led"
  PROVE  thread'[t].req \in {"on", "off", "blink"}
<1>0. Types /\ thread \in [Thread -> ThreadRecord]
  BY DEF IInv, Types
<1>1. CASE ThreadLine(t)
  <2>1. PICK req \in Known(program) :
          thread' = [thread EXCEPT ![t].req = req, ![t].pc = AfterLine(req)]
    BY <1>1 DEF ThreadLine
  <2>2. thread'[t].req = req /\ thread'[t].pc = AfterLine(req)
    BY <1>0, <2>1 DEF ThreadRecord
  <2>3. program = "webLED" /\ req \notin {"page", "post"}
    BY <2>2 DEF AfterLine
  <2> QED
    BY <2>2, <2>3 DEF Known, Request
<1>2. CASE ThreadHeaders(t)
  <2>1. PICK label \in {"led", "reply"} :
          Goto(t, label) /\ (label = "led" => thread[t].req \in {"on", "off"})
    BY <1>2 DEF ThreadHeaders
  <2>2. label \in Label
    BY DEF Label
  <2> QED
    BY <1>0, <2>1, <2>2, GotoEffect
<1>3. CASE ~ThreadLine(t) /\ ~ThreadHeaders(t)
  <2>1. \/ ThreadStart(t) \/ GreetFree(t) \/ GreetSend(t) \/ ThreadDup(t) \/ ThreadLed(t)
        \/ ThreadLedLow(t) \/ ThreadReply(t) \/ ThreadClose(t) \/ ThreadCloseWrite(t)
        \/ ThreadFills(t)
    BY <1>3 DEF ThreadStep
  <2>2. CASE ThreadStart(t)
    BY <1>0, <2>2 DEF ThreadStart, ThreadRecord
  <2>3. CASE ThreadDup(t)
    BY <1>0, <2>3 DEF ThreadDup, Goto, ThreadRecord
  <2>4. CASE Ends(t)
    BY <1>0, <2>4, EndsEffect
  <2>5. CASE \E label \in {"greet", "close", "ledlow", "reply", "closewrite"} : Goto(t, label)
    BY <1>0, <2>5 DEF Goto, ThreadRecord
  <2>6. CASE UNCHANGED thread
    BY <2>6 DEF LedInv
  <2> QED
    BY <2>1, <2>2, <2>3, <2>4, <2>5, <2>6 DEF GreetFree, GreetSend, ThreadLed, ThreadLedLow,
       ThreadReply, ThreadClose, ThreadCloseWrite, ThreadFills
<1> QED
  BY <1>1, <1>2, <1>3

LEMMA LedNext == IInv /\ LedInv /\ [Next]_vars => LedInv'
<1> SUFFICES ASSUME IInv, LedInv, [Next]_vars PROVE LedInv'
  OBVIOUS
<1>0. Types /\ thread \in [Thread -> ThreadRecord]
  BY DEF IInv, Types
<1>1. ASSUME NEW c \in Client, Reason(c) PROVE \E d \in Client : Reason(d)'
  BY <1>1, ReasonStays
<1>2. ASSUME NEW t \in Thread, ThreadStep(t) PROVE LedInv'
  <2>1. \A u \in Thread \ {t} : thread'[u] = thread[u]
    BY <1>2, ThreadLabels
  <2>2. ASSUME led' = "high" \/ \E u \in Thread : WillLight(u)'
        PROVE  led = "high" \/ (\E u \in Thread : WillLight(u)) \/ \E c \in Client : Reason(c)
    <3>1. CASE led' = "high" \/ WillLight(t)'
      BY <1>2, <3>1, ThreadLights
    <3>2. CASE \E u \in Thread \ {t} : WillLight(u)'
      BY <2>1, <3>2 DEF WillLight
    <3> QED
      BY <2>2, <3>1, <3>2
  <2>3. led' = "high" \/ (\E u \in Thread : WillLight(u)') => \E d \in Client : Reason(d)'
    BY <1>1, <2>2 DEF LedInv
  <2>4. \A u \in Thread : thread'[u].pc = "led" => thread'[u].req \in {"on", "off", "blink"}
    BY <1>2, <2>1, ThreadSwitches DEF LedInv
  <2> QED
    BY <2>3, <2>4 DEF LedInv
<1>3. ASSUME led' = led,
             \A t \in Thread : thread'[t] = thread[t] \/ thread'[t].pc \in {"start", "failed"}
      PROVE  LedInv'
  <2>1. \A t \in Thread : WillLight(t)' => WillLight(t)
    BY <1>3 DEF WillLight
  <2>2. led' = "high" \/ (\E u \in Thread : WillLight(u)') => \E d \in Client : Reason(d)'
    BY <1>1, <1>3, <2>1 DEF LedInv
  <2>3. \A u \in Thread : thread'[u].pc = "led" => thread'[u].req \in {"on", "off", "blink"}
    BY <1>3 DEF LedInv
  <2> QED
    BY <2>2, <2>3 DEF LedInv
<1>4. CASE Create \/ CreateFails
  <2>1. led' = led
    BY <1>4 DEF Create, CreateFails
  <2>2. \A t \in Thread : thread'[t] = thread[t] \/ thread'[t].pc \in {"start", "failed"}
    BY <1>0, <1>4 DEF Create, CreateFails, NoThread
  <2> QED
    BY <1>3, <2>1, <2>2
<1>5. CASE UNCHANGED <<led, thread>>
  BY <1>3, <1>5
<1> QED
  BY <1>2, <1>4, <1>5 DEF Next, vars, MainStep, Connect, SendPart, Read, Close, Accept,
     AcceptFails, NoSocket, Join, Quit

\* The LED is on only if a client has asked for it, or has gone without a request, whose
\* thread then took what its stack held for one.
THEOREM LightForReason == Spec => []LedAsked
<1>1. Init => LedInv
  <2> SUFFICES ASSUME Init PROVE LedInv
    OBVIOUS
  <2>1. led = "low" /\ \A t \in Thread : thread[t].pc = "none"
    BY DEF Init, NoThread
  <2> QED
    BY <2>1 DEF LedInv, WillLight
<1>2. LedInv => LedAsked
  BY DEF LedInv, LedAsked, Reason
<1> QED
  BY <1>1, <1>2, Invariance, LedNext, PTL DEF Spec

------------------------------------------------------------------------------
(* The specification of the run, in which one of the four servers or the menu of GpioMenu *)
(* runs: a step of one leaves the variables of the others alone.                          *)

GpioProofs == INSTANCE GpioMenuProofs WITH asked <- askedG, led <- ledG

\* A behaviour of the run is one of the servers.
LEMMA RunsServers == ThreadsSpec => Spec
<1>1. ThreadsInit => Init
  BY DEF ThreadsInit
<1>2. [ThreadsNext]_<<family, vars, gpioV>> => [Next]_vars
  BY DEF ThreadsNext
<1> QED
  BY <1>1, <1>2, PTL DEF ThreadsSpec, Spec

\* The menu the run checks and the one the proofs are about are the same.
LEMMA SameMenu == Gpio!Next = GpioProofs!Next
<1>1. /\ \A t : Gpio!NextToken(t) = GpioProofs!NextToken(t)
      /\ \A w : Gpio!ScanWord(w) = GpioProofs!ScanWord(w)
      /\ Gpio!CreateFails = GpioProofs!CreateFails
  BY
     DEF Gpio!NextToken, GpioProofs!NextToken, Gpio!ScanWord, GpioProofs!ScanWord,
         Gpio!CreateFails, GpioProofs!CreateFails, Gpio!Token, GpioProofs!Token, Gpio!Menu,
         GpioProofs!Menu, Gpio!Word, GpioProofs!Word, Gpio!EndOfInput,
         GpioProofs!EndOfInput, Gpio!Nothing, GpioProofs!Nothing, Gpio!threadVars,
         GpioProofs!threadVars
<1>2. Gpio!ScanMenu = GpioProofs!ScanMenu /\ Gpio!CopyPrefix = GpioProofs!CopyPrefix
  BY <1>1
     DEF Gpio!ScanMenu, GpioProofs!ScanMenu, Gpio!CopyPrefix, GpioProofs!CopyPrefix,
         Gpio!Token, GpioProofs!Token, Gpio!Menu, GpioProofs!Menu, Gpio!Word,
         GpioProofs!Word, Gpio!EndOfInput, GpioProofs!EndOfInput, Gpio!Nothing,
         GpioProofs!Nothing, Gpio!threadVars, GpioProofs!threadVars
<1>3. Gpio!MainGoesOn = GpioProofs!MainGoesOn
  BY
     DEF Gpio!MainGoesOn, GpioProofs!MainGoesOn, Gpio!Dispatch, GpioProofs!Dispatch,
         Gpio!ClearBuf, GpioProofs!ClearBuf, Gpio!Join, GpioProofs!Join, Gpio!Nothing,
         GpioProofs!Nothing, Gpio!threadVars, GpioProofs!threadVars, Gpio!libVars,
         GpioProofs!libVars
<1>4. Gpio!LedWord = GpioProofs!LedWord
  BY <1>1
     DEF Gpio!LedWord, GpioProofs!LedWord, Gpio!AfterCreate, GpioProofs!AfterCreate,
         Gpio!Content, GpioProofs!Content, Gpio!Word, GpioProofs!Word, Gpio!Nothing,
         GpioProofs!Nothing, Gpio!threadVars, GpioProofs!threadVars
<1>5. Gpio!CdsWord = GpioProofs!CdsWord
  BY <1>1
     DEF Gpio!CdsWord, GpioProofs!CdsWord, Gpio!CancelCds, GpioProofs!CancelCds,
         Gpio!NewCds, GpioProofs!NewCds, Gpio!Cds, GpioProofs!Cds, Gpio!Content,
         GpioProofs!Content, Gpio!Word, GpioProofs!Word, Gpio!Nothing, GpioProofs!Nothing,
         Gpio!threadVars, GpioProofs!threadVars
<1>6. Gpio!MainStep = GpioProofs!MainStep
  BY <1>2, <1>3, <1>4, <1>5
     DEF Gpio!MainStep, GpioProofs!MainStep, Gpio!libVars, GpioProofs!libVars
<1>7. Gpio!LedStep = GpioProofs!LedStep
  BY
     DEF Gpio!LedStep, GpioProofs!LedStep, Gpio!LedOpen, GpioProofs!LedOpen, Gpio!LedAct,
         GpioProofs!LedAct, Gpio!LedBlink, GpioProofs!LedBlink, Gpio!LedClose,
         GpioProofs!LedClose, Gpio!mainVars, GpioProofs!mainVars
<1>8. \A k : Gpio!CdsStep(k) = GpioProofs!CdsStep(k)
  BY
     DEF Gpio!CdsStep, GpioProofs!CdsStep, Gpio!CdsOpen, GpioProofs!CdsOpen, Gpio!CdsRead,
         GpioProofs!CdsRead, Gpio!CdsSense, GpioProofs!CdsSense, Gpio!CdsWake,
         GpioProofs!CdsWake, Gpio!CdsDark, GpioProofs!CdsDark, Gpio!CdsClose,
         GpioProofs!CdsClose, Gpio!CdsCancelled, GpioProofs!CdsCancelled, Gpio!Goto,
         GpioProofs!Goto, Gpio!Woken, GpioProofs!Woken, Gpio!Wanted, GpioProofs!Wanted,
         Gpio!mainVars, GpioProofs!mainVars
<1> QED
  BY <1>6, <1>7, <1>8
     DEF Gpio!Next, GpioProofs!Next, Gpio!Running, GpioProofs!Running, Gpio!Cds,
         GpioProofs!Cds

\* A behaviour of the run is one of the menu.
LEMMA RunsMenu == ThreadsSpec => GpioProofs!Spec
<1>1. ThreadsInit => GpioProofs!Init
  BY DEF ThreadsInit, Gpio!Init, GpioProofs!Init, Gpio!Menu, GpioProofs!Menu, Gpio!Nothing,
         GpioProofs!Nothing, Gpio!NoTid, GpioProofs!NoTid, Gpio!Cds, GpioProofs!Cds
<1>2. [ThreadsNext]_<<family, vars, gpioV>> => [GpioProofs!Next]_GpioProofs!vars
  BY SameMenu DEF ThreadsNext, gpioV, GpioProofs!vars, GpioProofs!mainVars,
                  GpioProofs!threadVars, GpioProofs!libVars
<1> QED
  BY <1>1, <1>2, PTL DEF ThreadsSpec, GpioProofs!Spec

LEMMA Bounds == GpioProofs!BoundsAssumption
  BY GpioAssumption DEF Gpio!BoundsAssumption, GpioProofs!BoundsAssumption

\* The variables of the servers and of the menu stay in their ranges.
THEOREM ThreadsTypeCorrect == ThreadsSpec => []ThreadsTypeOK
<1>1. GpioProofs!Spec => []GpioProofs!TypeOK
  BY Bounds, GpioProofs!TypeCorrect
<1>2. GpioProofs!TypeOK => Gpio!TypeOK
  <2>1. Gpio!CdsHolds = GpioProofs!CdsHolds
    BY DEF Gpio!CdsHolds, GpioProofs!CdsHolds, Gpio!Cds, GpioProofs!Cds
  <2>2. Gpio!Cardinality(Gpio!CdsHolds) = GpioProofs!Cardinality(GpioProofs!CdsHolds)
    BY <2>1 DEF Gpio!Cardinality, GpioProofs!Cardinality, Gpio!IsFiniteSet,
                GpioProofs!IsFiniteSet
  <2> QED
    BY <2>2
       DEF Gpio!TypeOK, GpioProofs!TypeOK, Gpio!LedHolds, GpioProofs!LedHolds, Gpio!Token,
           GpioProofs!Token, Gpio!Menu, GpioProofs!Menu, Gpio!Word, GpioProofs!Word,
           Gpio!EndOfInput, GpioProofs!EndOfInput, Gpio!Nothing, GpioProofs!Nothing,
           Gpio!Content, GpioProofs!Content, Gpio!Cds, GpioProofs!Cds, Gpio!NoTid,
           GpioProofs!NoTid
<1>3. TypeOK /\ Gpio!TypeOK => ThreadsTypeOK
  BY DEF ThreadsTypeOK
<1> QED
  BY <1>1, <1>2, <1>3, RunsServers, RunsMenu, TypeCorrect, PTL

\* In the servers and in the menu, the LED is on only for a reason: a client, a command or a
\* word that begins with "ON".
THEOREM LedHasReason == ThreadsSpec => []LedReason
<1>1. GpioProofs!Spec => []GpioProofs!LedExplained
  BY Bounds, GpioProofs!LedForReason
<1>2. GpioProofs!LedExplained => Gpio!LedExplained
  BY DEF Gpio!LedExplained, GpioProofs!LedExplained, Gpio!Cds, GpioProofs!Cds
<1>3. LedAsked /\ Gpio!LedExplained => LedReason
  BY DEF LedReason
<1> QED
  BY <1>1, <1>2, <1>3, RunsServers, RunsMenu, LightForReason, PTL
==============================================================================
