---------------------------- MODULE ShellProofs ----------------------------
(***************************************************************************)
(* Proofs about both shells and the families of parents and children, for  *)
(* any lines and sizes: the first shell closes every descriptor it opens   *)
(* but those the early return of execute() forgets; the prompt of either   *)
(* comes back only when the foreground is done; a child outlives its       *)
(* parent only where the program does not wait, or a signal ended it.      *)
(***************************************************************************)
EXTENDS MCShells, SequenceTheorems, WellFoundedInduction, TLAPS

LocFields == {"cmd", "curr", "op", "end", "fd_in", "fd_out", "pipe_rd", "pids", "pid", "idx",
              "status", "last_status", "background"}
ProcFields == {"state", "prog", "in", "out", "fds", "left", "code"}

\* Shapes of the variables.  What the words of a line are does not matter here.
Shapes ==
  /\ pc \in {"prompt", "chain", "execute", "restore", "andwait", "wait", "exited"}
  /\ DOMAIN loc = LocFields
  /\ loc.pids \in Seq(Proc) /\ loc.idx \in Nat \ {0}
  /\ data \in Seq(Int)
  /\ DOMAIN procs = Proc
  /\ \A p \in Proc : /\ DOMAIN procs[p] = ProcFields
                     /\ procs[p].state \in {"none", "running", "zombie", "reaped"}

------------------------------------------------------------------------------
(* Descriptors. *)

\* What the shell holds besides what it has leaked: between a pipe and the fork, the
\* read end of the pipe as well.
Starting == pc \in {"execute", "restore"} /\ loc.op = "|"
HeldNow == Held \cup IF Starting THEN {loc.pipe_rd} ELSE {}

Accounted ==
  /\ shellFds = leaked \cup HeldNow
  /\ leaked \cap HeldNow = {}
  /\ NoFd \notin shellFds /\ shellFds \subseteq Descriptors
  /\ loc.fd_in # NoFd => loc.fd_in # loc.fd_out
  /\ Starting => loc.pipe_rd \notin Held
  /\ pc = "prompt" => Held = {}

------------------------------------------------------------------------------
(* Children. *)

\* Every child that runs is in the background or known to the line; those the waiting
\* loops have passed are dead.
Known ==
  /\ \A p \in Proc :
       procs[p].state = "running" =>
         \/ p \in detached \cup Range(loc.pids)
         \/ pc = "restore" /\ p = loc.pid
  /\ pc \in {"prompt", "exited"} => loc.pids = <<>>
  /\ pc = "restore" => loc.pid \in Proc
  /\ pc \in {"wait", "andwait"} =>
       \A i \in 1..Len(loc.pids) : i < loc.idx => Terminated(loc.pids[i])

IInv == Shapes /\ Accounted /\ Known

------------------------------------------------------------------------------
(* Lemmas. *)

\* What pipe() and open() return is new.
LEMMA NewDescriptors ==
  ASSUME Shapes, data' = Append(data, 0)
  PROVE  /\ data' \in Seq(Int)
         /\ Descriptors' = Descriptors \cup Fds(NewObject)
         /\ Descriptors \cap Fds(NewObject) = {}
         /\ NoFd \notin Fds(NewObject) /\ NoFd \notin Descriptors
<1>1. data \in Seq(Int) /\ Len(data) \in Nat /\ DOMAIN data = 1..Len(data)
  BY DEF Shapes
<1>2. /\ data' \in Seq(Int) /\ Len(data') = Len(data) + 1
      /\ DOMAIN data' = 1..Len(data')
  BY <1>1, AppendProperties
<1>3. DOMAIN data' = DOMAIN data \cup {NewObject} /\ NewObject \notin DOMAIN data
  BY <1>1, <1>2 DEF NewObject
<1>4. Descriptors' = Descriptors \cup Fds(NewObject)
  BY <1>3 DEF Descriptors, Fds
<1>5. Descriptors \cap Fds(NewObject) = {}
  BY <1>3 DEF Descriptors, Fds
<1>6. NoFd \notin Fds(NewObject) /\ NoFd \notin Descriptors
  BY DEF Descriptors, Fds, NoFd
<1> QED
  BY <1>2, <1>4, <1>5, <1>6

\* Steps of children and of the handler change nothing of the shell, and no child comes
\* back to life.
LEMMA ChildrenLeaveShell ==
  ASSUME IInv, UNCHANGED <<pc, loc, shellFds, leaked, detached>>,
         data' \in Seq(Int), DOMAIN data' = DOMAIN data,
         DOMAIN procs' = Proc,
         \A p \in Proc :
           /\ DOMAIN procs'[p] = ProcFields
           /\ \/ procs'[p].state = procs[p].state
              \/ /\ procs[p].state \in {"running", "zombie"}
                 /\ procs'[p].state \in {"zombie", "reaped"}
  PROVE  IInv'
<1>1. Shapes /\ Accounted /\ Known
  BY DEF IInv
<1>2. Shapes'
  BY <1>1 DEF Shapes
<1>3. Descriptors' = Descriptors
  BY DEF Descriptors
<1>4. Accounted'
  BY <1>1, <1>3 DEF Accounted, HeldNow, Starting, Held
<1>5. \A p \in Proc : Terminated(p) => Terminated(p)'
  BY DEF Terminated
<1>6. \A i \in 1..Len(loc.pids) : loc.pids[i] \in Proc
  BY <1>1 DEF Shapes
<1>7. Known'
  BY <1>1, <1>5, <1>6 DEF Known
<1> QED
  BY <1>2, <1>4, <1>7 DEF IInv

LEMMA ChildStepInv == ASSUME IInv, NEW p \in Proc, ChildStep(p) PROVE IInv'
<1>1. UNCHANGED <<pc, loc, shellFds, leaked, detached>> /\ procs[p].state = "running"
  BY DEF ChildStep, historyVars
<1>2. Shapes
  BY DEF IInv
<1>3. ASSUME NEW status, ExitsWith(p, status)
      PROVE  /\ DOMAIN procs' = Proc
             /\ \A q \in Proc : DOMAIN procs'[q] = ProcFields
             /\ \A q \in Proc : \/ procs'[q].state = procs[q].state
                                \/ q = p /\ procs'[q].state = "zombie"
  BY <1>2, <1>3 DEF ExitsWith, Dead, Shapes, ProcFields
<1>4. CASE SimpleExit(p) \/ SinkEnds(p) \/ FloodEnds(p)
  <2>1. UNCHANGED data /\ \E status : ExitsWith(p, status)
    BY <1>4 DEF SimpleExit, SinkEnds, FloodEnds
  <2> QED
    BY <1>1, <1>2, <1>3, <2>1, ChildrenLeaveShell DEF Shapes
<1>5. ASSUME NEW k, NEW d \in {1, -1}, data' = [data EXCEPT ![k] = @ + d]
      PROVE  data' \in Seq(Int) /\ DOMAIN data' = DOMAIN data
  <2>1. data \in [1..Len(data) -> Int] /\ Len(data) \in Nat
    BY <1>2 DEF Shapes
  <2>2. DOMAIN data' = 1..Len(data) /\ data' = [i \in 1..Len(data) |-> data'[i]]
    BY <1>5, <2>1
  <2>3. ASSUME NEW i \in 1..Len(data) PROVE data'[i] \in Int
    <3>1. data[i] \in Int /\ data[i] + d \in Int
      BY <2>1
    <3>2. data'[i] = data[i] + d \/ data'[i] = data[i]
      BY <1>5, <2>1
    <3> QED
      BY <3>1, <3>2
  <2>4. data' \in [1..Len(data) -> Int]
    BY <2>2, <2>3
  <2> QED
    BY <2>1, <2>4, SeqDef
<1>6. CASE SinkReads(p)
  <2>1. UNCHANGED procs /\ \E k : data' = [data EXCEPT ![k] = @ - 1]
    BY <1>6 DEF SinkReads
  <2>2. \E k : data' = [data EXCEPT ![k] = @ + (-1)]
    BY <2>1
  <2> QED
    BY <1>1, <1>2, <1>5, <2>1, <2>2, ChildrenLeaveShell DEF Shapes
<1>7. CASE FloodWrites(p)
  <2>1. CASE UNCHANGED data /\ ExitsWith(p, Killed)
    BY <1>1, <1>2, <1>3, <2>1, ChildrenLeaveShell DEF Shapes
  <2>2. CASE /\ data' = [data EXCEPT ![procs[p].out[2]] = @ + 1]
             /\ procs' = [procs EXCEPT ![p].left = @ - 1]
    <3>1. /\ DOMAIN procs' = Proc
          /\ \A q \in Proc : DOMAIN procs'[q] = ProcFields /\ procs'[q].state = procs[q].state
      BY <1>2, <2>2 DEF Shapes, ProcFields
    <3>2. data' \in Seq(Int) /\ DOMAIN data' = DOMAIN data
      BY <1>5, <2>2
    <3> QED
      BY <1>1, <3>1, <3>2, ChildrenLeaveShell
  <2> QED
    BY <1>7, <2>1, <2>2 DEF FloodWrites
<1> QED
  BY <1>4, <1>6, <1>7 DEF ChildStep

LEMMA ChildHandlerInv == IInv /\ ChildHandler => IInv'
<1> SUFFICES ASSUME IInv, ChildHandler PROVE IInv'
  OBVIOUS
<1>1. UNCHANGED <<pc, loc, shellFds, leaked, detached, data>>
  BY DEF ChildHandler, historyVars
<1>2. Shapes
  BY DEF IInv
<1>3. /\ DOMAIN procs' = Proc
      /\ \A q \in Proc : /\ DOMAIN procs'[q] = ProcFields
                         /\ \/ procs'[q].state = procs[q].state
                            \/ procs[q].state = "zombie" /\ procs'[q].state = "reaped"
  BY <1>2 DEF ChildHandler, HandlerReaps, Zombies, Shapes, ProcFields
<1> QED
  BY <1>1, <1>2, <1>3, ChildrenLeaveShell DEF Shapes

\* Ctrl+C does nothing to the children, which ignore it as the shell does.
LEMMA CtrlCInv == IInv /\ CtrlC => IInv'
<1> SUFFICES ASSUME IInv, CtrlC PROVE IInv'
  OBVIOUS
<1>1. UNCHANGED <<pc, loc, shellFds, leaked, detached, data, procs>>
  BY DEF CtrlC, ShellSigint
<1> QED
  BY <1>1, ChildrenLeaveShell DEF IInv, Shapes

LEMMA InitInv == Init => IInv
<1> SUFFICES ASSUME Init PROVE IInv
  OBVIOUS
<1>1. Shapes
  <2>1. pc = "prompt" /\ loc = Locals /\ data = <<>> /\ procs = [p \in Proc |-> NoProc]
    BY DEF Init
  <2>2. DOMAIN Locals = LocFields
    BY DEF Locals, LocFields
  <2>3. Locals.pids = <<>> /\ Locals.idx = 1
    BY DEF Locals
  <2>4. DOMAIN NoProc = ProcFields /\ NoProc.state = "none"
    BY DEF NoProc, ProcFields
  <2>5. <<>> \in Seq(Proc) /\ <<>> \in Seq(Int)
    OBVIOUS
  <2>6. DOMAIN procs = Proc /\ \A p \in Proc : procs[p] = NoProc
    BY <2>1
  <2> QED
    BY <2>1, <2>2, <2>3, <2>4, <2>5, <2>6 DEF Shapes
<1>2. Accounted
  BY DEF Init, Locals, Accounted, HeldNow, Starting, Held
<1>3. Known
  BY DEF Init, Locals, NoProc, Known
<1> QED
  BY <1>1, <1>2, <1>3 DEF IInv

LEMMA ReadLineInv == ASSUME IInv, NEW l, ReadLine(l) PROVE IInv'
<1>1. /\ pc = "prompt" /\ pc' \in {"prompt", "chain", "exited"}
      /\ UNCHANGED <<loc, shellFds, procs, data, leaked, detached>>
  BY DEF ReadLine, historyVars
<1>2. Shapes /\ Accounted /\ Known
  BY DEF IInv
<1>3. Shapes'
  BY <1>1, <1>2 DEF Shapes
<1>4. Descriptors' = Descriptors /\ ~Starting /\ ~Starting'
  BY <1>1 DEF Descriptors, Starting
<1>5. Accounted'
  BY <1>1, <1>2, <1>4 DEF Accounted, HeldNow, Held
<1>6. Known'
  BY <1>1, <1>2 DEF Known, Terminated
<1> QED
  BY <1>3, <1>5, <1>6 DEF IInv

------------------------------------------------------------------------------
(* Scanning: children are left alone, and the waiting loops begin at the first child.  *)

\* A step that leaves the children and the list of them alone keeps Known.
LEMMA SameChildren ==
  ASSUME Known, UNCHANGED <<procs, detached>>, loc'.pids = loc.pids,
         pc \in {"chain", "execute"}, pc' \in {"chain", "execute", "wait"},
         pc' = "wait" => loc'.idx = 1
  PROVE  Known'
<1>1. \A p \in Proc :
        procs'[p].state = "running" => p \in detached' \cup Range(loc'.pids)
  BY DEF Known
<1>2. \A i \in 1..Len(loc.pids) : ~ i < 1
  OBVIOUS
<1> QED
  BY <1>1, <1>2 DEF Known

LEMMA ScanCommandInv == IInv /\ ScanCommand => IInv'
<1> SUFFICES ASSUME IInv, ScanCommand PROVE IInv'
  OBVIOUS
<1>1. /\ pc = "chain" /\ pc' = "execute"
      /\ UNCHANGED <<shellFds, procs, data, leaked, detached>>
  BY DEF ScanCommand, historyVars
<1>2. Shapes /\ Accounted /\ Known
  BY DEF IInv
<1>3. /\ DOMAIN loc' = LocFields /\ loc'.op # "|"
      /\ loc'.pids = loc.pids /\ loc'.idx = loc.idx
      /\ loc'.fd_in = loc.fd_in /\ loc'.fd_out = loc.fd_out
  <2>1. DOMAIN loc = LocFields
    BY <1>2 DEF Shapes
  <2>2. PICK o, e, b :
          o # "|" /\ loc' = [loc EXCEPT !.op = o, !.end = e, !.background = b]
    BY DEF ScanCommand
  <2> QED
    BY <2>1, <2>2 DEF LocFields
<1>4. Shapes'
  BY <1>1, <1>2, <1>3 DEF Shapes
<1>5. Descriptors' = Descriptors /\ ~Starting /\ ~Starting'
  BY <1>1, <1>3 DEF Descriptors, Starting
<1>6. Accounted'
  BY <1>1, <1>2, <1>3, <1>5 DEF Accounted, HeldNow, Held
<1>7. Known'
  BY <1>1, <1>2, <1>3, SameChildren
<1> QED
  BY <1>4, <1>6, <1>7 DEF IInv

\* goto error_exit: nothing but the position in the waiting loop changes.
LEMMA GotoErrorExitInv ==
  ASSUME IInv, pc = "chain", GotoErrorExit,
         UNCHANGED <<shellFds, procs, data, leaked, detached>>
  PROVE  IInv'
<1>1. Shapes /\ Accounted /\ Known
  BY DEF IInv
<1>2. /\ pc' = "wait" /\ DOMAIN loc' = LocFields
      /\ loc'.pids = loc.pids /\ loc'.idx = 1
      /\ loc'.fd_in = loc.fd_in /\ loc'.fd_out = loc.fd_out
  BY <1>1 DEF GotoErrorExit, Shapes, LocFields
<1>3. Shapes'
  BY <1>1, <1>2 DEF Shapes
<1>4. Descriptors' = Descriptors /\ ~Starting /\ ~Starting'
  BY <1>2 DEF Descriptors, Starting
<1>5. Accounted'
  BY <1>1, <1>2, <1>4 DEF Accounted, HeldNow, Held
<1>6. Known'
  BY <1>1, <1>2, SameChildren
<1> QED
  BY <1>3, <1>5, <1>6 DEF IInv

LEMMA ScanPipeInv == IInv /\ ScanPipe => IInv'
<1> SUFFICES ASSUME IInv, ScanPipe PROVE IInv'
  OBVIOUS
<1>1. pc = "chain" /\ UNCHANGED <<procs, leaked, detached>>
  BY DEF ScanPipe, historyVars
<1>2. Shapes /\ Accounted /\ Known
  BY DEF IInv
<1>3. CASE GotoErrorExit /\ UNCHANGED <<shellFds, data>>
  BY <1>1, <1>3, GotoErrorExitInv
<1> DEFINE rd == <<"r", NewObject>>
           wr == <<"w", NewObject>>
<1>4. CASE /\ data' = Append(data, 0)
           /\ shellFds' = shellFds \cup IF loc.fd_out = NoFd THEN {rd, wr} ELSE {rd}
           /\ loc' = [loc EXCEPT !.op = "|", !.end = EndOf(loc.curr), !.pipe_rd = rd,
                                 !.fd_out = IF @ = NoFd THEN wr ELSE @]
           /\ pc' = "execute"
  <2>1. /\ DOMAIN loc' = LocFields /\ loc'.op = "|" /\ loc'.pipe_rd = rd
        /\ loc'.pids = loc.pids /\ loc'.idx = loc.idx
        /\ loc'.fd_in = loc.fd_in
        /\ loc'.fd_out = IF loc.fd_out = NoFd THEN wr ELSE loc.fd_out
    BY <1>2, <1>4 DEF Shapes, LocFields
  <2>2. /\ data' \in Seq(Int)
        /\ Descriptors' = Descriptors \cup Fds(NewObject)
        /\ Descriptors \cap Fds(NewObject) = {}
        /\ NoFd \notin Fds(NewObject) /\ NoFd \notin Descriptors
    BY <1>2, <1>4, NewDescriptors
  <2>3. rd \in Fds(NewObject) /\ wr \in Fds(NewObject) /\ rd # wr
    BY DEF Fds
  <2>4. Shapes'
    BY <1>1, <1>2, <1>4, <2>1, <2>2 DEF Shapes
  <2>5. ~Starting /\ Starting'
    BY <1>1, <1>4, <2>1 DEF Starting
  <2>6. /\ shellFds = leaked \cup Held /\ leaked \cap Held = {}
        /\ shellFds \subseteq Descriptors
        /\ loc.fd_in # NoFd => loc.fd_in # loc.fd_out
    BY <1>2, <2>5 DEF Accounted, HeldNow
  <2>7. Held' = IF loc.fd_out = NoFd THEN Held \cup {wr} ELSE Held
    BY <2>1, <2>2, <2>3 DEF Held
  <2>8. HeldNow' = Held' \cup {rd}
    BY <2>1, <2>5 DEF HeldNow
  <2>9. Held \subseteq Descriptors /\ leaked \subseteq Descriptors
    BY <2>6
  <2>10. shellFds' = leaked' \cup HeldNow'
    BY <1>1, <1>4, <2>6, <2>7, <2>8
  <2>11. leaked' \cap HeldNow' = {}
    BY <1>1, <2>2, <2>3, <2>6, <2>7, <2>8, <2>9
  <2>12. NoFd \notin shellFds' /\ shellFds' \subseteq Descriptors'
    BY <2>2, <2>3, <2>6, <1>4
  <2>13. loc'.fd_in # NoFd => loc'.fd_in # loc'.fd_out
    <3>1. loc.fd_in # NoFd => loc.fd_in \in Held
      BY DEF Held
    <3>2. loc.fd_in # NoFd => loc.fd_in # wr
      BY <3>1, <2>9, <2>2, <2>3
    <3> QED
      BY <3>2, <2>1, <2>6
  <2>14. loc'.pipe_rd \notin Held'
    BY <2>1, <2>2, <2>3, <2>7, <2>9
  <2>15. Accounted'
    BY <1>4, <2>10, <2>11, <2>12, <2>13, <2>14 DEF Accounted
  <2>16. Known'
    BY <1>1, <1>2, <1>4, <2>1, SameChildren
  <2> QED
    BY <2>4, <2>15, <2>16 DEF IInv
<1> QED
  BY <1>3, <1>4 DEF ScanPipe

\* A name for what a redirection leaves in the locals.
LEMMA RedirectInv ==
  ASSUME IInv, NEW field \in {"fd_in", "fd_out"}, NEW e, Redirect(field, e), pc = "chain",
         UNCHANGED <<procs, leaked, detached>>
  PROVE  IInv'
<1>1. Shapes /\ Accounted /\ Known
  BY DEF IInv
<1>2. CASE GotoErrorExit /\ UNCHANGED <<shellFds, data>>
  BY <1>2, GotoErrorExitInv
<1> DEFINE other == IF field = "fd_in" THEN "fd_out" ELSE "fd_in"
<1>3. /\ Held = {loc[field], loc[other]} \ {NoFd}
      /\ loc[field] # NoFd => loc[field] # loc[other]
  BY <1>1 DEF Held, Accounted
<1>4. /\ ~Starting /\ shellFds = leaked \cup Held /\ leaked \cap Held = {}
      /\ shellFds \subseteq Descriptors /\ NoFd \notin shellFds
  BY <1>1 DEF Accounted, HeldNow, Starting
<1>5. shellFds \ {loc[field]} = leaked \cup ({loc[other]} \ {NoFd})
  BY <1>3, <1>4
<1>6. \* open() succeeds
      CASE /\ data' = Append(data, 0)
           /\ shellFds' = (shellFds \ {loc[field]}) \cup {<<"f", NewObject>>}
           /\ loc' = [loc EXCEPT ![field] = <<"f", NewObject>>, !.curr = PastFile(e)]
           /\ pc' = "chain"
  <2> DEFINE f == <<"f", NewObject>>
  <2>1. /\ DOMAIN loc' = LocFields /\ loc'.pids = loc.pids /\ loc'.idx = loc.idx
        /\ loc'[field] = f /\ loc'[other] = loc[other]
    BY <1>1, <1>6 DEF Shapes, LocFields
  <2>2. /\ data' \in Seq(Int)
        /\ Descriptors' = Descriptors \cup Fds(NewObject)
        /\ Descriptors \cap Fds(NewObject) = {}
        /\ NoFd \notin Fds(NewObject) /\ NoFd \notin Descriptors
    BY <1>1, <1>6, NewDescriptors
  <2>3. f \in Fds(NewObject)
    BY DEF Fds
  <2>4. Shapes'
    BY <1>1, <1>6, <2>1, <2>2 DEF Shapes
  <2>5. Held' = {f} \cup ({loc[other]} \ {NoFd})
    <3>1. Held' = {loc'[field], loc'[other]} \ {NoFd}
      BY DEF Held
    <3> QED
      BY <3>1, <2>1, <2>2, <2>3
  <2>6. HeldNow' = Held' /\ ~Starting'
    BY <1>6 DEF HeldNow, Starting
  <2>7. loc[other] \in Descriptors \cup {NoFd} /\ leaked \subseteq Descriptors
    BY <1>3, <1>4
  <2>8. shellFds' = leaked' \cup HeldNow'
    BY <1>5, <1>6, <2>5, <2>6
  <2>9. leaked' \cap HeldNow' = {}
    <3>1. f \notin leaked
      BY <2>2, <2>3, <2>7
    <3>2. leaked \cap ({loc[other]} \ {NoFd}) = {}
      BY <1>3, <1>4
    <3> QED
      BY <3>1, <3>2, <2>5, <2>6
  <2>10. NoFd \notin shellFds' /\ shellFds' \subseteq Descriptors'
    BY <1>4, <1>6, <2>2, <2>3
  <2>11. f # loc[other]
    BY <2>2, <2>3, <2>7
  <2>12. loc'.fd_in # NoFd => loc'.fd_in # loc'.fd_out
    BY <2>1, <2>11
  <2>13. Accounted'
    BY <1>6, <2>6, <2>8, <2>9, <2>10, <2>12 DEF Accounted
  <2>14. Known'
    BY <1>1, <1>6, <2>1, SameChildren
  <2> QED
    BY <2>4, <2>13, <2>14 DEF IInv
<1>7. \* open() fails
      CASE /\ shellFds' = shellFds \ {loc[field]}
           /\ loc' = [loc EXCEPT ![field] = NoFd, !.idx = 1]
           /\ pc' = "wait"
           /\ UNCHANGED data
  <2>1. /\ DOMAIN loc' = LocFields /\ loc'.pids = loc.pids /\ loc'.idx = 1
        /\ loc'[field] = NoFd /\ loc'[other] = loc[other]
    BY <1>1, <1>7 DEF Shapes, LocFields
  <2>2. Shapes'
    <3>1. pc' = "wait" /\ data' = data
      BY <1>7
    <3>2. procs' = procs
      OBVIOUS
    <3> HIDE DEF other
    <3> QED
      BY <1>1, <2>1, <3>1, <3>2 DEF Shapes
  <2>3. Held' = {loc[other]} \ {NoFd}
    <3>1. Held' = {loc'[field], loc'[other]} \ {NoFd}
      BY DEF Held
    <3> QED
      BY <3>1, <2>1
  <2>4. HeldNow' = Held' /\ ~Starting' /\ Descriptors' = Descriptors
    BY <1>7 DEF HeldNow, Starting, Descriptors
  <2>5. shellFds' = leaked' \cup HeldNow' /\ leaked' \cap HeldNow' = {}
    BY <1>3, <1>4, <1>5, <1>7, <2>3, <2>4
  <2>6. NoFd \notin shellFds' /\ shellFds' \subseteq Descriptors'
    BY <1>4, <1>7, <2>4
  <2>7. loc'.fd_in # NoFd => loc'.fd_in # loc'.fd_out
    BY <2>1
  <2>8. Accounted'
    BY <1>7, <2>4, <2>5, <2>6, <2>7 DEF Accounted
  <2>9. Known'
    BY <1>1, <1>7, <2>1, SameChildren
  <2> QED
    BY <2>2, <2>8, <2>9 DEF IInv
<1> QED
  BY <1>2, <1>6, <1>7 DEF Redirect

LEMMA ScanRedirectInv == IInv /\ ScanRedirect => IInv'
<1> SUFFICES ASSUME IInv, ScanRedirect PROVE IInv'
  OBVIOUS
<1>1. pc = "chain" /\ UNCHANGED <<procs, leaked, detached>>
  BY DEF ScanRedirect, historyVars
<1>2. PICK field \in {"fd_in", "fd_out"} : Redirect(field, EndOf(loc.curr))
  BY DEF ScanRedirect
<1> QED
  BY <1>1, <1>2, RedirectInv

------------------------------------------------------------------------------
(* Starting a command. *)

\* What is_executable() does with the result of execute().
LEMMA AfterExecuteEffect ==
  ASSUME Shapes, NEW pid \in Proc \cup {-1}, AfterExecute(pid)
  PROVE  /\ pc' \in {"wait", "chain", "andwait"}
         /\ DOMAIN loc' = LocFields /\ loc'.idx = 1
         /\ loc'.pids = IF pid \in Proc THEN Append(loc.pids, pid) ELSE loc.pids
         /\ loc'.fd_out = NoFd
         /\ loc'.fd_in = IF loc.op = "|" /\ pid \in Proc THEN loc.pipe_rd ELSE NoFd
         /\ pid > 0 <=> pid \in Proc
<1> DEFINE ran == [loc EXCEPT !.fd_in = NoFd, !.fd_out = NoFd, !.pipe_rd = NoFd, !.idx = 1,
                              !.pid = pid, !.pids = IF pid > 0 THEN Append(@, pid) ELSE @]
           next == loc.end + 1
<1>1. pid > 0 <=> pid \in Proc
  BY DEF Proc
<1>2. DOMAIN loc = LocFields
  BY DEF Shapes
<1>3. /\ DOMAIN ran = LocFields /\ ran.idx = 1
      /\ ran.pids = IF pid \in Proc THEN Append(loc.pids, pid) ELSE loc.pids
      /\ ran.fd_out = NoFd /\ ran.fd_in = NoFd
  BY <1>1, <1>2 DEF LocFields
<1>4. \/ loc.op # "|" /\ pc' = "wait" /\ loc' = ran
      \/ /\ loc.op = "|" /\ pid > 0 /\ pc' = "chain"
         /\ loc' = [ran EXCEPT !.cmd = next, !.curr = next, !.fd_in = loc.pipe_rd]
      \/ loc.op = "|" /\ ~(pid > 0) /\ pc' = "wait" /\ loc' = ran
      \/ /\ loc.op # "|" /\ pc' = "andwait"
         /\ \E g : loc' = [ran EXCEPT !.status = g, !.last_status = 0]
  <2>1. pid <= 0 => ~(pid > 0)
    BY DEF Proc
  <2> QED
    BY <2>1 DEF AfterExecute
<1> HIDE DEF ran, next
<1>5. CASE loc' = ran /\ pc' = "wait" /\ (loc.op # "|" \/ ~(pid > 0))
  BY <1>1, <1>3, <1>5
<1>6. CASE /\ loc.op = "|" /\ pid > 0 /\ pc' = "chain"
           /\ loc' = [ran EXCEPT !.cmd = next, !.curr = next, !.fd_in = loc.pipe_rd]
  BY <1>1, <1>3, <1>6 DEF LocFields
<1>7. CASE /\ loc.op # "|" /\ pc' = "andwait"
           /\ \E g : loc' = [ran EXCEPT !.status = g, !.last_status = 0]
  <2>1. PICK g : loc' = [ran EXCEPT !.status = g, !.last_status = 0]
    BY <1>7
  <2> QED
    BY <1>1, <1>3, <1>7, <2>1 DEF LocFields
<1> QED
  BY <1>4, <1>5, <1>6, <1>7

\* A pid that is remembered is in the list, and nothing else is lost from it.
LEMMA Remembered ==
  ASSUME NEW s \in Seq(Proc), NEW p \in Proc
  PROVE  Append(s, p) \in Seq(Proc) /\ Range(Append(s, p)) = Range(s) \cup {p}
<1>1. /\ Append(s, p) \in Seq(Proc) /\ Len(Append(s, p)) = Len(s) + 1
      /\ \A i \in 1..Len(s) : Append(s, p)[i] = s[i]
      /\ Append(s, p)[Len(s) + 1] = p
  BY AppendProperties
<1>2. Len(s) \in Nat /\ DOMAIN s = 1..Len(s) /\ DOMAIN Append(s, p) = 1..(Len(s) + 1)
  BY <1>1
<1>3. 1..(Len(s) + 1) = (1..Len(s)) \cup {Len(s) + 1}
  BY <1>2
<1>4. Range(s) = {s[i] : i \in 1..Len(s)}
  BY <1>2 DEF Range
<1>5. Range(Append(s, p)) = {Append(s, p)[i] : i \in (1..Len(s)) \cup {Len(s) + 1}}
  BY <1>2, <1>3 DEF Range
<1> QED
  BY <1>1, <1>4, <1>5

LEMMA AfterExecuteInv ==
  ASSUME IInv, NEW pid \in Proc \cup {-1}, AfterExecute(pid),
         \/ pc = "execute" /\ pid = -1
         \/ pc = "restore" /\ pid = loc.pid,
         UNCHANGED <<procs, data, detached>>,
         leaked \subseteq leaked', leaked' \subseteq leaked \cup Held,
         shellFds' = leaked' \cup IF loc.op = "|" /\ pid \in Proc THEN {loc.pipe_rd} ELSE {}
  PROVE  IInv'
<1>1. Shapes /\ Accounted /\ Known
  BY DEF IInv
<1>2. /\ pc' \in {"wait", "chain", "andwait"}
      /\ DOMAIN loc' = LocFields /\ loc'.idx = 1
      /\ loc'.pids = IF pid \in Proc THEN Append(loc.pids, pid) ELSE loc.pids
      /\ loc'.fd_out = NoFd
      /\ loc'.fd_in = IF loc.op = "|" /\ pid \in Proc THEN loc.pipe_rd ELSE NoFd
  BY <1>1, AfterExecuteEffect
<1>3. loc.pids \in Seq(Proc)
  BY <1>1 DEF Shapes
<1>4. /\ loc'.pids \in Seq(Proc)
      /\ Range(loc'.pids) = Range(loc.pids) \cup IF pid \in Proc THEN {pid} ELSE {}
  <2>1. CASE pid \in Proc
    BY <1>2, <1>3, <2>1, Remembered
  <2>2. CASE pid \notin Proc
    BY <1>2, <1>3, <2>2
  <2> QED
    BY <2>1, <2>2
<1>5. Shapes'
  <2>1. loc'.idx \in Nat \ {0}
    BY <1>2
  <2>2. data' = data /\ procs' = procs
    OBVIOUS
  <2> QED
    BY <1>1, <1>2, <1>4, <2>1, <2>2 DEF Shapes
<1>6. /\ shellFds = leaked \cup HeldNow /\ leaked \cap HeldNow = {}
      /\ NoFd \notin shellFds /\ shellFds \subseteq Descriptors
      /\ Starting => loc.pipe_rd \notin Held
  BY <1>1 DEF Accounted
<1> DEFINE rest == IF loc.op = "|" /\ pid \in Proc THEN {loc.pipe_rd} ELSE {}
<1>7. ~Starting' /\ Descriptors' = Descriptors
  BY <1>2 DEF Starting, Descriptors
<1>8. rest \subseteq HeldNow /\ rest \cap Held = {} /\ NoFd \notin rest
  <2>1. CASE loc.op = "|" /\ pid \in Proc
    <3>1. Starting /\ loc.pipe_rd \in HeldNow
      BY <2>1 DEF Starting, HeldNow
    <3> QED
      BY <2>1, <3>1, <1>6
  <2>2. CASE ~(loc.op = "|" /\ pid \in Proc)
    BY <2>2
  <2> QED
    BY <2>1, <2>2
<1>9. HeldNow' = rest
  <2>1. Held' = rest \ {NoFd}
    BY <1>2 DEF Held
  <2> QED
    BY <1>7, <1>8, <2>1 DEF HeldNow
<1>10. shellFds' = leaked' \cup rest /\ leaked' \cap rest = {} /\ shellFds' \subseteq shellFds
  <2>1. Held \subseteq HeldNow
    BY DEF HeldNow
  <2> QED
    BY <1>6, <1>8, <2>1
<1>11. NoFd \notin shellFds' /\ shellFds' \subseteq Descriptors'
  BY <1>6, <1>7, <1>10
<1>12. loc'.fd_in # NoFd => loc'.fd_in # loc'.fd_out
  BY <1>2
<1>13. pc' # "prompt"
  BY <1>2
<1>14. Accounted'
  BY <1>7, <1>9, <1>10, <1>11, <1>12, <1>13 DEF Accounted
<1>15. Known'
  <2>1. ASSUME NEW p \in Proc, procs'[p].state = "running"
        PROVE  p \in detached' \cup Range(loc'.pids)
    <3>1. p \in detached \cup Range(loc.pids) \/ (pc = "restore" /\ p = loc.pid)
      BY <1>1, <2>1 DEF Known
    <3> QED
      BY <3>1, <1>4
  <2>2. \A i \in 1..Len(loc'.pids) : ~(i < loc'.idx)
    BY <1>2
  <2>3. pc' \notin {"prompt", "exited", "restore"}
    BY <1>2
  <2> QED
    BY <2>1, <2>2, <2>3 DEF Known
<1> QED
  BY <1>5, <1>14, <1>15 DEF IInv

LEMMA ExecuteNothingInv == IInv /\ ExecuteNothing => IInv'
<1> SUFFICES ASSUME IInv, ExecuteNothing PROVE IInv'
  OBVIOUS
<1>1. /\ pc = "execute" /\ AfterExecute(-1) /\ UNCHANGED <<procs, data, detached>>
      /\ leaked' = leaked \cup Held /\ shellFds' = shellFds \ PipeAbandoned(-1)
  BY DEF ExecuteNothing
<1>2. -1 \notin Proc /\ -1 <= 0
  BY DEF Proc
<1>3. shellFds = leaked \cup HeldNow /\ leaked \cap HeldNow = {}
  BY DEF IInv, Accounted
<1>4. Starting => loc.pipe_rd \notin Held
  BY DEF IInv, Accounted
<1>5. shellFds' = leaked'
  <2>1. CASE loc.op = "|"
    <3>1. PipeAbandoned(-1) = {loc.pipe_rd} /\ Starting
      BY <1>1, <1>2, <2>1 DEF PipeAbandoned, Starting
    <3>2. HeldNow = Held \cup {loc.pipe_rd} /\ loc.pipe_rd \notin Held
      BY <3>1, <1>4 DEF HeldNow
    <3> QED
      BY <1>1, <1>3, <3>1, <3>2
  <2>2. CASE loc.op # "|"
    <3>1. PipeAbandoned(-1) = {} /\ HeldNow = Held
      BY <2>2 DEF PipeAbandoned, Starting, HeldNow
    <3> QED
      BY <1>1, <1>3, <3>1
  <2> QED
    BY <2>1, <2>2
<1>6. shellFds' = leaked' \cup IF loc.op = "|" /\ -1 \in Proc THEN {loc.pipe_rd} ELSE {}
  BY <1>2, <1>5
<1> QED
  BY <1>1, <1>6, AfterExecuteInv

LEMMA ExecuteInShellInv == IInv /\ ExecuteInShell => IInv'
<1> SUFFICES ASSUME IInv, ExecuteInShell PROVE IInv'
  OBVIOUS
<1>1. /\ pc = "execute" /\ AfterExecute(-1) /\ UNCHANGED <<procs, data, detached, leaked>>
      /\ shellFds' = shellFds \ (Held \cup PipeAbandoned(-1))
  BY DEF ExecuteInShell, ExecuteCloses, historyVars
<1>2. -1 \notin Proc /\ -1 <= 0
  BY DEF Proc
<1>3. shellFds = leaked \cup HeldNow /\ leaked \cap HeldNow = {}
  BY DEF IInv, Accounted
<1>4. HeldNow = Held \cup PipeAbandoned(-1)
  BY <1>1, <1>2 DEF HeldNow, Starting, PipeAbandoned
<1>5. shellFds' = leaked' \cup IF loc.op = "|" /\ -1 \in Proc THEN {loc.pipe_rd} ELSE {}
  BY <1>1, <1>2, <1>3, <1>4
<1> QED
  BY <1>1, <1>5, AfterExecuteInv

LEMMA RestoreInv == IInv /\ Restore => IInv'
<1> SUFFICES ASSUME IInv, Restore PROVE IInv'
  OBVIOUS
<1>1. /\ pc = "restore" /\ AfterExecute(loc.pid) /\ UNCHANGED <<procs, data, detached, leaked>>
      /\ shellFds' = shellFds \ Held
  BY DEF Restore, ExecuteCloses, historyVars
<1>2. loc.pid \in Proc
  BY <1>1 DEF IInv, Known
<1>3. /\ shellFds = leaked \cup HeldNow /\ leaked \cap HeldNow = {}
      /\ Starting => loc.pipe_rd \notin Held
  BY DEF IInv, Accounted
<1>4. shellFds' = leaked' \cup IF loc.op = "|" /\ loc.pid \in Proc THEN {loc.pipe_rd} ELSE {}
  <2>1. HeldNow = Held \cup IF loc.op = "|" THEN {loc.pipe_rd} ELSE {}
    BY <1>1 DEF HeldNow, Starting
  <2>2. loc.op = "|" => loc.pipe_rd \notin Held
    BY <1>1, <1>3 DEF Starting
  <2> QED
    BY <1>1, <1>2, <1>3, <2>1, <2>2
<1> QED
  BY <1>1, <1>2, <1>4, AfterExecuteInv

\* The child gets copies; the shell's own descriptors stay where they are.
LEMMA ForkInv == IInv /\ Fork => IInv'
<1> SUFFICES ASSUME IInv, Fork PROVE IInv'
  OBVIOUS
<1>1. /\ pc = "execute" /\ pc' = "restore"
      /\ UNCHANGED <<shellFds, data, leaked, detached>>
  BY DEF Fork, historyVars
<1>2. PICK p \in Proc :
        /\ procs[p].state = "none"
        /\ procs' = [procs EXCEPT ![p] =
                       [state |-> "running", prog |-> Program, in |-> loc.fd_in,
                        out |-> loc.fd_out, fds |-> shellFds, left |-> FloodSize,
                        code |-> 0]]
        /\ loc' = [loc EXCEPT !.pid = p]
  BY DEF Fork
<1>3. Shapes /\ Accounted /\ Known
  BY DEF IInv
<1>4. /\ DOMAIN loc' = LocFields /\ loc'.pid = p /\ loc'.op = loc.op
      /\ loc'.pids = loc.pids /\ loc'.idx = loc.idx /\ loc'.pipe_rd = loc.pipe_rd
      /\ loc'.fd_in = loc.fd_in /\ loc'.fd_out = loc.fd_out
  BY <1>2, <1>3 DEF Shapes, LocFields
<1>5. /\ DOMAIN procs' = Proc
      /\ \A q \in Proc : q # p => procs'[q] = procs[q]
      /\ DOMAIN procs'[p] = ProcFields /\ procs'[p].state = "running"
  <2> DEFINE started == [state |-> "running", prog |-> Program, in |-> loc.fd_in,
                         out |-> loc.fd_out, fds |-> shellFds, left |-> FloodSize, code |-> 0]
  <2>1. DOMAIN started = ProcFields /\ started.state = "running"
    BY DEF ProcFields
  <2>2. DOMAIN procs = Proc /\ procs' = [procs EXCEPT ![p] = started]
    BY <1>2, <1>3 DEF Shapes
  <2> HIDE DEF started
  <2> QED
    BY <2>1, <2>2
<1>6. Shapes'
  <2>1. \A q \in Proc : /\ DOMAIN procs'[q] = ProcFields
                        /\ procs'[q].state \in {"none", "running", "zombie", "reaped"}
    BY <1>3, <1>5 DEF Shapes
  <2>2. loc'.pids \in Seq(Proc) /\ loc'.idx \in Nat \ {0}
    BY <1>3, <1>4 DEF Shapes
  <2>3. data' \in Seq(Int)
    BY <1>1, <1>3 DEF Shapes
  <2> QED
    BY <1>1, <1>4, <1>5, <2>1, <2>2, <2>3 DEF Shapes
<1>7. Descriptors' = Descriptors /\ Starting' = Starting
  BY <1>1, <1>4 DEF Descriptors, Starting
<1>8. Held' = Held /\ HeldNow' = HeldNow
  BY <1>4, <1>7 DEF Held, HeldNow
<1>9. Accounted'
  BY <1>1, <1>3, <1>4, <1>7, <1>8 DEF Accounted
<1>10. Known'
  BY <1>1, <1>3, <1>4, <1>5 DEF Known
<1> QED
  BY <1>6, <1>9, <1>10 DEF IInv

------------------------------------------------------------------------------
(* Waiting. *)

\* waitpid() returns: the child is dead and nothing else of the children changes.
LEMMA WaitpidEffect ==
  ASSUME Shapes, NEW p \in Proc, Waitpid(p)
  PROVE  /\ DOMAIN procs' = Proc
         /\ \A q \in Proc : /\ DOMAIN procs'[q] = ProcFields
                            /\ procs'[q].state \in {"none", "running", "zombie", "reaped"}
                            /\ procs'[q].state = "running" => procs[q].state = "running"
                            /\ Terminated(q) => procs'[q].state \in {"zombie", "reaped"}
         /\ procs'[p].state = "reaped"
<1>1. DOMAIN procs = Proc /\ DOMAIN procs[p] = ProcFields /\ procs[p].state # "running"
  BY DEF Shapes, Waitpid, Terminated
<1>2. procs' = [procs EXCEPT ![p] = [procs[p] EXCEPT !.state = "reaped"]]
  BY DEF Waitpid
<1>3. DOMAIN procs' = Proc /\ \A q \in Proc : q # p => procs'[q] = procs[q]
  BY <1>1, <1>2
<1>4. DOMAIN procs'[p] = ProcFields /\ procs'[p].state = "reaped"
  BY <1>1, <1>2 DEF ProcFields
<1> QED
  BY <1>1, <1>3, <1>4 DEF Shapes, Terminated

\* A turn of a waiting loop leaves one more child of the line behind, dead.
LEMMA TurnInv ==
  ASSUME IInv, pc \in {"wait", "andwait"}, loc.idx <= Len(loc.pids),
         Waitpid(loc.pids[loc.idx]), DOMAIN loc' = LocFields,
         loc'.pids = loc.pids, loc'.idx = loc.idx + 1,
         loc'.fd_in = loc.fd_in, loc'.fd_out = loc.fd_out,
         UNCHANGED <<pc, shellFds, data, leaked, detached>>
  PROVE  IInv'
<1>1. Shapes /\ Accounted /\ Known
  BY DEF IInv
<1>2. loc.pids \in Seq(Proc) /\ loc.idx \in Nat \ {0} /\ Len(loc.pids) \in Nat
  BY <1>1 DEF Shapes
<1>3. loc.idx \in 1..Len(loc.pids) /\ \A i \in 1..Len(loc.pids) : loc.pids[i] \in Proc
  BY <1>2
<1> DEFINE p == loc.pids[loc.idx]
<1>4. /\ DOMAIN procs' = Proc
      /\ \A q \in Proc : /\ DOMAIN procs'[q] = ProcFields
                         /\ procs'[q].state \in {"none", "running", "zombie", "reaped"}
                         /\ procs'[q].state = "running" => procs[q].state = "running"
                         /\ Terminated(q) => procs'[q].state \in {"zombie", "reaped"}
      /\ procs'[p].state = "reaped"
  BY <1>1, <1>3, WaitpidEffect
<1>5. loc'.idx \in Nat \ {0}
  BY <1>2
<1>6. Shapes'
  BY <1>1, <1>2, <1>4, <1>5 DEF Shapes
<1>7. ~Starting /\ ~Starting' /\ Descriptors' = Descriptors
  BY DEF Starting, Descriptors
<1>8. Accounted'
  BY <1>1, <1>7 DEF Accounted, HeldNow, Held
<1>9. ASSUME NEW i \in 1..Len(loc.pids), i < loc.idx + 1
      PROVE  procs'[loc.pids[i]].state \in {"zombie", "reaped"}
  <2>1. CASE i = loc.idx
    BY <1>4, <2>1
  <2>2. CASE i < loc.idx
    <3>1. Terminated(loc.pids[i]) /\ loc.pids[i] \in Proc
      BY <1>1, <1>3, <2>2 DEF Known
    <3> QED
      BY <3>1, <1>4
  <2> QED
    BY <1>2, <1>9, <2>1, <2>2
<1>10. \A i \in 1..Len(loc'.pids) :
         i < loc'.idx => procs'[loc'.pids[i]].state \in {"zombie", "reaped"}
  BY <1>9
<1>11. \A q \in Proc : procs'[q].state = "running" => q \in detached' \cup Range(loc'.pids)
  BY <1>1, <1>4 DEF Known
<1>12. pc' \notin {"prompt", "exited", "restore"}
  OBVIOUS
<1>13. Known'
  BY <1>10, <1>11, <1>12 DEF Known, Terminated
<1> QED
  BY <1>6, <1>8, <1>13 DEF IInv

LEMMA AndWaitInv == IInv /\ AndWait => IInv'
<1> SUFFICES ASSUME IInv, AndWait PROVE IInv'
  OBVIOUS
<1>1. /\ pc = "andwait" /\ loc.idx <= Len(loc.pids) /\ Waitpid(loc.pids[loc.idx])
      /\ UNCHANGED <<pc, shellFds, data, leaked, detached>>
  BY DEF AndWait, historyVars
<1>2. PICK s, t : loc' = [loc EXCEPT !.idx = @ + 1, !.status = s, !.last_status = t]
  BY DEF AndWait
<1>3. DOMAIN loc = LocFields
  BY DEF IInv, Shapes
<1>4. /\ DOMAIN loc' = LocFields /\ loc'.pids = loc.pids /\ loc'.idx = loc.idx + 1
      /\ loc'.fd_in = loc.fd_in /\ loc'.fd_out = loc.fd_out
  BY <1>2, <1>3 DEF LocFields
<1> QED
  BY <1>1, <1>4, TurnInv

LEMMA WaitAllInv == IInv /\ WaitAll => IInv'
<1> SUFFICES ASSUME IInv, WaitAll PROVE IInv'
  OBVIOUS
<1>1. /\ pc = "wait" /\ loc.idx <= Len(loc.pids) /\ Waitpid(loc.pids[loc.idx])
      /\ loc' = [loc EXCEPT !.idx = @ + 1]
      /\ UNCHANGED <<pc, shellFds, data, leaked, detached>>
  BY DEF WaitAll, historyVars
<1>2. DOMAIN loc = LocFields
  BY DEF IInv, Shapes
<1>3. /\ DOMAIN loc' = LocFields /\ loc'.pids = loc.pids /\ loc'.idx = loc.idx + 1
      /\ loc'.fd_in = loc.fd_in /\ loc'.fd_out = loc.fd_out
  BY <1>1, <1>2 DEF LocFields
<1> QED
  BY <1>1, <1>3, TurnInv

\* When a loop is over, only children of lines in the background run.
LEMMA LoopOver ==
  ASSUME IInv, pc \in {"wait", "andwait"}, AllWaitedFor
  PROVE  \A p \in Proc : procs[p].state = "running" => p \in detached
<1> SUFFICES ASSUME NEW p \in Proc, procs[p].state = "running", p \in Range(loc.pids)
             PROVE  FALSE
  BY DEF IInv, Known
<1>1. loc.pids \in Seq(Proc) /\ loc.idx \in Nat /\ Len(loc.pids) \in Nat
  BY DEF IInv, Shapes
<1>2. PICK i \in 1..Len(loc.pids) : loc.pids[i] = p
  BY <1>1 DEF Range
<1>3. i < loc.idx
  BY <1>1, <1>2 DEF AllWaitedFor
<1>4. Terminated(p)
  BY <1>2, <1>3 DEF IInv, Known
<1> QED
  BY <1>4 DEF Terminated

LEMMA AndDecideInv == IInv /\ AndDecide => IInv'
<1> SUFFICES ASSUME IInv, AndDecide PROVE IInv'
  OBVIOUS
<1>1. /\ pc = "andwait" /\ AllWaitedFor
      /\ UNCHANGED <<shellFds, procs, data, leaked, detached>>
  BY DEF AndDecide, historyVars
<1>2. Shapes /\ Accounted /\ Known
  BY DEF IInv
<1>3. /\ pc' \in {"wait", "chain"} /\ DOMAIN loc' = LocFields /\ loc'.pids = <<>>
      /\ loc'.idx \in Nat \ {0}
      /\ loc'.fd_in = loc.fd_in /\ loc'.fd_out = loc.fd_out
  <2>1. DOMAIN loc = LocFields /\ loc.idx \in Nat \ {0}
    BY <1>2 DEF Shapes
  <2>2. CASE pc' = "wait" /\ loc' = [loc EXCEPT !.pids = <<>>, !.idx = 1]
    BY <2>1, <2>2 DEF LocFields
  <2>3. CASE /\ pc' = "chain"
             /\ loc' = [loc EXCEPT !.pids = <<>>, !.cmd = loc.end + 1, !.curr = loc.end + 1]
    BY <2>1, <2>3 DEF LocFields
  <2> QED
    BY <2>2, <2>3 DEF AndDecide
<1>4. <<>> \in Seq(Proc) /\ Len(<<>>) = 0
  OBVIOUS
<1>5. Shapes'
  BY <1>1, <1>2, <1>3, <1>4 DEF Shapes
<1>6. ~Starting /\ ~Starting' /\ Descriptors' = Descriptors
  BY <1>1, <1>3 DEF Starting, Descriptors
<1>7. Accounted'
  BY <1>1, <1>2, <1>3, <1>6 DEF Accounted, HeldNow, Held
<1>8. \A p \in Proc : procs[p].state = "running" => p \in detached
  BY <1>1, LoopOver
<1>9. Known'
  <2>1. \A i \in 1..Len(loc'.pids) : FALSE
    BY <1>3, <1>4
  <2> QED
    BY <1>1, <1>3, <1>8, <2>1 DEF Known
<1> QED
  BY <1>5, <1>7, <1>9 DEF IInv

\* The line ends: what is open is closed, and what still runs goes to the background.
LEMMA FinishInv == IInv /\ Finish => IInv'
<1> SUFFICES ASSUME IInv, Finish PROVE IInv'
  OBVIOUS
<1>1. /\ pc = "wait" /\ pc' = "prompt" /\ loc' = Locals
      /\ loc.background \/ AllWaitedFor
      /\ shellFds' = shellFds \ Held
      /\ detached' = detached \cup IF loc.background THEN Range(loc.pids) ELSE {}
      /\ UNCHANGED <<procs, data, leaked>>
  BY DEF Finish
<1>2. Shapes /\ Accounted /\ Known
  BY DEF IInv
<1>3. /\ DOMAIN loc' = LocFields /\ loc'.pids = <<>> /\ loc'.idx = 1
      /\ loc'.fd_in = NoFd /\ loc'.fd_out = NoFd
  BY <1>1 DEF Locals, LocFields
<1>4. <<>> \in Seq(Proc) /\ 1 \in Nat \ {0}
  OBVIOUS
<1>5. Shapes'
  BY <1>1, <1>2, <1>3, <1>4 DEF Shapes
<1>6. ~Starting /\ ~Starting' /\ Descriptors' = Descriptors
  BY <1>1 DEF Starting, Descriptors
<1>7. HeldNow = Held /\ HeldNow' = {} /\ Held' = {}
  BY <1>3, <1>6 DEF HeldNow, Held
<1>8. Accounted'
  BY <1>1, <1>2, <1>3, <1>6, <1>7 DEF Accounted
<1>9. ASSUME NEW p \in Proc, procs[p].state = "running" PROVE p \in detached'
  <2>1. CASE loc.background
    BY <1>1, <1>2, <1>9, <2>1 DEF Known
  <2>2. CASE AllWaitedFor
    BY <1>1, <1>9, <2>2, LoopOver
  <2> QED
    BY <1>1, <2>1, <2>2
<1>10. Known'
  BY <1>1, <1>3, <1>9 DEF Known
<1> QED
  BY <1>5, <1>8, <1>10 DEF IInv

------------------------------------------------------------------------------
(* The theorems. *)

LEMMA NextInv == IInv /\ [Next]_vars => IInv'
<1> SUFFICES ASSUME IInv, [Next]_vars PROVE IInv'
  OBVIOUS
<1>1. ASSUME NEW l \in Lines, ReadLine(l) PROVE IInv'
  BY <1>1, ReadLineInv
<1>2. CASE ShellStep
  BY <1>2, ScanCommandInv, ScanPipeInv, ScanRedirectInv, ExecuteNothingInv,
     ExecuteInShellInv, ForkInv, RestoreInv, AndWaitInv, AndDecideInv, WaitAllInv, FinishInv
     DEF ShellStep
<1>3. CASE ChildHandler
  BY <1>3, ChildHandlerInv
<1>4. ASSUME NEW p \in Proc, ChildStep(p) PROVE IInv'
  BY <1>4, ChildStepInv
<1>5. CASE CtrlC
  BY <1>5, CtrlCInv
<1>6. CASE UNCHANGED vars
  BY <1>6, ChildrenLeaveShell DEF IInv, Shapes, vars, historyVars
<1> QED
  BY <1>1, <1>2, <1>3, <1>4, <1>5, <1>6 DEF Next

LEMMA Invariance == Spec => []IInv
  BY InitInv, NextInv, PTL DEF Spec

\* Whatever operators a line has and whichever of pipe(), open(), dup() and fork() fail,
\* between two commands the shell holds fd_in, fd_out and what the early return of
\* execute() left open, and nothing else.
THEOREM DescriptorsClosed == Spec => []DescriptorsAccounted
<1>1. IInv => DescriptorsAccounted
  BY DEF IInv, Accounted, DescriptorsAccounted, HeldNow, Starting
<1> QED
  BY <1>1, Invariance, PTL

------------------------------------------------------------------------------
(* The second shell.  Lab2 is PipeShell; its line n has a child, and a     *)
(* writer if the line is a pipe.                                           *)

\* What the constants must satisfy, for the instance.
LEMMA Lab2Constants == MaxLines \in Nat /\ PipeSize \in Nat \ {0}
  BY ShellsAssumption DEF Lab2!PipeAssumption

PipeProcFields == {"state", "prog", "sigint", "ends", "out", "left"}
PipeChildStates ==
  {"none", "forked", "setup", "piped", "running", "waiting", "zombie", "reaped"}
PipeWriterStates == {"none", "piped", "running", "ended"}

ProcShape(p, states) ==
  DOMAIN p = PipeProcFields /\ p.state \in states /\ p.ends \subseteq {"r", "w"}

\* Shapes of the variables.
PipeShapes ==
  /\ pc2 \in {"read", "fork", "wait", "exited", "crashed"}
  /\ lines \in Seq(PipeLines) /\ Len(lines) <= MaxLines
  /\ DOMAIN child = Lab2!LineNo /\ DOMAIN writer = Lab2!LineNo
  /\ DOMAIN data2 = Lab2!LineNo
  /\ \A n \in Lab2!LineNo :
       /\ ProcShape(child[n], PipeChildStates) /\ ProcShape(writer[n], PipeWriterStates)
       /\ data2[n] \in 0..PipeSize

\* A line that is not read yet has no processes, and one about to fork has no child; only
\* a line with a pipe has a writer.
PipeProcesses ==
  /\ pc2 \in {"fork", "wait"} => Len(lines) > 0
  /\ pc2 = "fork" => child[Len(lines)].state = "none"
  /\ \A n \in Lab2!LineNo :
       /\ n > Len(lines) => child[n].state = "none"
       /\ writer[n].state # "none" => child[n].state # "none" /\ Lab2!Operator(n) = "|"

\* The child of a line is reaped, unless the line is in the background.
PipeOver(n) ==
  child[n].state # "none" /\ ~Lab2!Background(lines[n]) => child[n].state = "reaped"

\* Only the line the shell waits for is not over.
PipeWaited ==
  pc2 \in {"read", "fork", "wait"} =>
    \A n \in 1..Len(lines) : (pc2 = "wait" /\ n = Len(lines)) \/ PipeOver(n)

PipeInv == PipeShapes /\ PipeProcesses /\ PipeWaited

\* What a step of a process of line n, a handler or Ctrl+C may do to the processes of a
\* line: none appears but the writer of a pipe, and the dead stay dead.
PipeChildMoves(m) ==
  /\ ProcShape(child'[m], PipeChildStates)
  /\ \/ child'[m].state = child[m].state
     \/ child[m].state \notin {"none", "reaped"} /\ child'[m].state # "none"
PipeWriterMoves(m) ==
  /\ ProcShape(writer'[m], PipeWriterStates)
  /\ \/ writer'[m].state = "none" \/ writer[m].state # "none"
     \/ child[m].state # "none" /\ Lab2!Operator(m) = "|"

LEMMA PipeProcessesMove ==
  ASSUME PipeInv, UNCHANGED <<pc2, lines>>,
         DOMAIN child' = Lab2!LineNo, DOMAIN writer' = Lab2!LineNo,
         DOMAIN data2' = Lab2!LineNo,
         \A m \in Lab2!LineNo :
           PipeChildMoves(m) /\ PipeWriterMoves(m) /\ data2'[m] \in 0..PipeSize
  PROVE  PipeInv'
<1>1. PipeShapes /\ PipeProcesses /\ PipeWaited
  BY DEF PipeInv
<1>2. PipeShapes'
  BY <1>1 DEF PipeShapes, PipeChildMoves, PipeWriterMoves, Lab2!LineNo
<1>3. Len(lines) \in Nat /\ Len(lines) \in 0..MaxLines
  BY <1>1, Lab2Constants DEF PipeShapes
<1>4. \A n \in Lab2!LineNo : Lab2!Operator(n)' = Lab2!Operator(n)
  BY DEF Lab2!Operator, Lab2!Operators, Lab2!Args, Lab2!Background
<1>5. PipeProcesses'
  BY <1>1, <1>3, <1>4, Lab2Constants
     DEF PipeProcesses, PipeChildMoves, PipeWriterMoves, Lab2!LineNo
<1>6. PipeWaited'
  <2>1. ASSUME NEW n \in 1..Len(lines), PipeOver(n) PROVE PipeOver(n)'
    <3>1. n \in Lab2!LineNo
      BY <1>3, Lab2Constants DEF Lab2!LineNo
    <3>2. Lab2!Background(lines[n])' = Lab2!Background(lines[n])
      BY DEF Lab2!Background
    <3> QED
      BY <2>1, <3>1, <3>2 DEF PipeOver, PipeChildMoves
  <2> QED
    BY <1>1, <2>1 DEF PipeWaited
<1> QED
  BY <1>2, <1>5, <1>6 DEF PipeInv

LEMMA PipeInitInv == Lab2!Init => PipeInv
<1> SUFFICES ASSUME Lab2!Init PROVE PipeInv
  OBVIOUS
<1>1. lines = <<>> /\ pc2 = "read" /\ Len(lines) = 0
  BY DEF Lab2!Init
<1>2. lines \in Seq(PipeLines)
  BY <1>1
<1>3. /\ DOMAIN child = Lab2!LineNo /\ DOMAIN writer = Lab2!LineNo
      /\ DOMAIN data2 = Lab2!LineNo
      /\ \A n \in Lab2!LineNo :
           child[n] = Lab2!NoProc /\ writer[n] = Lab2!NoProc /\ data2[n] = 0
  BY DEF Lab2!Init
<1>4. /\ Lab2!NoProc.state = "none" /\ Lab2!NoProc.ends = {}
      /\ DOMAIN Lab2!NoProc = PipeProcFields
  BY DEF Lab2!NoProc, PipeProcFields
<1>5. PipeShapes
  BY <1>1, <1>2, <1>3, <1>4, Lab2Constants
     DEF PipeShapes, ProcShape, PipeChildStates, PipeWriterStates
<1> QED
  BY <1>1, <1>3, <1>4, <1>5 DEF PipeInv, PipeProcesses, PipeWaited

\* Reading a line touches no process; the line is a new one.
LEMMA PipeReadLineInv ==
  ASSUME PipeInv, NEW l \in PipeLines, Lab2!ReadLine(l) PROVE PipeInv'
<1>1. /\ pc2 = "read" /\ Len(lines) < MaxLines
      /\ lines' = Append(lines, l)
      /\ pc2' \in {"crashed", "exited", "read", "fork"}
      /\ UNCHANGED <<child, writer, data2>>
  BY DEF Lab2!ReadLine, Lab2!Now
<1>2. PipeShapes /\ PipeProcesses /\ PipeWaited
  BY DEF PipeInv
<1>3. lines \in Seq(PipeLines) /\ Len(lines) \in Nat
  BY <1>2 DEF PipeShapes
<1>4. /\ lines' \in Seq(PipeLines) /\ Len(lines') = Len(lines) + 1
      /\ \A n \in 1..Len(lines) : lines'[n] = lines[n]
  BY <1>1, <1>3, AppendProperties
<1>5. Len(lines') <= MaxLines /\ Len(lines) + 1 \in Lab2!LineNo
  BY <1>1, <1>3, <1>4, Lab2Constants DEF Lab2!LineNo
<1>6. PipeShapes'
  BY <1>1, <1>2, <1>4, <1>5 DEF PipeShapes
<1>7. child[Len(lines')].state = "none"
  BY <1>2, <1>3, <1>4, <1>5 DEF PipeProcesses
<1>8. \A n \in 1..Len(lines) : Lab2!Operator(n)' = Lab2!Operator(n)
  BY <1>4 DEF Lab2!Operator, Lab2!Operators, Lab2!Args, Lab2!Background
<1>9. PipeProcesses'
  <2>1. ASSUME NEW n \in Lab2!LineNo, n > Len(lines) PROVE writer[n].state = "none"
    BY <1>2, <2>1 DEF PipeProcesses
  <2>2. ASSUME NEW n \in Lab2!LineNo, writer[n].state # "none"
        PROVE  child[n].state # "none" /\ Lab2!Operator(n)' = "|"
    <3>1. n \in 1..Len(lines)
      BY <1>3, <2>1, <2>2, Lab2Constants DEF Lab2!LineNo
    <3> QED
      BY <1>2, <1>8, <2>2, <3>1 DEF PipeProcesses
  <2>3. ASSUME NEW n \in Lab2!LineNo, n > Len(lines') PROVE child[n].state = "none"
    BY <1>2, <1>3, <1>4, <2>3, Lab2Constants DEF PipeProcesses, Lab2!LineNo
  <2>4. pc2' = "fork" => child[Len(lines')].state = "none"
    BY <1>7
  <2>5. Len(lines') > 0
    BY <1>3, <1>4
  <2> QED
    BY <1>1, <2>2, <2>3, <2>4, <2>5 DEF PipeProcesses
<1>10. \A n \in 1..Len(lines) : PipeOver(n)'
  BY <1>1, <1>2, <1>4 DEF PipeWaited, PipeOver, Lab2!Background
<1>11. \A n \in 1..Len(lines') : n = Len(lines') \/ n \in 1..Len(lines)
  BY <1>3, <1>4
<1>12. ASSUME NEW n, n = Len(lines') PROVE PipeOver(n)'
  BY <1>1, <1>7, <1>12 DEF PipeOver
<1>13. PipeWaited'
  BY <1>10, <1>11, <1>12 DEF PipeWaited
<1> QED
  BY <1>6, <1>9, <1>13 DEF PipeInv

LEMMA PipeEndOfInputInv == PipeInv /\ Lab2!EndOfInput => PipeInv'
<1> SUFFICES ASSUME PipeInv, Lab2!EndOfInput PROVE PipeInv'
  OBVIOUS
<1>1. /\ pc2' = "exited" /\ UNCHANGED <<lines, child, writer, data2>>
  BY DEF Lab2!EndOfInput
<1>2. \A n \in Lab2!LineNo : Lab2!Operator(n)' = Lab2!Operator(n)
  BY <1>1 DEF Lab2!Operator, Lab2!Operators, Lab2!Args, Lab2!Background
<1>3. PipeShapes' /\ PipeProcesses' /\ PipeWaited'
  BY <1>1, <1>2 DEF PipeInv, PipeShapes, PipeProcesses, PipeWaited
<1> QED
  BY <1>3 DEF PipeInv

\* fork() makes the child of the line just read; the shell waits for it, or the line is in
\* the background.
LEMMA PipeForkInv == PipeInv /\ Lab2!Fork => PipeInv'
<1> SUFFICES ASSUME PipeInv, Lab2!Fork PROVE PipeInv'
  OBVIOUS
<1> DEFINE m == Len(lines)
           forked == [Lab2!NoProc EXCEPT !.state = "forked"]
<1>1. /\ pc2 = "fork" /\ UNCHANGED <<lines, writer, data2>>
      /\ \/ /\ child' = [child EXCEPT ![m] = forked]
            /\ pc2' = IF Lab2!Background(lines[m]) THEN "read" ELSE "wait"
         \/ pc2' = "exited" /\ UNCHANGED child
  BY DEF Lab2!Fork, Lab2!Now
<1>2. PipeShapes /\ PipeProcesses /\ PipeWaited
  BY DEF PipeInv
<1>3. m \in Nat /\ m > 0 /\ m \in Lab2!LineNo
  BY <1>1, <1>2, Lab2Constants DEF PipeShapes, PipeProcesses, Lab2!LineNo
<1>4. ProcShape(forked, PipeChildStates) /\ forked.state = "forked"
  BY DEF ProcShape, PipeChildStates, PipeProcFields, Lab2!NoProc
<1> HIDE DEF m, forked
<1>5. /\ DOMAIN child' = Lab2!LineNo
      /\ \A n \in Lab2!LineNo :
           \/ child'[n] = child[n]
           \/ n = m /\ ProcShape(child'[n], PipeChildStates) /\ child'[n].state = "forked"
  BY <1>1, <1>2, <1>4 DEF PipeShapes
<1>6. \A n \in Lab2!LineNo : Lab2!Operator(n)' = Lab2!Operator(n)
  BY <1>1 DEF Lab2!Operator, Lab2!Operators, Lab2!Args, Lab2!Background
<1>7. pc2' \in {"read", "wait", "exited"}
  BY <1>1
<1>8. PipeShapes'
  BY <1>1, <1>2, <1>5, <1>7 DEF PipeShapes
<1>9. PipeProcesses'
  BY <1>1, <1>2, <1>3, <1>5, <1>6, <1>7 DEF PipeProcesses, m, Lab2!LineNo
<1>10. PipeWaited'
  <2>1. ASSUME NEW n \in 1..m, n # m PROVE PipeOver(n)'
    <3>1. n \in Lab2!LineNo
      BY <1>3, Lab2Constants DEF Lab2!LineNo
    <3> QED
      BY <1>1, <1>2, <1>5, <2>1, <3>1 DEF PipeWaited, PipeOver, Lab2!Background, m
  <2>2. ASSUME NEW n \in 1..m, n = m, pc2' = "read" PROVE PipeOver(n)'
    BY <1>1, <2>2 DEF PipeOver, Lab2!Background
  <2> QED
    BY <1>1, <1>7, <2>1, <2>2 DEF PipeWaited, m
<1> QED
  BY <1>8, <1>9, <1>10 DEF PipeInv

\* waitpid() leaves the child of the line reaped, whoever reaped it.
LEMMA PipeWaitpidInv == PipeInv /\ Lab2!Waitpid => PipeInv'
<1> SUFFICES ASSUME PipeInv, Lab2!Waitpid PROVE PipeInv'
  OBVIOUS
<1> DEFINE m == Len(lines)
<1>1. /\ pc2 = "wait" /\ pc2' = "read" /\ UNCHANGED <<lines, writer, data2>>
      /\ child' = [child EXCEPT ![m].state = "reaped"]
      /\ Lab2!Ended(child[m])
  BY DEF Lab2!Waitpid, Lab2!Now
<1>2. PipeShapes /\ PipeProcesses /\ PipeWaited
  BY DEF PipeInv
<1>3. m \in Nat /\ m > 0 /\ m \in Lab2!LineNo
  BY <1>1, <1>2, Lab2Constants DEF PipeShapes, PipeProcesses, Lab2!LineNo
<1> HIDE DEF m
<1>4. /\ DOMAIN child' = Lab2!LineNo
      /\ \A n \in Lab2!LineNo : n # m => child'[n] = child[n]
      /\ ProcShape(child'[m], PipeChildStates) /\ child'[m].state = "reaped"
  BY <1>1, <1>2, <1>3 DEF PipeShapes, ProcShape, PipeChildStates, PipeProcFields
<1>5. \A n \in Lab2!LineNo : Lab2!Operator(n)' = Lab2!Operator(n)
  BY <1>1 DEF Lab2!Operator, Lab2!Operators, Lab2!Args, Lab2!Background
<1>6. PipeShapes'
  BY <1>1, <1>2, <1>4 DEF PipeShapes
<1>7. PipeProcesses'
  BY <1>1, <1>2, <1>3, <1>4, <1>5 DEF PipeProcesses, m, Lab2!LineNo
<1>8. PipeWaited'
  <2>1. ASSUME NEW n \in 1..m PROVE PipeOver(n)'
    <3>1. n \in Lab2!LineNo
      BY <1>3, Lab2Constants DEF Lab2!LineNo
    <3> QED
      BY <1>1, <1>2, <1>4, <3>1 DEF PipeWaited, PipeOver, Lab2!Background, m
  <2> QED
    BY <1>1, <2>1 DEF PipeWaited, m
<1> QED
  BY <1>6, <1>7, <1>8 DEF PipeInv

\* A step of the processes of one line.
LEMMA PipeLineMoves ==
  ASSUME PipeInv, NEW n \in Lab2!LineNo, UNCHANGED <<pc2, lines>>,
         DOMAIN child' = Lab2!LineNo, DOMAIN writer' = Lab2!LineNo,
         DOMAIN data2' = Lab2!LineNo,
         \A m \in Lab2!LineNo \ {n} :
           child'[m] = child[m] /\ writer'[m] = writer[m] /\ data2'[m] = data2[m],
         PipeChildMoves(n), PipeWriterMoves(n), data2'[n] \in 0..PipeSize
  PROVE  PipeInv'
<1>1. PipeShapes
  BY DEF PipeInv
<1>2. \A m \in Lab2!LineNo \ {n} :
        PipeChildMoves(m) /\ PipeWriterMoves(m) /\ data2'[m] \in 0..PipeSize
  BY <1>1 DEF PipeShapes, PipeChildMoves, PipeWriterMoves
<1> QED
  BY <1>2, PipeProcessesMove

\* A step of the child alone.
LEMMA PipeChildAlone ==
  ASSUME PipeInv, NEW n \in Lab2!LineNo, UNCHANGED <<pc2, lines, writer, data2>>,
         child[n].state \notin {"none", "reaped"},
         NEW c, child' = [child EXCEPT ![n] = c],
         ProcShape(c, PipeChildStates), c.state # "none"
  PROVE  PipeInv'
<1>1. PipeShapes
  BY DEF PipeInv
<1>2. /\ DOMAIN child' = Lab2!LineNo /\ child'[n] = c
      /\ \A m \in Lab2!LineNo \ {n} : child'[m] = child[m]
  BY <1>1 DEF PipeShapes
<1>3. PipeChildMoves(n) /\ PipeWriterMoves(n)
  BY <1>1, <1>2 DEF PipeShapes, PipeChildMoves, PipeWriterMoves
<1> QED
  BY <1>1, <1>2, <1>3, PipeLineMoves DEF PipeShapes

LEMMA ProcShapeKept ==
  ASSUME NEW S, NEW p, ProcShape(p, S), NEW state \in S
  PROVE  /\ ProcShape([p EXCEPT !.state = state], S)
         /\ [p EXCEPT !.state = state].state = state
         /\ ProcShape(Lab2!Dead(p, state), S) /\ Lab2!Dead(p, state).state = state
  BY DEF ProcShape, PipeProcFields, Lab2!Dead

\* execvp() leaves the descriptors and the rest as they are.
LEMMA ExecutedShape ==
  ASSUME NEW S, NEW p, NEW words, ProcShape(p, S), "running" \in S
  PROVE  /\ ProcShape(Lab2!Executed(p, words), S)
         /\ Lab2!Executed(p, words).state = "running"
  BY DEF ProcShape, PipeProcFields, Lab2!Executed

LEMMA PipeChildEndsInv ==
  ASSUME PipeInv, NEW n \in Lab2!LineNo, UNCHANGED <<pc2, lines, writer, data2>>,
         child[n].state \notin {"none", "reaped"}, Lab2!ChildEnds(n)
  PROVE  PipeInv'
<1>1. PipeShapes
  BY DEF PipeInv
<1>2. child' = [child EXCEPT ![n] = Lab2!Dead(child[n], "zombie")]
  BY <1>1 DEF Lab2!ChildEnds, PipeShapes
<1>3. /\ ProcShape(Lab2!Dead(child[n], "zombie"), PipeChildStates)
      /\ Lab2!Dead(child[n], "zombie").state = "zombie"
  <2>1. ProcShape(child[n], PipeChildStates) /\ "zombie" \in PipeChildStates
    BY <1>1 DEF PipeShapes, PipeChildStates
  <2> QED
    BY <2>1, ProcShapeKept
<1> QED
  BY <1>2, <1>3, PipeChildAlone

LEMMA PipeDefaultSigintInv ==
  ASSUME PipeInv, NEW n \in Lab2!LineNo, UNCHANGED <<pc2, lines>>, Lab2!DefaultSigint(n)
  PROVE  PipeInv'
<1> DEFINE c == [child[n] EXCEPT !.state = "setup", !.sigint = "default"]
<1>1. PipeShapes
  BY DEF PipeInv
<1>2. child' = [child EXCEPT ![n] = c] /\ child[n].state = "forked" /\ UNCHANGED <<writer, data2>>
  BY <1>1 DEF Lab2!DefaultSigint, PipeShapes
<1>3. ProcShape(c, PipeChildStates) /\ c.state = "setup"
  BY <1>1 DEF PipeShapes, ProcShape, PipeProcFields, PipeChildStates
<1> HIDE DEF c
<1> QED
  BY <1>2, <1>3, PipeChildAlone

LEMMA PipeExecAloneInv ==
  ASSUME PipeInv, NEW n \in Lab2!LineNo, UNCHANGED <<pc2, lines>>, Lab2!ExecAlone(n)
  PROVE  PipeInv'
<1>1. PipeShapes
  BY DEF PipeInv
<1>2. child[n].state = "setup" /\ UNCHANGED <<writer, data2>>
  BY DEF Lab2!ExecAlone
<1>3. CASE Lab2!Executable(Lab2!Left(n))
  <2> DEFINE c(opened) == [Lab2!Executed(child[n], Lab2!Left(n)) EXCEPT
                             !.out = IF opened THEN "file" ELSE "terminal"]
  <2>1. PICK opened \in BOOLEAN : child' = [child EXCEPT ![n] = c(opened)]
    BY <1>1, <1>3 DEF Lab2!ExecAlone, PipeShapes
  <2>2. ProcShape(child[n], PipeChildStates) /\ "running" \in PipeChildStates
    BY <1>1 DEF PipeShapes, PipeChildStates
  <2>3. /\ ProcShape(Lab2!Executed(child[n], Lab2!Left(n)), PipeChildStates)
        /\ Lab2!Executed(child[n], Lab2!Left(n)).state = "running"
    BY <2>2, ExecutedShape
  <2>4. ProcShape(c(opened), PipeChildStates) /\ c(opened).state = "running"
    BY <2>3 DEF ProcShape, PipeProcFields
  <2> HIDE DEF c
  <2> QED
    BY <1>2, <2>1, <2>4, PipeChildAlone
<1>4. CASE ~Lab2!Executable(Lab2!Left(n))
  <2>1. Lab2!ChildEnds(n)
    BY <1>4 DEF Lab2!ExecAlone
  <2> QED
    BY <1>2, <2>1, PipeChildEndsInv
<1> QED
  BY <1>3, <1>4

\* fork() in the child: the writer begins as its copy.
LEMMA PipeMakePipeInv ==
  ASSUME PipeInv, NEW n \in Lab2!LineNo, UNCHANGED <<pc2, lines>>, Lab2!MakePipe(n)
  PROVE  PipeInv'
<1> DEFINE c == [child[n] EXCEPT !.state = "piped", !.ends = {"r", "w"}]
           w == [c EXCEPT !.out = "pipe"]
<1>1. PipeShapes
  BY DEF PipeInv
<1>2. child[n].state = "setup" /\ Lab2!Operator(n) = "|" /\ UNCHANGED data2
  BY DEF Lab2!MakePipe
<1>3. CASE child' = [child EXCEPT ![n] = c] /\ writer' = [writer EXCEPT ![n] = w]
  <2>1. ProcShape(c, PipeChildStates) /\ c.state = "piped"
    BY <1>1 DEF PipeShapes, ProcShape, PipeProcFields, PipeChildStates
  <2>2. ProcShape(w, PipeWriterStates) /\ w.state = "piped"
    BY <1>1 DEF PipeShapes, ProcShape, PipeProcFields, PipeWriterStates
  <2> HIDE DEF c, w
  <2>3. /\ DOMAIN child' = Lab2!LineNo /\ child'[n] = c
        /\ DOMAIN writer' = Lab2!LineNo /\ writer'[n] = w
        /\ \A m \in Lab2!LineNo \ {n} : child'[m] = child[m] /\ writer'[m] = writer[m]
    BY <1>1, <1>3 DEF PipeShapes
  <2>4. PipeChildMoves(n) /\ PipeWriterMoves(n)
    BY <1>2, <2>1, <2>2, <2>3 DEF PipeChildMoves, PipeWriterMoves
  <2> QED
    BY <1>1, <1>2, <2>3, <2>4, PipeLineMoves DEF PipeShapes
<1>4. CASE Lab2!ChildEnds(n) /\ UNCHANGED writer
  BY <1>2, <1>4, PipeChildEndsInv
<1> QED
  <2>1. ASSUME child' = [child EXCEPT ![n].state = "piped", ![n].ends = {"r", "w"}],
               writer' = [writer EXCEPT ![n] = [child'[n] EXCEPT !.out = "pipe"]]
        PROVE  child' = [child EXCEPT ![n] = c] /\ writer' = [writer EXCEPT ![n] = w]
    <3>1. child' = [child EXCEPT ![n] = c]
      BY <1>1, <2>1 DEF PipeShapes
    <3>2. child'[n] = c
      BY <1>1, <3>1 DEF PipeShapes
    <3> QED
      BY <2>1, <3>1, <3>2
  <2> QED
    BY <1>3, <1>4, <2>1 DEF Lab2!MakePipe

LEMMA PipeReaderExecInv ==
  ASSUME PipeInv, NEW n \in Lab2!LineNo, UNCHANGED <<pc2, lines>>, Lab2!ReaderExec(n)
  PROVE  PipeInv'
<1> DEFINE reader == [child[n] EXCEPT !.ends = {"r"}]
           c == IF Lab2!Executable(Lab2!Right(n)) THEN Lab2!Executed(reader, Lab2!Right(n))
                ELSE [reader EXCEPT !.state = "waiting"]
<1>1. PipeShapes
  BY DEF PipeInv
<1>2. /\ child[n].state = "piped" /\ UNCHANGED <<writer, data2>>
      /\ child' = [child EXCEPT ![n] = c]
  BY DEF Lab2!ReaderExec
<1>3. ProcShape(reader, PipeChildStates)
  BY <1>1 DEF PipeShapes, ProcShape, PipeProcFields
<1> HIDE DEF reader
<1>4. ProcShape(c, PipeChildStates) /\ c.state # "none"
  BY <1>3, ExecutedShape, ProcShapeKept DEF PipeChildStates
<1> HIDE DEF c
<1> QED
  BY <1>2, <1>4, PipeChildAlone

\* A step of the writer alone, and of the data in its pipe.
LEMMA PipeWriterAlone ==
  ASSUME PipeInv, NEW n \in Lab2!LineNo, UNCHANGED <<pc2, lines, child>>,
         writer[n].state # "none",
         NEW w, writer' = [writer EXCEPT ![n] = w], ProcShape(w, PipeWriterStates),
         DOMAIN data2' = Lab2!LineNo,
         \A m \in Lab2!LineNo \ {n} : data2'[m] = data2[m], data2'[n] \in 0..PipeSize
  PROVE  PipeInv'
<1>1. PipeShapes
  BY DEF PipeInv
<1>2. /\ DOMAIN writer' = Lab2!LineNo /\ writer'[n] = w
      /\ \A m \in Lab2!LineNo \ {n} : writer'[m] = writer[m]
  BY <1>1 DEF PipeShapes
<1>3. PipeChildMoves(n) /\ PipeWriterMoves(n)
  BY <1>1, <1>2 DEF PipeShapes, PipeChildMoves, PipeWriterMoves
<1> QED
  BY <1>1, <1>2, <1>3, PipeLineMoves DEF PipeShapes

LEMMA WriterExitsShape ==
  ASSUME PipeShapes, NEW n \in Lab2!LineNo
  PROVE  ProcShape(Lab2!WriterExits(n), PipeWriterStates)
<1>1. ProcShape(writer[n], PipeWriterStates) /\ "ended" \in PipeWriterStates
  BY DEF PipeShapes, PipeWriterStates
<1> QED
  BY <1>1, ProcShapeKept DEF Lab2!WriterExits

LEMMA PipeWriterExecInv ==
  ASSUME PipeInv, NEW n \in Lab2!LineNo, UNCHANGED <<pc2, lines>>, Lab2!WriterExec(n)
  PROVE  PipeInv'
<1> DEFINE executed == Lab2!Executed(writer[n], Lab2!Left(n))
           w == IF Lab2!Executable(Lab2!Left(n)) THEN [executed EXCEPT !.ends = {"w"}]
                ELSE Lab2!WriterExits(n)
<1>1. PipeShapes
  BY DEF PipeInv
<1>2. /\ writer[n].state = "piped" /\ UNCHANGED <<child, data2>>
      /\ writer' = [writer EXCEPT ![n] = w]
  BY <1>1 DEF Lab2!WriterExec, PipeShapes
<1>3. ProcShape(executed, PipeWriterStates)
  <2>1. ProcShape(writer[n], PipeWriterStates) /\ "running" \in PipeWriterStates
    BY <1>1 DEF PipeShapes, PipeWriterStates
  <2> QED
    BY <2>1, ExecutedShape
<1> HIDE DEF executed
<1>4. ProcShape([executed EXCEPT !.ends = {"w"}], PipeWriterStates)
  BY <1>3 DEF ProcShape, PipeProcFields
<1>5. ProcShape(w, PipeWriterStates)
  BY <1>1, <1>4, WriterExitsShape
<1> HIDE DEF w
<1> QED
  BY <1>1, <1>2, <1>5, PipeWriterAlone DEF PipeShapes

LEMMA PipeWriterProgramEndsInv ==
  ASSUME PipeInv, NEW n \in Lab2!LineNo, UNCHANGED <<pc2, lines>>, Lab2!WriterProgramEnds(n)
  PROVE  PipeInv'
<1>1. PipeShapes
  BY DEF PipeInv
<1>2. /\ writer[n].state = "running" /\ UNCHANGED <<child, data2>>
      /\ writer' = [writer EXCEPT ![n] = Lab2!WriterExits(n)]
  BY DEF Lab2!WriterProgramEnds, Lab2!ProgramEnds
<1>3. ProcShape(Lab2!WriterExits(n), PipeWriterStates)
  BY <1>1, WriterExitsShape
<1> QED
  BY <1>1, <1>2, <1>3, PipeWriterAlone DEF PipeShapes

\* The room of the pipe bounds what is in it.
LEMMA PipeFloodWritesInv ==
  ASSUME PipeInv, NEW n \in Lab2!LineNo, UNCHANGED <<pc2, lines>>, Lab2!FloodWrites(n)
  PROVE  PipeInv'
<1>1. PipeShapes
  BY DEF PipeInv
<1>2. writer[n].state = "running" /\ UNCHANGED child
  BY DEF Lab2!FloodWrites, Lab2!Runs
<1>3. CASE Lab2!HeldOpen(n, "r")
  <2> DEFINE w == [writer[n] EXCEPT !.left = writer[n].left - 1]
  <2>1. /\ data2[n] < PipeSize /\ data2' = [data2 EXCEPT ![n] = data2[n] + 1]
        /\ writer' = [writer EXCEPT ![n].left = @ - 1]
    BY <1>1, <1>3 DEF Lab2!FloodWrites, PipeShapes
  <2>2. writer' = [writer EXCEPT ![n] = w]
    BY <1>1, <2>1 DEF PipeShapes
  <2>3. ProcShape(w, PipeWriterStates)
    BY <1>1 DEF PipeShapes, ProcShape, PipeProcFields, PipeWriterStates
  <2>4. /\ DOMAIN data2' = Lab2!LineNo
        /\ \A m \in Lab2!LineNo \ {n} : data2'[m] = data2[m]
        /\ data2'[n] \in 0..PipeSize
    BY <1>1, <2>1, Lab2Constants DEF PipeShapes
  <2> HIDE DEF w
  <2> QED
    BY <1>2, <2>2, <2>3, <2>4, PipeWriterAlone
<1>4. CASE ~Lab2!HeldOpen(n, "r")
  <2>1. writer' = [writer EXCEPT ![n] = Lab2!WriterExits(n)] /\ UNCHANGED data2
    BY <1>4 DEF Lab2!FloodWrites
  <2>2. ProcShape(Lab2!WriterExits(n), PipeWriterStates)
    BY <1>1, WriterExitsShape
  <2> QED
    BY <1>1, <1>2, <2>1, <2>2, PipeWriterAlone DEF PipeShapes
<1> QED
  BY <1>3, <1>4

LEMMA PipeSinkReadsInv ==
  ASSUME PipeInv, NEW n \in Lab2!LineNo, UNCHANGED <<pc2, lines>>, Lab2!SinkReads(n)
  PROVE  PipeInv'
<1>1. PipeShapes
  BY DEF PipeInv
<1>2. /\ data2[n] > 0 /\ data2' = [data2 EXCEPT ![n] = data2[n] - 1]
      /\ UNCHANGED <<child, writer>>
  BY <1>1 DEF Lab2!SinkReads, PipeShapes
<1>3. /\ DOMAIN data2' = Lab2!LineNo
      /\ \A m \in Lab2!LineNo \ {n} : data2'[m] = data2[m]
      /\ data2'[n] \in 0..PipeSize
  BY <1>1, <1>2, Lab2Constants DEF PipeShapes
<1>4. PipeChildMoves(n) /\ PipeWriterMoves(n)
  BY <1>1, <1>2 DEF PipeShapes, PipeChildMoves, PipeWriterMoves
<1> QED
  BY <1>1, <1>2, <1>3, <1>4, PipeLineMoves DEF PipeShapes

LEMMA PipeProcessInv ==
  ASSUME PipeInv, NEW n \in Lab2!LineNo, UNCHANGED <<pc2, lines>>,
         Lab2!ChildRuns(n) \/ Lab2!WriterRuns(n)
  PROVE  PipeInv'
<1>1. CASE Lab2!ReaderGivesUp(n)
  BY <1>1, PipeChildEndsInv DEF Lab2!ReaderGivesUp
<1>2. CASE Lab2!ChildProgramEnds(n)
  BY <1>2, PipeChildEndsInv DEF Lab2!ChildProgramEnds, Lab2!ProgramEnds
<1> QED
  BY <1>1, <1>2, PipeDefaultSigintInv, PipeExecAloneInv, PipeMakePipeInv, PipeReaderExecInv,
     PipeWriterExecInv, PipeWriterProgramEndsInv, PipeFloodWritesInv, PipeSinkReadsInv
     DEF Lab2!ChildRuns, Lab2!WriterRuns, Lab2!ChildStep

\* child_handler() reaps the dead of every line, background or not.
LEMMA PipeChildHandlerInv == PipeInv /\ Lab2!ChildHandler => PipeInv'
<1> SUFFICES ASSUME PipeInv, Lab2!ChildHandler PROVE PipeInv'
  OBVIOUS
<1>1. PipeShapes
  BY DEF PipeInv
<1>2. /\ UNCHANGED <<pc2, lines, writer, data2>> /\ DOMAIN child' = Lab2!LineNo
      /\ \A n \in Lab2!LineNo :
           child'[n] = IF child[n].state = "zombie" THEN [child[n] EXCEPT !.state = "reaped"]
                       ELSE child[n]
  BY DEF Lab2!ChildHandler
<1>3. ASSUME NEW n \in Lab2!LineNo
      PROVE  PipeChildMoves(n) /\ PipeWriterMoves(n) /\ data2'[n] \in 0..PipeSize
  <2>1. ProcShape(child[n], PipeChildStates) /\ "reaped" \in PipeChildStates
    BY <1>1 DEF PipeShapes, PipeChildStates
  <2>2. /\ ProcShape([child[n] EXCEPT !.state = "reaped"], PipeChildStates)
        /\ [child[n] EXCEPT !.state = "reaped"].state = "reaped"
    BY <2>1, ProcShapeKept
  <2>3. PipeChildMoves(n)
    BY <1>2, <2>1, <2>2 DEF PipeChildMoves
  <2> QED
    BY <1>1, <1>2, <2>3 DEF PipeShapes, PipeWriterMoves
<1> QED
  BY <1>1, <1>2, <1>3, PipeProcessesMove DEF PipeShapes

LEMMA PipeCtrlCInv == PipeInv /\ Lab2!CtrlC => PipeInv'
<1> SUFFICES ASSUME PipeInv, Lab2!CtrlC PROVE PipeInv'
  OBVIOUS
<1>1. PipeShapes
  BY DEF PipeInv
<1>2. /\ UNCHANGED <<pc2, lines, data2>>
      /\ DOMAIN child' = Lab2!LineNo /\ DOMAIN writer' = Lab2!LineNo
      /\ \A n \in Lab2!LineNo :
           /\ \/ child'[n] = child[n]
              \/ Lab2!Alive(child[n]) /\ child'[n] = Lab2!Dead(child[n], "zombie")
           /\ \/ writer'[n] = writer[n]
              \/ Lab2!Alive(writer[n]) /\ writer'[n] = Lab2!WriterExits(n)
  BY DEF Lab2!CtrlC
<1>3. ASSUME NEW n \in Lab2!LineNo
      PROVE  PipeChildMoves(n) /\ PipeWriterMoves(n) /\ data2'[n] \in 0..PipeSize
  <2>1. ProcShape(child[n], PipeChildStates) /\ "zombie" \in PipeChildStates
    BY <1>1 DEF PipeShapes, PipeChildStates
  <2>2. /\ ProcShape(Lab2!Dead(child[n], "zombie"), PipeChildStates)
        /\ Lab2!Dead(child[n], "zombie").state = "zombie"
    BY <2>1, ProcShapeKept
  <2>3. Lab2!Alive(child[n]) => child[n].state \notin {"none", "reaped"}
    BY DEF Lab2!Alive, Lab2!Ended
  <2>4. PipeChildMoves(n)
    BY <1>2, <2>1, <2>2, <2>3 DEF PipeChildMoves
  <2>5. Lab2!Alive(writer[n]) => writer[n].state # "none"
    BY DEF Lab2!Alive
  <2>6. PipeWriterMoves(n)
    BY <1>1, <1>2, <2>5, WriterExitsShape DEF PipeWriterMoves, PipeShapes
  <2> QED
    BY <1>1, <1>2, <2>4, <2>6 DEF PipeShapes
<1> QED
  BY <1>1, <1>2, <1>3, PipeProcessesMove DEF PipeShapes

LEMMA PipeNextInv == PipeInv /\ [Lab2!Next]_pipeVars => PipeInv'
<1> SUFFICES ASSUME PipeInv, [Lab2!Next]_pipeVars PROVE PipeInv'
  OBVIOUS
<1>1. ASSUME NEW l \in PipeLines, Lab2!ReadLine(l) PROVE PipeInv'
  BY <1>1, PipeReadLineInv
<1>2. ASSUME NEW n \in Lab2!LineNo,
             Lab2!Process(Lab2!ChildRuns(n)) \/ Lab2!Process(Lab2!WriterRuns(n))
      PROVE  PipeInv'
  BY <1>2, PipeProcessInv DEF Lab2!Process
<1>3. CASE UNCHANGED pipeVars
  <2>1. UNCHANGED <<pc2, lines, child, writer, data2>>
    BY <1>3 DEF pipeVars
  <2>2. PipeShapes
    BY DEF PipeInv
  <2>3. \A n \in Lab2!LineNo :
          PipeChildMoves(n) /\ PipeWriterMoves(n) /\ data2'[n] \in 0..PipeSize
    BY <2>1, <2>2 DEF PipeShapes, PipeChildMoves, PipeWriterMoves
  <2> QED
    BY <2>1, <2>2, <2>3, PipeProcessesMove DEF PipeShapes
<1> QED
  BY <1>1, <1>2, <1>3, PipeEndOfInputInv, PipeForkInv, PipeWaitpidInv, PipeChildHandlerInv,
     PipeCtrlCInv DEF Lab2!Next, Lab2!ShellStep

------------------------------------------------------------------------------
(* The families.  Family is Families; what its programs have in common is  *)
(* read off their lists of calls once, and the rest uses that.             *)

LEMMA FamilyConstants == Kills \in Nat /\ Room \in Nat \ {0} /\ Output \in Nat
  BY ShellsAssumption DEF Family!FamilyAssumption

Programs == {"ch05_ex02", "ch05_ex03", "ch05_ex04", "ch05_ex05", "ch05_ex06", "ch06_exercise",
             "ch06_2_ex01", "ch07_ex01", "ch07_ex02", "ch07_ex03"}
\* Those that wait for one child and those with a pipe.
OneWait == {"ch05_ex03", "ch05_ex05", "ch05_ex06"}
WithPipe == {"ch07_ex01", "ch07_ex02", "ch07_ex03"}

\* Call x is at place k of the list of p in program g, which has n calls.
CallFacts(g, p, k, n, x) ==
  /\ x.op \in {"fork", "exec", "more"} => x.jump \in 1..(n + 1)
  /\ x.op = "again" => x.jump \in 1..(n + 1)
  /\ x.op = "fork" =>
       \/ p = "main" /\ x.arg = "c1" /\ k = 1 /\ g \in OneWait \cup {"ch05_ex02"} /\ x.jump = 3
       \/ p = "main" /\ x.arg = "c1" /\ k = 1 /\ g \in {"ch05_ex04", "ch06_exercise"}
          /\ x.jump = 4
       \/ p = "main" /\ x.arg = "c1" /\ k = 1 /\ g = "ch06_2_ex01" /\ x.jump = 3
       \/ p = "main" /\ x.arg = "c1" /\ k = 2 /\ g \in WithPipe /\ x.jump = 7
       \/ p = "main" /\ x.arg = "c2" /\ k = 2 /\ g \in {"ch05_ex04", "ch06_exercise"}
          /\ x.jump = 4
       \/ p = "main" /\ x.arg = "c2" /\ k = 2 /\ g = "ch06_2_ex01" /\ x.jump = 3
       \/ p = "c2" /\ x.arg = "c3" /\ k = 2 /\ g = "ch06_2_ex01" /\ x.jump = 5
  /\ x.op = "wait" =>
       \/ p = "main" /\ k = 2 /\ g \in OneWait /\ x.arg \in {"c1", "none"}
       \/ p = "main" /\ k = 6 /\ g \in WithPipe /\ x.arg = "c1"
       \/ p = "main" /\ k = 4 /\ g = "ch06_2_ex01" /\ x.arg = "c2"
       \/ p = "main" /\ k = 5 /\ g = "ch06_2_ex01" /\ x.arg = "c1"
       \/ p = "c2" /\ k = 3 /\ g = "ch06_2_ex01" /\ x.arg = "none"
       \/ p = "c2" /\ k \in {6, 7} /\ g = "ch06_2_ex01" /\ x.arg \in {"c1", "c2"}
  /\ x.op = "poll" => p = "main" /\ k = 3 /\ g = "ch05_ex04"
  /\ x.op = "exec" => x.jump > k /\ (p = "c1" \/ (p = "c2" /\ g = "ch06_exercise"))
  /\ x.op \in {"readall", "more", "again"} => p = "c1"
  /\ x.op = "work" =>
       /\ p = "main" => (k = 2 /\ g = "ch05_ex02") \/ (k = 3 /\ g = "ch06_2_ex01")
       /\ p = "c2" /\ g = "ch06_2_ex01" => k = 5
  /\ x.op = "setpgid" => p = "c2" /\ k = 1 /\ g = "ch06_2_ex01"
  /\ x.op = "killgroup" => p = "c3" /\ g = "ch06_2_ex01"
  /\ x.op = "exit" => p = "c2" /\ k = 4 /\ g = "ch06_2_ex01"
  /\ x.op = "pipe" => p = "main" /\ k = 1 /\ g \in WithPipe
  /\ x.op \in {"close", "dup", "read"} =>
       (p = "main" /\ g \in WithPipe /\ k \in 3..5) \/ p = "c1"
  /\ x.op = "write" => (p = "main" /\ g = "ch07_ex01" /\ k = 4) \/ p = "c1"

ListFacts(g, p, list) ==
  /\ Len(list) \in Nat
  /\ \A k \in 1..Len(list) : CallFacts(g, p, k, Len(list), list[k])

\* What is known of each list, and the lengths of those that fork.
FactsOf(g) ==
  /\ \A p \in Family!Process : ListFacts(g, p, Family!Code[g][p])
  /\ g \in OneWait \cup {"ch05_ex02"} => Len(Family!Code[g]["main"]) = 2
  /\ g \in {"ch05_ex04", "ch06_exercise"} => Len(Family!Code[g]["main"]) = 3
  /\ g \in WithPipe => Len(Family!Code[g]["main"]) = 6
  /\ g = "ch06_2_ex01" => Len(Family!Code[g]["main"]) = 5 /\ Len(Family!Code[g]["c2"]) = 7

LEMMA ProgramList == DOMAIN Family!Code = Programs
  BY DEF Family!Code, Programs

\* Lists that only work, or execute a program and work.
LEMMA EmptyList == ASSUME NEW g, NEW p PROVE ListFacts(g, p, <<>>)
  BY DEF ListFacts

LEMMA WorkList ==
  ASSUME NEW g, NEW p \in {"c1", "c2"}, p = "c2" => g # "ch06_2_ex01"
  PROVE  ListFacts(g, p, <<Family!Work>>)
  BY DEF ListFacts, CallFacts, Family!Work, Family!Call

LEMMA ExecList ==
  ASSUME NEW g, NEW p \in {"c1", "c2"}, p = "c2" => g = "ch06_exercise"
  PROVE  ListFacts(g, p, <<Family!Exec(3), Family!Work>>)
  BY DEF ListFacts, CallFacts, Family!Exec, Family!Work, Family!Call

\* Each program, list by list.
LEMMA Ch05Facts ==
  /\ FactsOf("ch05_ex02") /\ FactsOf("ch05_ex03") /\ FactsOf("ch05_ex04")
  /\ FactsOf("ch05_ex05") /\ FactsOf("ch05_ex06")
<1>1. FactsOf("ch05_ex02")
  <2>1. Family!Code["ch05_ex02"] = Family!Ch05Ex02
    BY DEF Family!Code
  <2>2. \A p \in Family!Process : ListFacts("ch05_ex02", p, Family!Ch05Ex02[p])
    <3>1. ListFacts("ch05_ex02", "main", Family!Ch05Ex02["main"])
      BY DEF ListFacts, CallFacts, OneWait, WithPipe, Family!Ch05Ex02, Family!Family,
              Family!None, Family!Call, Family!Fork, Family!Work
    <3>2. ListFacts("ch05_ex02", "c1", Family!Ch05Ex02["c1"])
      BY WorkList DEF Family!Ch05Ex02, Family!Family
    <3>3. ListFacts("ch05_ex02", "c2", Family!Ch05Ex02["c2"])
      BY EmptyList DEF Family!Ch05Ex02, Family!Family
    <3>4. ListFacts("ch05_ex02", "c3", Family!Ch05Ex02["c3"])
      BY EmptyList DEF Family!Ch05Ex02, Family!Family
    <3> QED
      BY <3>1, <3>2, <3>3, <3>4 DEF Family!Process
  <2>3. Len(Family!Ch05Ex02["main"]) = 2
    BY DEF Family!Ch05Ex02, Family!Family
  <2> QED
    BY <2>1, <2>2, <2>3 DEF FactsOf, OneWait, WithPipe
<1>2. FactsOf("ch05_ex03")
  <2>1. Family!Code["ch05_ex03"] = Family!Ch05Ex03
    BY DEF Family!Code
  <2>2. \A p \in Family!Process : ListFacts("ch05_ex03", p, Family!Ch05Ex03[p])
    <3>1. ListFacts("ch05_ex03", "main", Family!Ch05Ex03["main"])
      BY DEF ListFacts, CallFacts, OneWait, WithPipe, Family!Ch05Ex03, Family!Family,
              Family!None, Family!Call, Family!Fork, Family!Wait, Family!Work
    <3>2. ListFacts("ch05_ex03", "c1", Family!Ch05Ex03["c1"])
      BY WorkList DEF Family!Ch05Ex03, Family!Family
    <3>3. ListFacts("ch05_ex03", "c2", Family!Ch05Ex03["c2"])
      BY EmptyList DEF Family!Ch05Ex03, Family!Family
    <3>4. ListFacts("ch05_ex03", "c3", Family!Ch05Ex03["c3"])
      BY EmptyList DEF Family!Ch05Ex03, Family!Family
    <3> QED
      BY <3>1, <3>2, <3>3, <3>4 DEF Family!Process
  <2>3. Len(Family!Ch05Ex03["main"]) = 2
    BY DEF Family!Ch05Ex03, Family!Family
  <2> QED
    BY <2>1, <2>2, <2>3 DEF FactsOf, OneWait, WithPipe
<1>3. FactsOf("ch05_ex04")
  <2>1. Family!Code["ch05_ex04"] = Family!Ch05Ex04
    BY DEF Family!Code
  <2>2. \A p \in Family!Process : ListFacts("ch05_ex04", p, Family!Ch05Ex04[p])
    <3>1. ListFacts("ch05_ex04", "main", Family!Ch05Ex04["main"])
      BY DEF ListFacts, CallFacts, OneWait, WithPipe, Family!Ch05Ex04, Family!Family,
              Family!None, Family!Call, Family!Fork, Family!Poll, Family!Work
    <3>2. ListFacts("ch05_ex04", "c1", Family!Ch05Ex04["c1"])
      BY WorkList DEF Family!Ch05Ex04, Family!Family
    <3>3. ListFacts("ch05_ex04", "c2", Family!Ch05Ex04["c2"])
      BY WorkList DEF Family!Ch05Ex04, Family!Family
    <3>4. ListFacts("ch05_ex04", "c3", Family!Ch05Ex04["c3"])
      BY EmptyList DEF Family!Ch05Ex04, Family!Family
    <3> QED
      BY <3>1, <3>2, <3>3, <3>4 DEF Family!Process
  <2>3. Len(Family!Ch05Ex04["main"]) = 3
    BY DEF Family!Ch05Ex04, Family!Family
  <2> QED
    BY <2>1, <2>2, <2>3 DEF FactsOf, OneWait, WithPipe
<1>4. FactsOf("ch05_ex05")
  <2>1. Family!Code["ch05_ex05"] = Family!Ch05Ex05
    BY DEF Family!Code
  <2>2. \A p \in Family!Process : ListFacts("ch05_ex05", p, Family!Ch05Ex05[p])
    <3>1. ListFacts("ch05_ex05", "main", Family!Ch05Ex05["main"])
      BY DEF ListFacts, CallFacts, OneWait, WithPipe, Family!Ch05Ex05, Family!Family,
              Family!None, Family!Call, Family!Fork, Family!WaitAny, Family!Work
    <3>2. ListFacts("ch05_ex05", "c1", Family!Ch05Ex05["c1"])
      BY WorkList DEF Family!Ch05Ex05, Family!Family
    <3>3. ListFacts("ch05_ex05", "c2", Family!Ch05Ex05["c2"])
      BY EmptyList DEF Family!Ch05Ex05, Family!Family
    <3>4. ListFacts("ch05_ex05", "c3", Family!Ch05Ex05["c3"])
      BY EmptyList DEF Family!Ch05Ex05, Family!Family
    <3> QED
      BY <3>1, <3>2, <3>3, <3>4 DEF Family!Process
  <2>3. Len(Family!Ch05Ex05["main"]) = 2
    BY DEF Family!Ch05Ex05, Family!Family
  <2> QED
    BY <2>1, <2>2, <2>3 DEF FactsOf, OneWait, WithPipe
<1>5. FactsOf("ch05_ex06")
  <2>1. Family!Code["ch05_ex06"] = Family!Ch05Ex06
    BY DEF Family!Code
  <2>2. \A p \in Family!Process : ListFacts("ch05_ex06", p, Family!Ch05Ex06[p])
    <3>1. ListFacts("ch05_ex06", "main", Family!Ch05Ex06["main"])
      BY DEF ListFacts, CallFacts, OneWait, WithPipe, Family!Ch05Ex06, Family!Family,
              Family!None, Family!Call, Family!Fork, Family!Exec, Family!WaitAny, Family!Work
    <3>2. ListFacts("ch05_ex06", "c1", Family!Ch05Ex06["c1"])
      BY ExecList DEF Family!Ch05Ex06, Family!Family
    <3>3. ListFacts("ch05_ex06", "c2", Family!Ch05Ex06["c2"])
      BY EmptyList DEF Family!Ch05Ex06, Family!Family
    <3>4. ListFacts("ch05_ex06", "c3", Family!Ch05Ex06["c3"])
      BY EmptyList DEF Family!Ch05Ex06, Family!Family
    <3> QED
      BY <3>1, <3>2, <3>3, <3>4 DEF Family!Process
  <2>3. Len(Family!Ch05Ex06["main"]) = 2
    BY DEF Family!Ch05Ex06, Family!Family
  <2> QED
    BY <2>1, <2>2, <2>3 DEF FactsOf, OneWait, WithPipe
<1> QED
  BY <1>1, <1>2, <1>3, <1>4, <1>5

LEMMA Ch06Facts ==
  FactsOf("ch06_exercise") /\ FactsOf("ch06_2_ex01")
<1>1. FactsOf("ch06_exercise")
  <2>1. Family!Code["ch06_exercise"] = Family!Ch06Exercise
    BY DEF Family!Code
  <2>2. \A p \in Family!Process : ListFacts("ch06_exercise", p, Family!Ch06Exercise[p])
    <3>1. ListFacts("ch06_exercise", "main", Family!Ch06Exercise["main"])
      BY DEF ListFacts, CallFacts, OneWait, WithPipe, Family!Ch06Exercise, Family!Family,
              Family!None, Family!Call, Family!Fork, Family!Exec, Family!Work, Family!Forever
    <3>2. ListFacts("ch06_exercise", "c1", Family!Ch06Exercise["c1"])
      BY ExecList DEF Family!Ch06Exercise, Family!Family
    <3>3. ListFacts("ch06_exercise", "c2", Family!Ch06Exercise["c2"])
      BY ExecList DEF Family!Ch06Exercise, Family!Family
    <3>4. ListFacts("ch06_exercise", "c3", Family!Ch06Exercise["c3"])
      BY EmptyList DEF Family!Ch06Exercise, Family!Family
    <3> QED
      BY <3>1, <3>2, <3>3, <3>4 DEF Family!Process
  <2>3. Len(Family!Ch06Exercise["main"]) = 3
    BY DEF Family!Ch06Exercise, Family!Family
  <2> QED
    BY <2>1, <2>2, <2>3 DEF FactsOf, OneWait, WithPipe
<1>2. FactsOf("ch06_2_ex01")
  <2>1. Family!Code["ch06_2_ex01"] = Family!Ch062Ex01
    BY DEF Family!Code
  <2>2. \A p \in Family!Process : ListFacts("ch06_2_ex01", p, Family!Ch062Ex01[p])
    <3>1. ListFacts("ch06_2_ex01", "main", Family!Ch062Ex01["main"])
      BY DEF ListFacts, CallFacts, OneWait, WithPipe, Family!Ch062Ex01, Family!Family,
              Family!None, Family!Call, Family!Fork, Family!Wait, Family!WaitAny, Family!Work,
              Family!Exit, Family!Setpgid, Family!KillGroup
    <3>2. ListFacts("ch06_2_ex01", "c1", Family!Ch062Ex01["c1"])
      BY WorkList DEF Family!Ch062Ex01, Family!Family
    <3>3. ListFacts("ch06_2_ex01", "c2", Family!Ch062Ex01["c2"])
      BY DEF ListFacts, CallFacts, OneWait, WithPipe, Family!Ch062Ex01, Family!Family,
              Family!None, Family!Call, Family!Fork, Family!Wait, Family!WaitAny, Family!Work,
              Family!Exit, Family!Setpgid, Family!KillGroup
    <3>4. ListFacts("ch06_2_ex01", "c3", Family!Ch062Ex01["c3"])
      BY DEF ListFacts, CallFacts, OneWait, WithPipe, Family!Ch062Ex01, Family!Family,
              Family!None, Family!Call, Family!Fork, Family!Wait, Family!WaitAny, Family!Work,
              Family!Exit, Family!Setpgid, Family!KillGroup
    <3> QED
      BY <3>1, <3>2, <3>3, <3>4 DEF Family!Process
  <2>3. Len(Family!Ch062Ex01["main"]) = 5 /\ Len(Family!Ch062Ex01["c2"]) = 7
    BY DEF Family!Ch062Ex01, Family!Family
  <2> QED
    BY <2>1, <2>2, <2>3 DEF FactsOf, OneWait, WithPipe
<1> QED
  BY <1>1, <1>2

LEMMA Ch07Facts ==
  /\ FactsOf("ch07_ex01") /\ FactsOf("ch07_ex02") /\ FactsOf("ch07_ex03")
<1>1. FactsOf("ch07_ex01")
  <2>1. Family!Code["ch07_ex01"] = Family!Ch07Ex01
    BY DEF Family!Code
  <2>2. \A p \in Family!Process : ListFacts("ch07_ex01", p, Family!Ch07Ex01[p])
    <3>1. ListFacts("ch07_ex01", "main", Family!Ch07Ex01["main"])
      BY DEF ListFacts, CallFacts, OneWait, WithPipe, Family!Ch07Ex01, Family!Family,
              Family!None, Family!Call, Family!Fork, Family!Exec, Family!Wait, Family!Pipe,
              Family!Close, Family!Write, Family!ReadAll
    <3>2. ListFacts("ch07_ex01", "c1", Family!Ch07Ex01["c1"])
      BY DEF ListFacts, CallFacts, OneWait, WithPipe, Family!Ch07Ex01, Family!Family,
              Family!None, Family!Call, Family!Fork, Family!Exec, Family!Wait, Family!Pipe,
              Family!Close, Family!Write, Family!ReadAll
    <3>3. ListFacts("ch07_ex01", "c2", Family!Ch07Ex01["c2"])
      BY EmptyList DEF Family!Ch07Ex01, Family!Family
    <3>4. ListFacts("ch07_ex01", "c3", Family!Ch07Ex01["c3"])
      BY EmptyList DEF Family!Ch07Ex01, Family!Family
    <3> QED
      BY <3>1, <3>2, <3>3, <3>4 DEF Family!Process
  <2>3. Len(Family!Ch07Ex01["main"]) = 6
    BY DEF Family!Ch07Ex01, Family!Family
  <2> QED
    BY <2>1, <2>2, <2>3 DEF FactsOf, OneWait, WithPipe
<1>2. FactsOf("ch07_ex02")
  <2>1. Family!Code["ch07_ex02"] = Family!Ch07Ex02
    BY DEF Family!Code
  <2>2. \A p \in Family!Process : ListFacts("ch07_ex02", p, Family!Ch07Ex02[p])
    <3>1. ListFacts("ch07_ex02", "main", Family!Ch07Ex02["main"])
      BY DEF ListFacts, CallFacts, OneWait, WithPipe, Family!Ch07Ex02, Family!Family,
              Family!None, Family!Call, Family!Fork, Family!Wait, Family!Pipe, Family!Close,
              Family!Write, Family!Read
    <3>2. ListFacts("ch07_ex02", "c1", Family!Ch07Ex02["c1"])
      BY DEF ListFacts, CallFacts, OneWait, WithPipe, Family!Ch07Ex02, Family!Family,
              Family!None, Family!Call, Family!Fork, Family!Wait, Family!Pipe, Family!Close,
              Family!Write, Family!Read
    <3>3. ListFacts("ch07_ex02", "c2", Family!Ch07Ex02["c2"])
      BY EmptyList DEF Family!Ch07Ex02, Family!Family
    <3>4. ListFacts("ch07_ex02", "c3", Family!Ch07Ex02["c3"])
      BY EmptyList DEF Family!Ch07Ex02, Family!Family
    <3> QED
      BY <3>1, <3>2, <3>3, <3>4 DEF Family!Process
  <2>3. Len(Family!Ch07Ex02["main"]) = 6
    BY DEF Family!Ch07Ex02, Family!Family
  <2> QED
    BY <2>1, <2>2, <2>3 DEF FactsOf, OneWait, WithPipe
<1>3. FactsOf("ch07_ex03")
  <2>1. Family!Code["ch07_ex03"] = Family!Ch07Ex03
    BY DEF Family!Code
  <2>2. \A p \in Family!Process : ListFacts("ch07_ex03", p, Family!Ch07Ex03[p])
    <3>1. ListFacts("ch07_ex03", "main", Family!Ch07Ex03["main"])
      BY DEF ListFacts, CallFacts, OneWait, WithPipe, Family!Ch07Ex03, Family!Family,
              Family!None, Family!Call, Family!Fork, Family!Exec, Family!Wait, Family!Pipe,
              Family!Close, Family!DupOut, Family!Write, Family!Read, Family!More, Family!Again
    <3>2. ListFacts("ch07_ex03", "c1", Family!Ch07Ex03["c1"])
      BY DEF ListFacts, CallFacts, OneWait, WithPipe, Family!Ch07Ex03, Family!Family,
              Family!None, Family!Call, Family!Fork, Family!Exec, Family!Wait, Family!Pipe,
              Family!Close, Family!DupOut, Family!Write, Family!Read, Family!More, Family!Again
    <3>3. ListFacts("ch07_ex03", "c2", Family!Ch07Ex03["c2"])
      BY EmptyList DEF Family!Ch07Ex03, Family!Family
    <3>4. ListFacts("ch07_ex03", "c3", Family!Ch07Ex03["c3"])
      BY EmptyList DEF Family!Ch07Ex03, Family!Family
    <3> QED
      BY <3>1, <3>2, <3>3, <3>4 DEF Family!Process
  <2>3. Len(Family!Ch07Ex03["main"]) = 6
    BY DEF Family!Ch07Ex03, Family!Family
  <2> QED
    BY <2>1, <2>2, <2>3 DEF FactsOf, OneWait, WithPipe
<1> QED
  BY <1>1, <1>2, <1>3

LEMMA AllFacts == ASSUME NEW g \in DOMAIN Family!Code PROVE FactsOf(g)
  BY ProgramList, Ch05Facts, Ch06Facts, Ch07Facts DEF Programs

\* What is known of the call that p is at.
LEMMA CallOf ==
  ASSUME prog \in DOMAIN Family!Code, code = Family!Code[prog],
         NEW p \in Family!Process, pc3[p] \in 1..(Len(code[p]) + 1), NEW o, Family!At(p, o)
  PROVE  /\ CallFacts(prog, p, pc3[p], Len(code[p]), code[p][pc3[p]])
         /\ code[p][pc3[p]].op = o
         /\ Len(code[p]) \in Nat /\ pc3[p] \in 1..Len(code[p])
         /\ Family!Alive(p) /\ p \notin struck3
<1>1. FactsOf(prog)
  BY AllFacts
<1>2. ListFacts(prog, p, code[p])
  BY <1>1 DEF FactsOf
<1>3. Len(code[p]) \in Nat
  BY <1>2 DEF ListFacts
<1>4. pc3[p] \in 1..Len(code[p])
  BY <1>3 DEF Family!At, Family!Ended
<1>5. CallFacts(prog, p, pc3[p], Len(code[p]), code[p][pc3[p]])
  BY <1>2, <1>4 DEF ListFacts
<1> QED
  BY <1>3, <1>4, <1>5 DEF Family!At

FamilyShapes ==
  /\ prog \in DOMAIN Family!Code /\ code = Family!Code[prog]
  /\ pc3 \in [Family!Process -> Nat]
  /\ \A p \in Family!Process : pc3[p] \in 1..(Len(code[p]) + 1)
  /\ life \in [Family!Process -> {"none", "alive", "zombie", "gone"}]
  /\ parent \in [Family!Process -> Family!Process \cup {"init"}]
  /\ group \in [Family!Process -> {"main", "c2"}]
  /\ cause \in [Family!Process -> {"none", "exit", "USR1", "KILL", "PIPE"}]
  /\ struck3 \subseteq {"c2", "c3"}
  /\ \A p \in struck3 : life[p] = "alive"

\* What is in the pipe and who holds it, and the counters.
FamilyData ==
  /\ DOMAIN ends = Family!Process
  /\ \A p \in Family!Process :
       ends[p] \subseteq {"r", "w", "1"} /\ (ends[p] # {} => life[p] = "alive")
  /\ data3 \in 0..Room /\ listed \in 0..Output /\ kills \in 0..Kills

IsChild(c, p) == parent[c] = p /\ life[c] \in {"alive", "zombie"}

\* Who may be the parent of whom.
FamilyTree ==
  /\ life["main"] # "none" /\ parent["main"] = "init"
  /\ parent["c1"] \in {"init", "main"} /\ parent["c2"] \in {"init", "main"}
  /\ parent["c3"] \in {"init", "c2"}
  /\ \A c, p \in Family!Process : IsChild(c, p) => life[p] = "alive"
  /\ \A c \in Family!Process : life[c] = "zombie" => parent[c] # "init"
  /\ \A c \in {"c1", "c2"} : life[c] # "none" /\ parent[c] = "init" => life["main"] # "alive"
  /\ \A p \in Family!Process : life[p] \in {"none", "alive"} => cause[p] = "none"
  /\ \A p \in Family!Process : life[p] = "none" => pc3[p] = 1 /\ parent[p] = "init"

\* A child is there only behind its fork(), so that no fork() makes it again.
FamilyForks ==
  /\ life["c1"] # "none" => pc3["main"] > (IF prog \in WithPipe THEN 2 ELSE 1)
  /\ life["c2"] # "none" =>
       pc3["main"] > 2 /\ prog \in {"ch05_ex04", "ch06_exercise", "ch06_2_ex01"}
  /\ life["c3"] # "none" => pc3["c2"] > 2 /\ prog = "ch06_2_ex01"

\* In ch06-2/ex01.c, SIGUSR1 goes to the group of child2.
FamilyGroups ==
  /\ group["main"] = "main" /\ group["c1"] = "main"
  /\ prog = "ch06_2_ex01" /\ pc3["c2"] > 1 => group["c2"] = "c2"
  /\ life["c3"] # "none" => group["c3"] = "c2"

\* Behind its waits a process has no child left, unless a fork() has failed.
FamilyWaited ==
  /\ prog \in OneWait /\ pc3["main"] = 3 => ~IsChild("c1", "main")
  /\ prog = "ch05_ex04" /\ pc3["main"] = 4 =>
       life["c2"] = "none" \/ ~(IsChild("c1", "main") \/ IsChild("c2", "main"))
  /\ prog = "ch06_exercise" /\ pc3["main"] = 4 => life["c2"] = "none"
  /\ prog = "ch06_2_ex01" /\ pc3["main"] > 4 => ~IsChild("c2", "main")
  /\ prog = "ch06_2_ex01" /\ pc3["main"] > 5 => ~IsChild("c1", "main")
  /\ prog \in WithPipe /\ pc3["main"] = 7 => ~IsChild("c1", "main")
  /\ pc3["c2"] = 4 => ~IsChild("c3", "c2")
  /\ pc3["c2"] > 4 => life["c3"] = "none" \/ ~IsChild("c3", "c2")

FamilyInv ==
  /\ FamilyShapes /\ FamilyData /\ FamilyTree /\ FamilyForks /\ FamilyGroups /\ FamilyWaited
  /\ Family!OrphansExplained

\* The end of p, whatever the cause: its children are orphans, and somebody explains it.
LEMMA DiesInv ==
  ASSUME FamilyInv, NEW p \in Family!Process, life[p] = "alive",
         NEW why \in {"exit", "USR1", "KILL", "PIPE"}, Family!Dies(p, why),
         UNCHANGED <<prog, code, pc3, group, listed, data3>>, kills' \in 0..Kills,
         why = "USR1" => p \in {"c2", "c3"},
         \A c \in Family!Process \ {"main"} : IsChild(c, p) =>
           \/ prog = "ch05_ex02"
           \/ prog \in {"ch05_ex04", "ch06_exercise"} /\ life["c2"] = "none"
           \/ prog = "ch07_ex01" /\ p = "main" /\ why = "PIPE"
           \/ c = "c3" /\ p = "c2" /\ why \in {"USR1", "KILL"}
  PROVE  FamilyInv'
<1>1. FamilyShapes /\ FamilyData /\ FamilyTree /\ Family!OrphansExplained
  BY DEF FamilyInv
<1>2. /\ DOMAIN life = Family!Process /\ DOMAIN parent = Family!Process
      /\ DOMAIN cause = Family!Process
  BY <1>1 DEF FamilyShapes
<1>3. /\ DOMAIN life' = Family!Process
      /\ life'[p] \in {"gone", "zombie"}
      /\ life'[p] = "zombie" => parent[p] # "init"
      /\ \A c \in Family!Process \ {p} :
           life'[c] = IF parent[c] = p /\ life[c] = "zombie" THEN "gone" ELSE life[c]
  BY DEF Family!Dies, Family!Root
<1>4. /\ DOMAIN parent' = Family!Process
      /\ \A c \in Family!Process : parent'[c] = IF IsChild(c, p) THEN "init" ELSE parent[c]
  BY DEF Family!Dies, Family!Root, Family!Children, IsChild
<1>5. /\ DOMAIN cause' = Family!Process /\ cause'[p] = why
      /\ \A c \in Family!Process \ {p} : cause'[c] = cause[c]
  BY <1>2 DEF Family!Dies
<1>6. struck3' = struck3 \ {p} /\ ends' = [ends EXCEPT ![p] = {}]
  BY DEF Family!Dies
<1>7. p \in Family!Process /\ parent[p] # p
  BY <1>1 DEF FamilyTree, Family!Process
<1>8. \A c \in Family!Process : life'[c] = "none" <=> life[c] = "none"
  BY <1>3
<1>9. ASSUME NEW c \in Family!Process, NEW q \in Family!Process
      PROVE  IsChild(c, q)' => IsChild(c, q)
  BY <1>3, <1>4 DEF IsChild, Family!Process
<1>10. FamilyShapes'
  <2>1. life' \in [Family!Process -> {"none", "alive", "zombie", "gone"}]
    <3>1. \A c \in Family!Process : life'[c] \in {"none", "alive", "zombie", "gone"}
      BY <1>1, <1>3 DEF FamilyShapes
    <3>2. life' = [c \in Family!Process |-> life'[c]]
      BY DEF Family!Dies
    <3> QED
      BY <3>1, <3>2
  <2>2. parent' \in [Family!Process -> Family!Process \cup {"init"}]
    <3>1. \A c \in Family!Process : parent'[c] \in Family!Process \cup {"init"}
      BY <1>1, <1>4 DEF FamilyShapes
    <3>2. parent' = [c \in Family!Process |-> parent'[c]]
      BY DEF Family!Dies
    <3> QED
      BY <3>1, <3>2
  <2>3. cause' \in [Family!Process -> {"none", "exit", "USR1", "KILL", "PIPE"}]
    BY <1>1 DEF FamilyShapes, Family!Dies
  <2>4. \A q \in struck3' : life'[q] = "alive"
    <3> SUFFICES ASSUME NEW q \in struck3' PROVE life'[q] = "alive"
      OBVIOUS
    <3>1. q \in struck3 /\ q # p /\ q \in Family!Process
      BY <1>1, <1>6 DEF FamilyShapes, Family!Process
    <3>2. life[q] = "alive"
      BY <1>1, <3>1 DEF FamilyShapes
    <3> QED
      BY <1>3, <3>1, <3>2
  <2> QED
    BY <1>1, <1>6, <2>1, <2>2, <2>3, <2>4 DEF FamilyShapes
<1>11. FamilyData'
  <2>1. DOMAIN ends' = Family!Process /\ ends'[p] = {}
    BY <1>1, <1>6 DEF FamilyData
  <2>2. \A q \in Family!Process \ {p} : ends'[q] = ends[q]
    BY <1>1, <1>6 DEF FamilyData
  <2>3. \A q \in Family!Process \ {p} : ends'[q] # {} => life'[q] = "alive"
    BY <1>1, <1>3, <2>2 DEF FamilyData
  <2>4. \A q \in Family!Process : ends'[q] \subseteq {"r", "w", "1"}
    BY <1>1, <2>1, <2>2 DEF FamilyData
  <2> QED
    BY <1>1, <2>1, <2>3, <2>4 DEF FamilyData
<1>12. FamilyTree'
  <2>1. life'["main"] # "none" /\ parent'["main"] = "init"
    BY <1>1, <1>4, <1>8 DEF FamilyTree, Family!Process
  <2>2. /\ parent'["c1"] \in {"init", "main"} /\ parent'["c2"] \in {"init", "main"}
        /\ parent'["c3"] \in {"init", "c2"}
    BY <1>1, <1>4 DEF FamilyTree, Family!Process
  <2>3. ASSUME NEW c \in Family!Process, NEW q \in Family!Process, IsChild(c, q)'
        PROVE  life'[q] = "alive"
    <3>1. IsChild(c, q) /\ q # p
      <4>1. IsChild(c, q)
        BY <1>9, <2>3
      <4>2. q # p
        BY <1>4, <2>3, <4>1 DEF IsChild, Family!Process
      <4> QED
        BY <4>1, <4>2
    <3>2. life[q] = "alive"
      BY <1>1, <3>1 DEF FamilyTree
    <3> QED
      BY <1>3, <3>1, <3>2
  <2>4. \A c \in Family!Process : life'[c] = "zombie" => parent'[c] # "init"
    BY <1>1, <1>3, <1>4, <1>7 DEF FamilyTree, IsChild
  <2>5. ASSUME NEW c \in {"c1", "c2"}, life'[c] # "none", parent'[c] = "init"
        PROVE  life'["main"] # "alive"
    <3>1. c \in Family!Process /\ "main" \in Family!Process
      BY DEF Family!Process
    <3>2. CASE IsChild(c, p)
      <4>1. p = "main"
        BY <1>1, <3>2 DEF IsChild, FamilyTree, Family!Process
      <4> QED
        BY <1>3, <4>1
    <3>3. CASE ~IsChild(c, p)
      <4>1. parent[c] = "init" /\ life[c] # "none"
        BY <1>4, <1>8, <2>5, <3>1, <3>3
      <4>2. life["main"] # "alive"
        BY <1>1, <4>1 DEF FamilyTree
      <4> QED
        BY <1>3, <3>1, <4>2
    <3> QED
      BY <3>2, <3>3
  <2>6. \A c \in Family!Process : life'[c] \in {"none", "alive"} => cause'[c] = "none"
    BY <1>1, <1>3, <1>5 DEF FamilyTree
  <2>7. \A c \in Family!Process : life'[c] = "none" => pc3'[c] = 1 /\ parent'[c] = "init"
    BY <1>1, <1>4, <1>8 DEF FamilyTree
  <2> QED
    BY <2>1, <2>2, <2>3, <2>4, <2>5, <2>6, <2>7 DEF FamilyTree
<1>13. FamilyForks' /\ FamilyGroups'
  BY <1>8 DEF FamilyInv, FamilyForks, FamilyGroups, Family!Process
<1>14. FamilyWaited'
  <2>1. /\ life'["c2"] = "none" <=> life["c2"] = "none"
        /\ life'["c3"] = "none" <=> life["c3"] = "none"
        /\ IsChild("c1", "main")' => IsChild("c1", "main")
        /\ IsChild("c2", "main")' => IsChild("c2", "main")
        /\ IsChild("c3", "c2")' => IsChild("c3", "c2")
    BY <1>8, <1>9 DEF Family!Process
  <2> QED
    BY <2>1 DEF FamilyInv, FamilyWaited
<1>15. Family!OrphansExplained'
  <2>1. ASSUME NEW c \in Family!Process \ {"main"}, life'[c] # "none", parent'[c] = "init"
        PROVE  \/ prog' = "ch05_ex02"
               \/ prog' \in {"ch05_ex04", "ch06_exercise"} /\ life'["c2"] = "none"
               \/ prog' = "ch07_ex01" /\ cause'["main"] = "PIPE"
               \/ c = "c3" /\ cause'["c2"] \in {"USR1", "KILL"}
    <3>1. \A q \in Family!Process : cause'[q] # cause[q] => cause[q] = "none"
      BY <1>1, <1>5 DEF FamilyTree
    <3>2. CASE IsChild(c, p)
      BY <1>5, <1>8, <3>2 DEF Family!Process
    <3>3. CASE ~IsChild(c, p)
      <4>1. parent[c] = "init" /\ life[c] # "none"
        BY <1>4, <1>8, <2>1, <3>3
      <4> QED
        BY <1>1, <1>8, <3>1, <4>1 DEF Family!OrphansExplained, Family!Root, Family!Process
    <3> QED
      BY <3>2, <3>3
  <2>2. \A q \in Family!Process : cause'[q] = "USR1" => q \in {"c2", "c3"}
    BY <1>1, <1>5 DEF Family!OrphansExplained
  <2> QED
    BY <2>1, <2>2 DEF Family!OrphansExplained, Family!Root
<1> QED
  BY <1>10, <1>11, <1>12, <1>13, <1>14, <1>15 DEF FamilyInv

\* A call that changes no relation between the processes, and where it leads.
LEMMA QuietCall ==
  ASSUME FamilyInv, NEW p \in Family!Process,
         NEW o \in {"exec", "work", "setpgid", "killgroup", "pipe", "close", "dup", "write",
                    "more", "again", "read", "readall"},
         Family!At(p, o), UNCHANGED <<prog, code, life, parent, cause>>,
         NEW j, pc3' = [pc3 EXCEPT ![p] = j],
         \/ j = pc3[p] + 1
         \/ o = "readall" /\ j = pc3[p]
         \/ o \in {"exec", "more", "again"} /\ j = code[p][pc3[p]].jump
         \/ o = "pipe" /\ j = Len(code[p]) + 1,
         group' = IF o = "setpgid" THEN [group EXCEPT ![p] = p] ELSE group,
         struck3' = struck3 \cup
           (IF o = "killgroup"
            THEN {q \in Family!Process : Family!Alive(q) /\ group[q] = group[p]} ELSE {}),
         FamilyData'
  PROVE  FamilyInv'
<1>1. /\ FamilyShapes /\ FamilyTree /\ FamilyForks /\ FamilyGroups /\ FamilyWaited
      /\ Family!OrphansExplained
  BY DEF FamilyInv
<1>2. /\ CallFacts(prog, p, pc3[p], Len(code[p]), code[p][pc3[p]])
      /\ code[p][pc3[p]].op = o /\ Len(code[p]) \in Nat
      /\ pc3[p] \in 1..Len(code[p]) /\ life[p] = "alive"
  BY <1>1, CallOf DEF FamilyShapes, Family!Alive
<1>3. j \in 1..(Len(code[p]) + 1)
  BY <1>2 DEF CallFacts
<1>4. /\ pc3' \in [Family!Process -> Nat] /\ pc3'[p] = j
      /\ \A q \in Family!Process \ {p} : pc3'[q] = pc3[q]
  <2>1. j \in Nat
    BY <1>2, <1>3
  <2> QED
    BY <1>1, <2>1 DEF FamilyShapes
<1>5. FamilyShapes' /\ FamilyGroups'
  <2>1. CASE o = "setpgid"
    <3>1. p = "c2" /\ pc3[p] = 1 /\ prog = "ch06_2_ex01"
      BY <1>2, <2>1 DEF CallFacts
    <3>2. life["c3"] = "none"
      BY <1>1, <3>1 DEF FamilyForks
    <3>3. /\ group' \in [Family!Process -> {"main", "c2"}] /\ group'["c2"] = "c2"
          /\ group'["main"] = group["main"] /\ group'["c1"] = group["c1"]
      BY <1>1, <2>1, <3>1 DEF FamilyShapes, Family!Process
    <3>4. struck3' = struck3
      BY <2>1
    <3> QED
      BY <1>1, <1>3, <1>4, <3>2, <3>3, <3>4 DEF FamilyShapes, FamilyGroups, Family!Process
  <2>2. CASE o # "setpgid"
    <3>1. group' = group
      BY <2>2
    <3>2. prog = "ch06_2_ex01" /\ pc3'["c2"] > 1 => pc3["c2"] > 1
      BY <1>2, <1>4, <2>2 DEF CallFacts, Family!Process, WithPipe
    <3>3. FamilyGroups'
      BY <1>1, <3>1, <3>2 DEF FamilyGroups
    <3>4. \A q \in struck3' : q \in {"c2", "c3"} /\ life[q] = "alive"
      <4>1. CASE o = "killgroup"
        <5>1. p = "c3" /\ group[p] = "c2"
          BY <1>1, <1>2, <4>1 DEF CallFacts, FamilyGroups
        <5> QED
          BY <1>1, <4>1, <5>1 DEF FamilyShapes, FamilyGroups, Family!Process, Family!Alive
      <4>2. CASE o # "killgroup"
        BY <1>1, <4>2 DEF FamilyShapes
      <4> QED
        BY <4>1, <4>2
    <3>5. struck3' \subseteq {"c2", "c3"} /\ \A q \in struck3' : life'[q] = "alive"
      BY <3>4
    <3>6. \A q \in Family!Process : pc3'[q] \in 1..(Len(code'[q]) + 1)
      BY <1>1, <1>3, <1>4 DEF FamilyShapes
    <3>7. FamilyShapes'
      BY <1>1, <1>4, <3>1, <3>5, <3>6 DEF FamilyShapes
    <3> QED
      BY <3>3, <3>7
  <2> QED
    BY <2>1, <2>2
<1>6. FamilyTree' /\ Family!OrphansExplained'
  BY <1>1, <1>2, <1>4 DEF FamilyTree, IsChild, Family!OrphansExplained
<1>7. ASSUME p \in {"main", "c2"} PROVE j > pc3[p]
  BY <1>2, <1>7 DEF CallFacts
<1>8. FamilyForks'
  BY <1>1, <1>2, <1>3, <1>4, <1>7 DEF FamilyForks, Family!Process
<1>9. FamilyWaited'
  <2>1. UNCHANGED <<prog, life>> /\ \A c, q \in Family!Process : IsChild(c, q)' = IsChild(c, q)
    BY DEF IsChild
  <2>2. CASE p \in {"c1", "c3"}
    BY <1>1, <1>4, <2>1, <2>2 DEF FamilyWaited, Family!Process
  <2>3. CASE p = "main"
    <3>1. \/ prog = "ch05_ex02"
          \/ prog = "ch06_2_ex01" /\ j = 4
          \/ prog \in WithPipe /\ j \in 2..6
          \/ prog \in WithPipe /\ pc3[p] = 1
      BY <1>2, <2>3 DEF CallFacts, WithPipe
    <3>2. prog \in WithPipe /\ pc3[p] = 1 => life["c1"] = "none"
      BY <1>1, <2>3 DEF FamilyForks
    <3>3. pc3'["c2"] = pc3["c2"] /\ pc3'["main"] = j
      BY <1>4, <2>3 DEF Family!Process
    <3> QED
      BY <1>1, <2>1, <3>1, <3>2, <3>3 DEF FamilyWaited, IsChild, OneWait, WithPipe
  <2>4. CASE p = "c2"
    <3>1. \/ prog = "ch06_2_ex01" /\ pc3[p] \in {1, 5}
          \/ prog # "ch06_2_ex01"
      BY <1>2, <2>4 DEF CallFacts, WithPipe
    <3>2. prog # "ch06_2_ex01" => life["c3"] = "none"
      BY <1>1 DEF FamilyForks
    <3>3. pc3[p] = 1 => life["c3"] = "none"
      BY <1>1, <2>4 DEF FamilyForks
    <3>4. pc3'["main"] = pc3["main"] /\ pc3'["c2"] = j
      BY <1>4, <2>4 DEF Family!Process
    <3>5. life["c3"] = "none" \/ (pc3[p] = 5 /\ j = 6)
      BY <1>2, <3>1, <3>2, <3>3, <2>4 DEF CallFacts
    <3>6. pc3'["c2"] = 4 => ~IsChild("c3", "c2")
      BY <3>4, <3>5 DEF IsChild
    <3>7. pc3'["c2"] > 4 => life["c3"] = "none" \/ ~IsChild("c3", "c2")
      BY <1>1, <2>4, <3>5 DEF FamilyWaited
    <3> QED
      BY <1>1, <2>1, <3>4, <3>6, <3>7 DEF FamilyWaited, Family!Process
  <2> QED
    BY <2>2, <2>3, <2>4 DEF Family!Process
<1> QED
  BY <1>5, <1>6, <1>8, <1>9 DEF FamilyInv

\* Descriptors and data in the calls below.
LEMMA FamilyDataSame ==
  ASSUME FamilyData, UNCHANGED <<life, ends, data3, listed, kills>> PROVE FamilyData'
  BY DEF FamilyData

LEMMA QuietCallsInv ==
  ASSUME FamilyInv, NEW p \in Family!Process,
         \/ Family!ExecCall(p) \/ Family!WorkDone(p) \/ Family!SetpgidCall(p)
         \/ Family!KillGroupCall(p)
  PROVE  FamilyInv'
<1>1. FamilyShapes /\ FamilyData
  BY DEF FamilyInv
<1>2. UNCHANGED <<prog, code, life, parent, cause, ends, data3, listed, kills>>
  BY DEF Family!ExecCall, Family!WorkDone, Family!SetpgidCall, Family!KillGroupCall
<1>3. FamilyData'
  BY <1>1, <1>2, FamilyDataSame
<1>4. CASE Family!ExecCall(p)
  <2>1. PICK j : /\ j = pc3[p] + 1 \/ j = code[p][pc3[p]].jump
                 /\ pc3' = [pc3 EXCEPT ![p] = j]
    BY <1>1, <1>4 DEF Family!ExecCall, Family!Goes, Family!Jumps, FamilyShapes
  <2>2. Family!At(p, "exec") /\ UNCHANGED <<group, struck3>>
    BY <1>4 DEF Family!ExecCall
  <2>3. struck3' = struck3 \cup {}
    BY <2>2
  <2> QED
    BY <1>2, <1>3, <2>1, <2>2, <2>3, QuietCall
<1>5. CASE Family!WorkDone(p)
  <2>1. pc3' = [pc3 EXCEPT ![p] = pc3[p] + 1]
    BY <1>1, <1>5 DEF Family!WorkDone, Family!Goes, FamilyShapes
  <2>2. Family!At(p, "work") /\ UNCHANGED <<group, struck3>>
    BY <1>5 DEF Family!WorkDone
  <2>3. struck3' = struck3 \cup {}
    BY <2>2
  <2> QED
    BY <1>2, <1>3, <2>1, <2>2, <2>3, QuietCall
<1>6. CASE Family!SetpgidCall(p)
  <2>1. pc3' = [pc3 EXCEPT ![p] = pc3[p] + 1]
    BY <1>1, <1>6 DEF Family!SetpgidCall, Family!Goes, FamilyShapes
  <2>2. /\ Family!At(p, "setpgid") /\ UNCHANGED struck3
        /\ group' = [group EXCEPT ![p] = p]
    BY <1>6 DEF Family!SetpgidCall
  <2>3. struck3' = struck3 \cup {}
    BY <2>2
  <2> QED
    BY <1>2, <1>3, <2>1, <2>2, <2>3, QuietCall
<1>7. CASE Family!KillGroupCall(p)
  <2>1. pc3' = [pc3 EXCEPT ![p] = pc3[p] + 1]
    BY <1>1, <1>7 DEF Family!KillGroupCall, Family!Goes, FamilyShapes
  <2>2. /\ Family!At(p, "killgroup") /\ UNCHANGED group
        /\ struck3' = struck3 \cup
             {q \in Family!Process : Family!Alive(q) /\ group[q] = group[p]}
    BY <1>7 DEF Family!KillGroupCall
  <2> QED
    BY <1>2, <1>3, <2>1, <2>2, QuietCall
<1> QED
  BY <1>4, <1>5, <1>6, <1>7

\* The calls on the pipe; data stays within its room.
LEMMA PipeCallsInv ==
  ASSUME FamilyInv, NEW p \in Family!Process,
         Family!PipeCall(p) \/ Family!EndCall(p) \/ Family!ReadCall(p) \/ Family!ListCall(p)
  PROVE  FamilyInv'
<1>1. FamilyShapes /\ FamilyData
  BY DEF FamilyInv
<1>2. UNCHANGED <<prog, code, life, parent, group, cause, struck3, kills>>
  BY DEF Family!PipeCall, Family!EndCall, Family!ReadCall, Family!ListCall
<1>3. struck3' = struck3 \cup {}
  BY <1>2
<1>4. Family!Goes(p) => pc3' = [pc3 EXCEPT ![p] = pc3[p] + 1]
  BY <1>1 DEF Family!Goes, FamilyShapes
<1>5. ASSUME NEW o, Family!At(p, o) PROVE life[p] = "alive"
  BY <1>5 DEF Family!At, Family!Alive
<1>6. CASE Family!PipeCall(p)
  <2>1. PICK j : /\ j = pc3[p] + 1 \/ j = Len(code[p]) + 1
                 /\ pc3' = [pc3 EXCEPT ![p] = j]
    BY <1>4, <1>6 DEF Family!PipeCall
  <2>2. /\ Family!At(p, "pipe") /\ UNCHANGED <<data3, listed>>
        /\ ends' = [ends EXCEPT ![p] = {"r", "w"}] \/ UNCHANGED ends
    BY <1>6 DEF Family!PipeCall
  <2>3. FamilyData'
    BY <1>1, <1>2, <1>5, <2>2 DEF FamilyData
  <2> QED
    BY <1>2, <1>3, <2>1, <2>2, <2>3, QuietCall
<1>7. CASE Family!EndCall(p)
  <2>1. PICK o \in {"close", "dup"} : Family!At(p, o)
    BY <1>7 DEF Family!EndCall
  <2>2. /\ UNCHANGED <<data3, listed>>
        /\ \/ ends' = [ends EXCEPT ![p] = ends[p] \ {Family!Argument(p)}]
           \/ ends' = [ends EXCEPT ![p] = ends[p] \cup {"1"}]
    BY <1>1, <1>7 DEF Family!EndCall, FamilyData
  <2>3. PICK e : /\ ends' = [ends EXCEPT ![p] = e]
                 /\ e = ends[p] \ {Family!Argument(p)} \/ e = ends[p] \cup {"1"}
    BY <2>2
  <2>4. e \subseteq {"r", "w", "1"} /\ life[p] = "alive"
    BY <1>1, <1>5, <2>1, <2>3 DEF FamilyData
  <2>5. FamilyData'
    BY <1>1, <1>2, <2>2, <2>3, <2>4 DEF FamilyData
  <2>6. pc3' = [pc3 EXCEPT ![p] = pc3[p] + 1]
    BY <1>4, <1>7 DEF Family!EndCall
  <2> QED
    BY <1>2, <1>3, <2>1, <2>5, <2>6, QuietCall
<1>8. CASE Family!ReadCall(p)
  <2>1. UNCHANGED <<ends, listed>> /\ (data3' = 0 \/ data3' = data3)
    BY <1>8 DEF Family!ReadCall
  <2>2. FamilyData'
    BY <1>1, <1>2, <2>1, <1>8, FamilyConstants DEF FamilyData, Family!ReadCall
  <2>3. CASE Family!At(p, "read") /\ Family!Goes(p)
    BY <1>2, <1>3, <1>4, <2>2, <2>3, QuietCall
  <2>4. CASE Family!At(p, "readall") /\ Family!Goes(p)
    BY <1>2, <1>3, <1>4, <2>2, <2>4, QuietCall
  <2>5. CASE Family!At(p, "readall") /\ UNCHANGED pc3
    <3>1. pc3' = [pc3 EXCEPT ![p] = pc3[p]]
      BY <1>1, <2>5 DEF FamilyShapes
    <3> QED
      BY <1>2, <1>3, <2>2, <2>5, <3>1, QuietCall
  <2> QED
    BY <1>8, <2>3, <2>4, <2>5 DEF Family!ReadCall
<1>9. CASE Family!ListCall(p)
  <2>1. /\ UNCHANGED <<ends, data3>>
        /\ \/ listed < Output /\ listed' = listed + 1
           \/ listed' = listed
    BY <1>9 DEF Family!ListCall
  <2>2. FamilyData'
    BY <1>1, <1>2, <2>1, FamilyConstants DEF FamilyData
  <2>3. PICK j : /\ j = pc3[p] + 1 \/ j = code[p][pc3[p]].jump
                 /\ pc3' = [pc3 EXCEPT ![p] = j]
    BY <1>1, <1>4, <1>9 DEF Family!ListCall, Family!Jumps, FamilyShapes
  <2>4. CASE Family!At(p, "more")
    BY <1>2, <1>3, <2>2, <2>3, <2>4, QuietCall
  <2>5. CASE Family!At(p, "again")
    BY <1>2, <1>3, <2>2, <2>3, <2>5, QuietCall
  <2> QED
    BY <1>9, <2>4, <2>5 DEF Family!ListCall
<1> QED
  BY <1>6, <1>7, <1>8, <1>9

\* Reaping a child, or finding none; the caller may go on.
LEMMA ReapInv ==
  ASSUME FamilyInv, NEW p \in Family!Process, life[p] = "alive",
         UNCHANGED <<prog, code, parent, group, cause, struck3, ends, data3, listed, kills>>,
         \/ life' = life
         \/ \E c \in Family!Process :
              IsChild(c, p) /\ life[c] = "zombie" /\ life' = [life EXCEPT ![c] = "gone"],
         NEW j \in {pc3[p], pc3[p] + 1}, j \in 1..(Len(code[p]) + 1),
         pc3' = [pc3 EXCEPT ![p] = j],
         p = "c2" => j = pc3[p] \/ pc3[p] > 1,
         FamilyWaited'
  PROVE  FamilyInv'
<1>1. /\ FamilyShapes /\ FamilyData /\ FamilyTree /\ FamilyForks /\ FamilyGroups
      /\ Family!OrphansExplained
  BY DEF FamilyInv
<1>2. /\ life' \in [Family!Process -> {"none", "alive", "zombie", "gone"}]
      /\ \A c \in Family!Process :
           life'[c] = life[c] \/ (life[c] = "zombie" /\ life'[c] = "gone")
  BY <1>1 DEF FamilyShapes
<1>3. /\ pc3' \in [Family!Process -> Nat] /\ pc3'[p] = j
      /\ \A q \in Family!Process \ {p} : pc3'[q] = pc3[q]
  BY <1>1 DEF FamilyShapes
<1>4. FamilyShapes'
  <2>1. \A q \in Family!Process : pc3'[q] \in 1..(Len(code'[q]) + 1)
    BY <1>1, <1>3 DEF FamilyShapes
  <2>2. struck3' \subseteq {"c2", "c3"} /\ \A q \in struck3' : life'[q] = "alive"
    BY <1>1, <1>2 DEF FamilyShapes, Family!Process
  <2> QED
    BY <1>1, <1>2, <1>3, <2>1, <2>2 DEF FamilyShapes
<1>5. FamilyData'
  BY <1>1, <1>2 DEF FamilyData
<1>6. FamilyTree'
  BY <1>1, <1>2, <1>3 DEF FamilyTree, IsChild, Family!Process
<1>7. FamilyForks'
  BY <1>1, <1>2, <1>3 DEF FamilyForks, FamilyShapes, Family!Process
<1>8. FamilyGroups'
  BY <1>1, <1>2, <1>3 DEF FamilyGroups, Family!Process
<1>9. Family!OrphansExplained'
  BY <1>1, <1>2 DEF Family!OrphansExplained, Family!Process
<1> QED
  BY <1>4, <1>5, <1>6, <1>7, <1>8, <1>9 DEF FamilyInv

\* waitpid() returns: the one it looked for is no child any more, or never was.
LEMMA WaitedFor ==
  ASSUME FamilyInv, NEW p \in Family!Process, NEW a \in Family!Process, Family!WaitCall(p),
         \/ Family!Argument(p) = a
         \/ /\ Family!Argument(p) = "none"
            /\ \A c \in Family!Process : IsChild(c, p) => c = a
  PROVE  ~IsChild(a, p)'
<1>1. FamilyShapes
  BY DEF FamilyInv
<1>2. /\ UNCHANGED parent
      /\ \/ \E c \in Family!Awaited(p) : life[c] = "zombie" /\ life' = [life EXCEPT ![c] = "gone"]
         \/ Family!Awaited(p) = {} /\ UNCHANGED life
  BY DEF Family!WaitCall
<1>3. \A c : c \in Family!Children(p) <=> c \in Family!Process /\ IsChild(c, p)
  BY DEF Family!Children, IsChild
<1>4. CASE life[a] = "none" /\ Family!Argument(p) = a
  <2>1. life'[a] = "none"
    BY <1>1, <1>2, <1>4 DEF FamilyShapes
  <2> QED
    BY <2>1 DEF IsChild
<1>5. CASE life[a] # "none" /\ Family!Argument(p) = a
  <2>1. Family!Awaited(p) = Family!Children(p) \cap {a}
    BY <1>5 DEF Family!Awaited, Family!None, Family!Process
  <2> QED
    BY <1>1, <1>2, <1>3, <2>1 DEF FamilyShapes, IsChild
<1>6. CASE Family!Argument(p) = "none" /\ \A c \in Family!Process : IsChild(c, p) => c = a
  <2>1. Family!Awaited(p) = Family!Children(p)
    BY <1>6 DEF Family!Awaited, Family!None
  <2> QED
    BY <1>1, <1>2, <1>3, <1>6, <2>1 DEF FamilyShapes, IsChild
<1> QED
  BY <1>4, <1>5, <1>6

LEMMA WaitCallInv == ASSUME FamilyInv, NEW p \in Family!Process, Family!WaitCall(p) PROVE FamilyInv'
<1>1. FamilyShapes /\ FamilyTree /\ FamilyForks /\ FamilyWaited
  BY DEF FamilyInv
<1>2. /\ Family!At(p, "wait")
      /\ UNCHANGED <<prog, code, parent, group, cause, struck3, ends, data3, listed, kills>>
      /\ pc3' = [pc3 EXCEPT ![p] = pc3[p] + 1]
  BY <1>1 DEF Family!WaitCall, Family!Goes, FamilyShapes
<1>3. /\ CallFacts(prog, p, pc3[p], Len(code[p]), code[p][pc3[p]])
      /\ code[p][pc3[p]].op = "wait" /\ Len(code[p]) \in Nat
      /\ pc3[p] \in 1..Len(code[p]) /\ life[p] = "alive"
  BY <1>1, <1>2, CallOf DEF FamilyShapes, Family!Alive
<1>4. Family!Awaited(p) \subseteq Family!Children(p)
  BY DEF Family!Awaited
<1>5. \/ life' = life
      \/ \E c \in Family!Process :
           IsChild(c, p) /\ life[c] = "zombie" /\ life' = [life EXCEPT ![c] = "gone"]
  BY <1>4 DEF Family!WaitCall, Family!Children, IsChild
<1>6. /\ UNCHANGED <<prog, parent>>
      /\ \A c, q \in Family!Process : IsChild(c, q)' => IsChild(c, q)
      /\ \A c \in Family!Process : life'[c] = "none" <=> life[c] = "none"
  BY <1>1, <1>2, <1>5 DEF FamilyShapes, IsChild
<1>7. /\ pc3'[p] = pc3[p] + 1
      /\ \A q \in Family!Process \ {p} : pc3'[q] = pc3[q]
  BY <1>1, <1>2 DEF FamilyShapes
<1>8. \/ p = "main" /\ pc3[p] = 2 /\ prog \in OneWait /\ Family!Argument(p) \in {"c1", "none"}
      \/ p = "main" /\ pc3[p] = 6 /\ prog \in WithPipe /\ Family!Argument(p) = "c1"
      \/ p = "main" /\ pc3[p] = 4 /\ prog = "ch06_2_ex01" /\ Family!Argument(p) = "c2"
      \/ p = "main" /\ pc3[p] = 5 /\ prog = "ch06_2_ex01" /\ Family!Argument(p) = "c1"
      \/ p = "c2" /\ pc3[p] = 3 /\ prog = "ch06_2_ex01" /\ Family!Argument(p) = "none"
      \/ p = "c2" /\ pc3[p] \in {6, 7} /\ prog = "ch06_2_ex01"
  BY <1>3 DEF CallFacts, Family!Argument
<1>9. FamilyWaited'
  <2>1. /\ life'["c2"] = "none" <=> life["c2"] = "none"
        /\ life'["c3"] = "none" <=> life["c3"] = "none"
        /\ IsChild("c1", "main")' => IsChild("c1", "main")
        /\ IsChild("c2", "main")' => IsChild("c2", "main")
        /\ IsChild("c3", "c2")' => IsChild("c3", "c2")
    BY <1>6 DEF Family!Process
  <2>2. CASE p = "main"
    <3>1. pc3'["c2"] = pc3["c2"] /\ pc3'["main"] = pc3["main"] + 1
      BY <1>7, <2>2 DEF Family!Process
    <3>2. prog \in OneWait => ~IsChild("c1", "main")'
      <4>1. ASSUME prog \in OneWait, NEW c \in Family!Process, IsChild(c, "main")
            PROVE  c = "c1"
        BY <1>1, <4>1 DEF FamilyTree, FamilyForks, OneWait, IsChild, Family!Process
      <4>2. ASSUME prog \in OneWait PROVE Family!Argument(p) \in {"c1", "none"}
        BY <1>8, <2>2, <4>2 DEF OneWait, WithPipe
      <4> QED
        BY <2>2, <4>1, <4>2, WaitedFor DEF Family!Process
    <3>3. prog \in WithPipe => ~IsChild("c1", "main")'
      <4>1. ASSUME prog \in WithPipe PROVE Family!Argument(p) = "c1"
        BY <1>8, <2>2, <4>1 DEF OneWait, WithPipe
      <4> QED
        BY <2>2, <4>1, WaitedFor DEF Family!Process
    <3>4. prog = "ch06_2_ex01" /\ pc3["main"] = 4 => ~IsChild("c2", "main")'
      <4>1. ASSUME prog = "ch06_2_ex01", pc3["main"] = 4 PROVE Family!Argument(p) = "c2"
        BY <1>8, <2>2, <4>1 DEF OneWait, WithPipe
      <4> QED
        BY <2>2, <4>1, WaitedFor DEF Family!Process
    <3>5. prog = "ch06_2_ex01" /\ pc3["main"] = 5 => ~IsChild("c1", "main")'
      <4>1. ASSUME prog = "ch06_2_ex01", pc3["main"] = 5 PROVE Family!Argument(p) = "c1"
        BY <1>8, <2>2, <4>1 DEF OneWait, WithPipe
      <4> QED
        BY <2>2, <4>1, WaitedFor DEF Family!Process
    <3>6. prog # "ch05_ex04" /\ prog # "ch06_exercise"
      BY <1>8, <2>2 DEF OneWait, WithPipe
    <3>7. prog = "ch06_2_ex01" => pc3["main"] \in {4, 5}
      BY <1>8, <2>2 DEF OneWait, WithPipe
    <3> QED
      BY <1>1, <1>6, <2>1, <3>1, <3>2, <3>3, <3>4, <3>5, <3>6, <3>7 DEF FamilyWaited
  <2>3. CASE p = "c2"
    <3>1. pc3'["main"] = pc3["main"] /\ pc3'["c2"] = pc3["c2"] + 1
      BY <1>7, <2>3 DEF Family!Process
    <3>2. pc3["c2"] = 3 => ~IsChild("c3", "c2")'
      <4>1. \A c \in Family!Process : IsChild(c, "c2") => c = "c3"
        BY <1>1 DEF FamilyTree, IsChild, Family!Process
      <4>2. pc3["c2"] = 3 => Family!Argument(p) = "none"
        BY <1>8, <2>3
      <4> QED
        BY <2>3, <4>1, <4>2, WaitedFor DEF Family!Process
    <3>3. pc3["c2"] \in {3, 6, 7}
      BY <1>8, <2>3
    <3> QED
      BY <1>1, <1>6, <2>1, <3>1, <3>2, <3>3 DEF FamilyWaited
  <2> QED
    BY <1>8, <2>2, <2>3
<1>10. p = "c2" => pc3[p] > 1
  BY <1>8
<1>11. PICK j : j = pc3[p] + 1
  OBVIOUS
<1>12. j \in {pc3[p], pc3[p] + 1} /\ j \in 1..(Len(code[p]) + 1)
  BY <1>3, <1>11
<1> QED
  BY <1>2, <1>3, <1>5, <1>9, <1>10, <1>11, <1>12, ReapInv

LEMMA PollCallInv == ASSUME FamilyInv, NEW p \in Family!Process, Family!PollCall(p) PROVE FamilyInv'
<1>1. FamilyShapes /\ FamilyWaited
  BY DEF FamilyInv
<1>2. /\ Family!At(p, "poll")
      /\ UNCHANGED <<prog, code, parent, group, cause, struck3, ends, data3, listed, kills>>
  BY DEF Family!PollCall
<1>3. /\ CallFacts(prog, p, pc3[p], Len(code[p]), code[p][pc3[p]])
      /\ code[p][pc3[p]].op = "poll" /\ Len(code[p]) \in Nat
      /\ pc3[p] \in 1..Len(code[p]) /\ life[p] = "alive"
  BY <1>1, <1>2, CallOf DEF FamilyShapes, Family!Alive
<1>4. p = "main" /\ pc3[p] = 3 /\ prog = "ch05_ex04"
  BY <1>3 DEF CallFacts
<1>5. CASE /\ pc3' = [pc3 EXCEPT ![p] = pc3[p] + 1] /\ UNCHANGED life
           /\ Family!Children(p) = {}
  <2>1. ~IsChild("c1", "main") /\ ~IsChild("c2", "main")
    BY <1>4, <1>5 DEF Family!Children, IsChild, Family!Process
  <2>2. /\ UNCHANGED <<prog, life>> /\ IsChild("c1", "main")' = IsChild("c1", "main")
        /\ IsChild("c2", "main")' = IsChild("c2", "main")
        /\ IsChild("c3", "c2")' = IsChild("c3", "c2")
    BY <1>2, <1>5 DEF IsChild
  <2>3. pc3'["c2"] = pc3["c2"]
    BY <1>1, <1>4, <1>5 DEF FamilyShapes, Family!Process
  <2>4. FamilyWaited'
    BY <1>1, <1>4, <2>1, <2>2, <2>3 DEF FamilyWaited, OneWait, WithPipe
  <2>5. PICK j : j = pc3[p] + 1
    OBVIOUS
  <2>6. j \in {pc3[p], pc3[p] + 1} /\ j \in 1..(Len(code[p]) + 1) /\ p # "c2"
    BY <1>3, <1>4, <2>5
  <2> QED
    BY <1>2, <1>3, <1>5, <2>4, <2>5, <2>6, ReapInv
<1>6. CASE /\ UNCHANGED pc3
           /\ \E c \in Family!Children(p) :
                life[c] = "zombie" /\ life' = [life EXCEPT ![c] = "gone"]
  <2>1. \E c \in Family!Process :
          IsChild(c, p) /\ life[c] = "zombie" /\ life' = [life EXCEPT ![c] = "gone"]
    BY <1>6 DEF Family!Children, IsChild
  <2>2. \A c, q \in Family!Process : IsChild(c, q)' => IsChild(c, q)
    BY <1>1, <1>2, <2>1 DEF FamilyShapes, IsChild
  <2>3. \A c \in Family!Process : life'[c] = "none" <=> life[c] = "none"
    BY <1>1, <2>1 DEF FamilyShapes
  <2>4. FamilyWaited'
    BY <1>1, <1>2, <1>6, <2>2, <2>3 DEF FamilyWaited, Family!Process
  <2>5. pc3' = [pc3 EXCEPT ![p] = pc3[p]]
    BY <1>1, <1>6 DEF FamilyShapes
  <2>6. pc3[p] \in 1..(Len(code[p]) + 1) /\ p # "c2"
    BY <1>3, <1>4
  <2> QED
    BY <1>2, <1>3, <2>1, <2>4, <2>5, <2>6, ReapInv
<1> QED
  BY <1>1, <1>5, <1>6 DEF Family!PollCall, Family!Goes, FamilyShapes

\* child_handler() of ch06/exercise.c, one child at a time.
LEMMA FamilyHandlerInv == FamilyInv /\ Family!ChildHandler => FamilyInv'
<1> SUFFICES ASSUME FamilyInv, Family!ChildHandler PROVE FamilyInv'
  OBVIOUS
<1>1. FamilyShapes /\ FamilyWaited
  BY DEF FamilyInv
<1>2. /\ life["main"] = "alive"
      /\ UNCHANGED <<prog, code, pc3, parent, group, cause, struck3, ends, data3, listed, kills>>
      /\ \/ life' = life
         \/ \E c \in Family!Process : /\ IsChild(c, "main") /\ life[c] = "zombie"
                                      /\ life' = [life EXCEPT ![c] = "gone"]
  BY DEF Family!ChildHandler, Family!Reap, Family!Children, Family!Alive, IsChild
<1>3. \A c, q \in Family!Process : IsChild(c, q)' => IsChild(c, q)
  BY <1>1, <1>2 DEF FamilyShapes, IsChild
<1>4. \A c \in Family!Process : life'[c] = "none" <=> life[c] = "none"
  BY <1>1, <1>2 DEF FamilyShapes
<1>5. FamilyWaited'
  BY <1>1, <1>2, <1>3, <1>4 DEF FamilyWaited, Family!Process
<1>6. "main" \in Family!Process /\ pc3' = [pc3 EXCEPT !["main"] = pc3["main"]]
  BY <1>1, <1>2 DEF FamilyShapes, Family!Process
<1>7. pc3["main"] \in 1..(Len(code["main"]) + 1)
  BY <1>1, <1>6 DEF FamilyShapes
<1> QED
  BY <1>2, <1>5, <1>6, <1>7, ReapInv

\* fork(): its place in the list tells that the child is not there yet.
LEMMA ForkCallInv == ASSUME FamilyInv, NEW p \in Family!Process, Family!ForkCall(p) PROVE FamilyInv'
<1> DEFINE c == Family!Argument(p)
           k == pc3[p]
<1>1. /\ FamilyShapes /\ FamilyData /\ FamilyTree /\ FamilyForks /\ FamilyGroups
      /\ FamilyWaited /\ Family!OrphansExplained
  BY DEF FamilyInv
<1>2. /\ Family!At(p, "fork")
      /\ UNCHANGED <<prog, code, cause, struck3, data3, listed, kills>>
  BY DEF Family!ForkCall
<1>3. /\ CallFacts(prog, p, k, Len(code[p]), code[p][k])
      /\ code[p][k].op = "fork" /\ Len(code[p]) \in Nat
      /\ k \in 1..Len(code[p]) /\ life[p] = "alive"
  BY <1>1, <1>2, CallOf DEF FamilyShapes, Family!Alive
<1>4. \/ p = "main" /\ c = "c1" /\ k = 1 /\ prog \in OneWait \cup {"ch05_ex02"}
         /\ code[p][k].jump = 3
      \/ p = "main" /\ c = "c1" /\ k = 1 /\ prog \in {"ch05_ex04", "ch06_exercise"}
         /\ code[p][k].jump = 4
      \/ p = "main" /\ c = "c1" /\ k = 1 /\ prog = "ch06_2_ex01" /\ code[p][k].jump = 3
      \/ p = "main" /\ c = "c1" /\ k = 2 /\ prog \in WithPipe /\ code[p][k].jump = 7
      \/ p = "main" /\ c = "c2" /\ k = 2 /\ prog \in {"ch05_ex04", "ch06_exercise"}
         /\ code[p][k].jump = 4
      \/ p = "main" /\ c = "c2" /\ k = 2 /\ prog = "ch06_2_ex01" /\ code[p][k].jump = 3
      \/ p = "c2" /\ c = "c3" /\ k = 2 /\ prog = "ch06_2_ex01" /\ code[p][k].jump = 5
  BY <1>3 DEF CallFacts, Family!Argument
<1>5. code[p][k].jump \in 1..(Len(code[p]) + 1)
  BY <1>3 DEF CallFacts
<1>6. life[c] = "none" /\ c \in Family!Process /\ c # p /\ c # "main" /\ p \in {"main", "c2"}
  BY <1>1, <1>4 DEF FamilyForks, Family!Process, OneWait, WithPipe
<1>7. /\ c = "c1" =>
           p = "main" /\ ((k = 1 /\ prog \notin WithPipe) \/ (k = 2 /\ prog \in WithPipe))
      /\ c = "c2" =>
           p = "main" /\ k = 2 /\ prog \in {"ch05_ex04", "ch06_exercise", "ch06_2_ex01"}
      /\ c = "c3" => p = "c2" /\ k = 2 /\ prog = "ch06_2_ex01"
      /\ c \in {"c1", "c2", "c3"} /\ k \in {1, 2}
  BY <1>4 DEF OneWait, WithPipe
<1>8. prog = "ch06_2_ex01" => prog \notin WithPipe \cup OneWait
  BY DEF OneWait, WithPipe
<1> HIDE DEF c, k
<1>9. CASE /\ life' = [life EXCEPT ![c] = "alive"] /\ parent' = [parent EXCEPT ![c] = p]
           /\ group' = [group EXCEPT ![c] = group[p]] /\ ends' = [ends EXCEPT ![c] = ends[p]]
           /\ pc3' = [pc3 EXCEPT ![p] = k + 1]
  <2>1. /\ life'[c] = "alive" /\ parent'[c] = p /\ group'[c] = group[p] /\ ends'[c] = ends[p]
        /\ \A q \in Family!Process \ {c} :
             /\ life'[q] = life[q] /\ parent'[q] = parent[q] /\ group'[q] = group[q]
             /\ ends'[q] = ends[q]
    BY <1>1, <1>6, <1>9 DEF FamilyShapes, FamilyData
  <2>2. pc3'[p] = k + 1 /\ \A q \in Family!Process \ {p} : pc3'[q] = pc3[q]
    BY <1>1, <1>9 DEF FamilyShapes
  <2>3. /\ life' \in [Family!Process -> {"none", "alive", "zombie", "gone"}]
        /\ parent' \in [Family!Process -> Family!Process \cup {"init"}]
        /\ group' \in [Family!Process -> {"main", "c2"}]
    BY <1>1, <1>6, <1>9 DEF FamilyShapes
  <2>4. k \in Nat /\ pc3[p] = k /\ pc3' \in [Family!Process -> Nat]
    BY <1>1, <1>9 DEF FamilyShapes, k
  <2>5. FamilyShapes'
    <3>1. \A q \in Family!Process : pc3'[q] \in 1..(Len(code[q]) + 1)
      <4>1. k + 1 \in 1..(Len(code[p]) + 1)
        BY <1>3
      <4> QED
        BY <1>1, <2>2, <4>1 DEF FamilyShapes
    <3>2. \A q \in struck3 : life'[q] = "alive"
      BY <1>1, <2>1 DEF FamilyShapes, Family!Process
    <3> QED
      BY <1>1, <1>2, <2>3, <2>4, <3>1, <3>2 DEF FamilyShapes
  <2>6. FamilyData'
    <3>1. DOMAIN ends' = Family!Process
      BY <1>1, <1>9 DEF FamilyData
    <3> QED
      BY <1>1, <1>2, <2>1, <3>1 DEF FamilyData
  <2>7. FamilyTree'
    <3>1. \A a, q \in Family!Process : IsChild(a, q)' => IsChild(a, q) \/ (a = c /\ q = p)
      BY <2>1 DEF IsChild
    <3>2. \A a, q \in Family!Process : IsChild(a, q)' => life'[q] = "alive"
      BY <1>1, <1>3, <1>6, <2>1, <3>1 DEF FamilyTree
    <3>3. /\ life'["main"] # "none" /\ parent'["main"] = "init"
          /\ parent'["c1"] \in {"init", "main"} /\ parent'["c2"] \in {"init", "main"}
          /\ parent'["c3"] \in {"init", "c2"}
      BY <1>1, <1>6, <1>7, <2>1 DEF FamilyTree, Family!Process
    <3>4. \A a \in Family!Process : life'[a] = "zombie" => parent'[a] # "init"
      BY <1>1, <2>1 DEF FamilyTree
    <3>5. \A a \in {"c1", "c2"} :
            life'[a] # "none" /\ parent'[a] = "init" => life'["main"] # "alive"
      BY <1>1, <1>6, <2>1 DEF FamilyTree, Family!Process
    <3>6. \A a \in Family!Process : life'[a] \in {"none", "alive"} => cause[a] = "none"
      BY <1>1, <1>6, <2>1 DEF FamilyTree
    <3>7. \A a \in Family!Process : life'[a] = "none" => pc3'[a] = 1 /\ parent'[a] = "init"
      BY <1>1, <1>3, <2>1, <2>2 DEF FamilyTree
    <3> QED
      BY <1>2, <3>2, <3>3, <3>4, <3>5, <3>6, <3>7 DEF FamilyTree
  <2>8. FamilyForks'
    BY <1>1, <1>2, <1>6, <1>7, <2>1, <2>2, <2>4 DEF FamilyForks, Family!Process
  <2>9. FamilyGroups'
    <3>1. c = "c3" => group[p] = "c2"
      BY <1>1, <1>7, <2>4 DEF FamilyGroups
    <3>2. c = "c1" => group[p] = "main"
      BY <1>1, <1>7 DEF FamilyGroups
    <3>3. c = "c2" => pc3'["c2"] = 1
      BY <1>1, <1>6, <2>2 DEF FamilyTree
    <3>4. prog = "ch06_2_ex01" /\ pc3'["c2"] > 1 => group'["c2"] = "c2"
      <4>1. CASE p = "c2"
        BY <1>1, <1>7, <2>1, <2>4, <4>1 DEF FamilyGroups, Family!Process
      <4>2. CASE p # "c2"
        BY <1>1, <2>1, <2>2, <3>3, <4>2 DEF FamilyGroups, Family!Process
      <4> QED
        BY <4>1, <4>2
    <3>5. life'["c3"] # "none" => group'["c3"] = "c2"
      BY <1>1, <2>1, <3>1 DEF FamilyGroups, Family!Process
    <3>6. group'["main"] = "main" /\ group'["c1"] = "main"
      BY <1>1, <1>6, <2>1, <3>2 DEF FamilyGroups, Family!Process
    <3> QED
      BY <1>2, <3>4, <3>5, <3>6 DEF FamilyGroups
  <2>10. FamilyWaited'
    <3>1. CASE p = "main"
      <4>1. /\ pc3'["main"] = 3 => prog \notin OneWait
            /\ pc3'["main"] \in {2, 3}
        BY <1>7, <2>2, <3>1 DEF OneWait, WithPipe
      <4>2. pc3'["c2"] = pc3["c2"]
        BY <2>2, <3>1 DEF Family!Process
      <4>3. IsChild("c3", "c2")' = IsChild("c3", "c2") /\ life'["c3"] = life["c3"]
        BY <1>7, <2>1, <3>1 DEF IsChild, Family!Process
      <4> QED
        BY <1>1, <1>2, <4>1, <4>2, <4>3 DEF FamilyWaited
    <3>2. CASE p = "c2"
      <4>1. c = "c3" /\ pc3'["c2"] = 3 /\ pc3'["main"] = pc3["main"]
        BY <1>7, <2>2, <3>2 DEF Family!Process
      <4>2. /\ IsChild("c1", "main")' = IsChild("c1", "main")
            /\ IsChild("c2", "main")' = IsChild("c2", "main")
            /\ life'["c2"] = life["c2"]
        BY <2>1, <4>1 DEF IsChild, Family!Process
      <4> QED
        BY <1>1, <1>2, <4>1, <4>2 DEF FamilyWaited
    <3> QED
      BY <1>6, <3>1, <3>2
  <2>11. Family!OrphansExplained'
    <3>1. ASSUME NEW a \in Family!Process \ {"main"}, life'[a] # "none", parent'[a] = "init"
          PROVE  /\ a # c /\ life[a] # "none" /\ parent[a] = "init"
                 /\ c = "c2" => a = "c3" \/ life["main"] # "alive"
      BY <1>1, <1>6, <2>1, <3>1 DEF FamilyTree, Family!Process
    <3>2. ASSUME NEW a \in Family!Process \ {"main"}, life'[a] # "none", parent'[a] = "init"
          PROVE  \/ prog = "ch05_ex02"
                 \/ prog \in {"ch05_ex04", "ch06_exercise"} /\ life'["c2"] = "none"
                 \/ prog = "ch07_ex01" /\ cause["main"] = "PIPE"
                 \/ a = "c3" /\ cause["c2"] \in {"USR1", "KILL"}
      <4>1. CASE c # "c2"
        BY <1>1, <2>1, <3>1, <3>2, <4>1 DEF Family!OrphansExplained, Family!Root, Family!Process
      <4>2. CASE c = "c2"
        <5>1. a = "c3" /\ life["c3"] # "none"
          BY <1>3, <1>7, <3>1, <3>2, <4>2
        <5>2. prog = "ch06_2_ex01"
          BY <1>1, <5>1 DEF FamilyForks
        <5> QED
          BY <1>1, <3>1, <3>2, <5>2 DEF Family!OrphansExplained, Family!Root
      <4> QED
        BY <4>1, <4>2
    <3> QED
      BY <1>1, <1>2, <3>2 DEF Family!OrphansExplained, Family!Root
  <2> QED
    BY <2>5, <2>6, <2>7, <2>8, <2>9, <2>10, <2>11 DEF FamilyInv
<1>10. CASE pc3' = [pc3 EXCEPT ![p] = code[p][k].jump] /\ UNCHANGED <<life, parent, group, ends>>
  <2>1. /\ pc3'[p] = code[p][k].jump
        /\ \A q \in Family!Process \ {p} : pc3'[q] = pc3[q]
    BY <1>1, <1>10 DEF FamilyShapes
  <2>2. k \in Nat /\ pc3[p] = k /\ pc3' \in [Family!Process -> Nat]
    BY <1>1, <1>3, <1>5, <1>10 DEF FamilyShapes, k
  <2>3. FamilyShapes'
    BY <1>1, <1>2, <1>5, <1>10, <2>1, <2>2 DEF FamilyShapes
  <2>4. FamilyData' /\ FamilyTree' /\ Family!OrphansExplained'
    BY <1>1, <1>2, <1>3, <1>10, <2>1 DEF FamilyData, FamilyTree, IsChild, Family!OrphansExplained
  <2>5. FamilyForks' /\ FamilyGroups'
    <3>1. pc3'[p] > k /\ (p = "c2" => k > 1)
      BY <1>4, <2>1
    <3> QED
      BY <1>1, <1>2, <1>10, <2>1, <2>2, <3>1
         DEF FamilyForks, FamilyGroups, Family!Process
  <2>6. /\ UNCHANGED <<prog, life>>
        /\ IsChild("c1", "main")' = IsChild("c1", "main")
        /\ IsChild("c2", "main")' = IsChild("c2", "main")
        /\ IsChild("c3", "c2")' = IsChild("c3", "c2")
    BY <1>2, <1>10 DEF IsChild
  <2>7. CASE p = "main"
    <3>1. pc3'["c2"] = pc3["c2"] /\ pc3'["main"] = code[p][k].jump
      BY <2>1, <2>7 DEF Family!Process
    <3>2. life["c2"] = "none" /\ (prog \in OneWait \cup WithPipe => life["c1"] = "none")
      BY <1>1, <1>4, <1>8, <2>2, <2>7 DEF FamilyForks, OneWait, WithPipe
    <3>3. prog = "ch06_2_ex01" => code[p][k].jump = 3
      BY <1>4, <1>8, <2>7
    <3>4. FamilyWaited'
      BY <1>1, <2>6, <3>1, <3>2, <3>3 DEF FamilyWaited, IsChild
    <3> QED
      BY <2>3, <2>4, <2>5, <3>4 DEF FamilyInv
  <2>8. CASE p = "c2"
    <3>1. pc3'["main"] = pc3["main"] /\ life["c3"] = "none"
      BY <1>1, <1>4, <2>1, <2>2, <2>8 DEF FamilyForks, Family!Process
    <3>2. FamilyWaited'
      BY <1>1, <2>6, <3>1 DEF FamilyWaited, IsChild
    <3> QED
      BY <2>3, <2>4, <2>5, <3>2 DEF FamilyInv
  <2> QED
    BY <1>6, <2>7, <2>8
<1> QED
  BY <1>1, <1>9, <1>10 DEF Family!ForkCall, Family!Goes, Family!Jumps, FamilyShapes, c, k

\* A child that is killed leaves nobody behind, but for child3 of ch06-2/ex01.c.
LEMMA KilledInv ==
  ASSUME FamilyInv, NEW p \in Family!Process,
         Family!KillChild(p) \/ Family!Usr1Handler(p)
  PROVE  FamilyInv'
<1>1. FamilyShapes /\ FamilyData /\ FamilyTree
  BY DEF FamilyInv
<1>2. PICK why \in {"KILL", "USR1"} :
        /\ Family!Dies(p, why) /\ (why = "USR1" => p \in {"c2", "c3"})
        /\ life[p] = "alive" /\ p # "main" /\ kills' \in 0..Kills
  <2>1. CASE Family!KillChild(p)
    BY <1>1, <2>1, FamilyConstants DEF Family!KillChild, Family!Alive, FamilyData
  <2>2. CASE Family!Usr1Handler(p)
    BY <1>1, <2>2 DEF Family!Usr1Handler, FamilyShapes, FamilyData
  <2> QED
    BY <2>1, <2>2
<1>3. UNCHANGED <<prog, code, pc3, group, listed, data3>>
  BY DEF Family!KillChild, Family!Usr1Handler
<1>4. \A c \in Family!Process \ {"main"} : IsChild(c, p) => c = "c3" /\ p = "c2"
  BY <1>1, <1>2 DEF FamilyTree, IsChild, Family!Process
<1> QED
  BY <1>2, <1>3, <1>4, DiesInv

LEMMA WriteCallInv ==
  ASSUME FamilyInv, NEW p \in Family!Process, Family!WriteCall(p) PROVE FamilyInv'
<1>1. FamilyShapes /\ FamilyData /\ FamilyTree
  BY DEF FamilyInv
<1>2. Family!At(p, "write") /\ UNCHANGED <<prog, code, group, listed, kills>>
  BY DEF Family!WriteCall
<1>3. /\ CallFacts(prog, p, pc3[p], Len(code[p]), code[p][pc3[p]])
      /\ code[p][pc3[p]].op = "write" /\ life[p] = "alive"
  BY <1>1, <1>2, CallOf DEF FamilyShapes, Family!Alive
<1>4. CASE /\ data3 < Room /\ data3' = data3 + 1 /\ Family!Goes(p)
           /\ UNCHANGED <<life, parent, cause, struck3, chld, reaping, ends>>
  <2>1. FamilyData'
    BY <1>1, <1>2, <1>4, FamilyConstants DEF FamilyData
  <2>2. pc3' = [pc3 EXCEPT ![p] = pc3[p] + 1]
    BY <1>1, <1>4 DEF Family!Goes, FamilyShapes
  <2>3. struck3' = struck3 \cup {}
    BY <1>4
  <2> QED
    BY <1>2, <1>4, <2>1, <2>2, <2>3, QuietCall
<1>5. CASE Family!Dies(p, "PIPE") /\ UNCHANGED <<pc3, data3>>
  <2>1. \/ p = "main" /\ prog = "ch07_ex01"
        \/ p = "c1"
    BY <1>3 DEF CallFacts
  <2>2. \A c \in Family!Process \ {"main"} : IsChild(c, p) => p \in {"main", "c2"}
    BY <1>1 DEF FamilyTree, IsChild, Family!Process
  <2>3. kills' \in 0..Kills
    BY <1>1, <1>2 DEF FamilyData
  <2> QED
    BY <1>2, <1>3, <1>5, <2>1, <2>2, <2>3, DiesInv
<1> QED
  BY <1>4, <1>5 DEF Family!WriteCall

\* exit(): who ends by itself has waited for its children.
LEMMA ExitsInv == ASSUME FamilyInv, NEW p \in Family!Process, Family!Exits(p) PROVE FamilyInv'
<1>1. FamilyShapes /\ FamilyData /\ FamilyTree /\ FamilyForks /\ FamilyWaited
  BY DEF FamilyInv
<1>2. /\ life[p] = "alive" /\ Family!Dies(p, "exit")
      /\ UNCHANGED <<prog, code, pc3, group, listed, data3>> /\ kills' \in 0..Kills
      /\ Family!Ended(p) \/ Family!At(p, "exit")
  BY <1>1 DEF Family!Exits, Family!Alive, FamilyData
<1>3. FactsOf(prog) /\ prog \in Programs
  BY <1>1, AllFacts, ProgramList DEF FamilyShapes
<1>4. /\ prog \in OneWait => Len(code["main"]) = 2
      /\ prog \in {"ch05_ex04", "ch06_exercise"} => Len(code["main"]) = 3
      /\ prog \in WithPipe => Len(code["main"]) = 6
      /\ prog = "ch06_2_ex01" => Len(code["main"]) = 5 /\ Len(code["c2"]) = 7
  <2>1. code = Family!Code[prog]
    BY <1>1 DEF FamilyShapes
  <2> QED
    BY <1>3, <2>1 DEF FactsOf
<1>5. Family!At(p, "exit") => p = "c2" /\ pc3[p] = 4
  <2> SUFFICES ASSUME Family!At(p, "exit") PROVE p = "c2" /\ pc3[p] = 4
    OBVIOUS
  <2>1. /\ CallFacts(prog, p, pc3[p], Len(code[p]), code[p][pc3[p]])
        /\ code[p][pc3[p]].op = "exit"
    BY <1>1, CallOf DEF FamilyShapes
  <2> QED
    BY <2>1 DEF CallFacts
<1>6. ASSUME NEW c \in Family!Process \ {"main"}, IsChild(c, p)
      PROVE  \/ prog = "ch05_ex02"
             \/ prog \in {"ch05_ex04", "ch06_exercise"} /\ life["c2"] = "none"
  <2>1. (p = "main" /\ c \in {"c1", "c2"}) \/ (p = "c2" /\ c = "c3")
    BY <1>1, <1>6 DEF FamilyTree, IsChild, Family!Process
  <2>2. CASE p = "c2" /\ c = "c3"
    <3>1. prog = "ch06_2_ex01"
      BY <1>1, <1>6, <2>2 DEF FamilyForks, IsChild
    <3>2. pc3["c2"] = 4 \/ pc3["c2"] = 8
      <4>1. Len(code["c2"]) = 7
        BY <1>4, <3>1
      <4> QED
        BY <1>2, <1>5, <2>2, <4>1 DEF Family!Ended
    <3> QED
      BY <1>1, <1>6, <2>2, <3>2 DEF FamilyWaited, IsChild
  <2>3. CASE p = "main" /\ c \in {"c1", "c2"}
    <3>1. pc3["main"] = Len(code["main"]) + 1
      BY <1>2, <1>5, <2>3 DEF Family!Ended
    <3>2. /\ prog \in OneWait => pc3["main"] = 3
          /\ prog \in {"ch05_ex04", "ch06_exercise"} => pc3["main"] = 4
          /\ prog = "ch06_2_ex01" => pc3["main"] = 6
          /\ prog \in WithPipe => pc3["main"] = 7
      <4>1. CASE Len(code["main"]) = 2
        BY <1>4, <3>1, <4>1
      <4>2. CASE Len(code["main"]) = 3
        BY <1>4, <3>1, <4>2
      <4>3. CASE Len(code["main"]) = 5
        BY <1>4, <3>1, <4>3
      <4>4. CASE Len(code["main"]) = 6
        BY <1>4, <3>1, <4>4
      <4> QED
        BY <1>4, <4>1, <4>2, <4>3, <4>4
    <3>3. prog \in OneWait \cup WithPipe => c = "c1"
      BY <1>1, <1>6, <2>3 DEF FamilyForks, IsChild, OneWait, WithPipe
    <3>4. prog \in OneWait \cup WithPipe \cup {"ch05_ex02", "ch05_ex04", "ch06_exercise",
                                               "ch06_2_ex01"}
      BY <1>3 DEF Programs, OneWait, WithPipe
    <3> QED
      BY <1>1, <1>6, <2>3, <3>2, <3>3, <3>4 DEF FamilyWaited
  <2> QED
    BY <2>1, <2>2, <2>3
<1> QED
  BY <1>2, <1>6, DiesInv

LEMMA FamilyInitInv == Family!FamilyInit => FamilyInv
<1> SUFFICES ASSUME Family!FamilyInit PROVE FamilyInv
  OBVIOUS
<1>1. /\ prog \in DOMAIN Family!Code /\ code = Family!Code[prog]
      /\ pc3 = [p \in Family!Process |-> 1]
      /\ life = [p \in Family!Process |-> IF p = "main" THEN "alive" ELSE "none"]
      /\ parent = [p \in Family!Process |-> "init"]
      /\ group = [p \in Family!Process |-> "main"]
      /\ cause = [p \in Family!Process |-> "none"]
      /\ struck3 = {}
      /\ ends = [p \in Family!Process |-> {}] /\ data3 = 0 /\ listed = 0 /\ kills = 0
  BY DEF Family!FamilyInit, Family!Root, Family!None
<1>2. \A p \in Family!Process : Len(code[p]) \in Nat
  BY <1>1, AllFacts DEF FactsOf, ListFacts
<1>3. FamilyShapes
  BY <1>1, <1>2 DEF FamilyShapes, Family!Process
<1>4. FamilyData
  BY <1>1, FamilyConstants DEF FamilyData
<1>5. FamilyTree
  BY <1>1 DEF FamilyTree, IsChild, Family!Process
<1>6. FamilyForks /\ FamilyGroups /\ FamilyWaited
  BY <1>1 DEF FamilyForks, FamilyGroups, FamilyWaited, IsChild, Family!Process
<1>7. Family!OrphansExplained
  BY <1>1 DEF Family!OrphansExplained, Family!Process
<1> QED
  BY <1>3, <1>4, <1>5, <1>6, <1>7 DEF FamilyInv

LEMMA FamilyNextInv == FamilyInv /\ [Family!FamilyNext]_familyV => FamilyInv'
<1> SUFFICES ASSUME FamilyInv, [Family!FamilyNext]_familyV PROVE FamilyInv'
  OBVIOUS
<1>1. ASSUME NEW p \in Family!Process, Family!Step(p) PROVE FamilyInv'
  BY <1>1, ForkCallInv, QuietCallsInv, WaitCallInv, PollCallInv, KilledInv, PipeCallsInv,
     WriteCallInv, ExitsInv DEF Family!Step
<1>2. ASSUME NEW p \in Family!Process, Family!KillChild(p) PROVE FamilyInv'
  BY <1>2, KilledInv
<1>3. CASE UNCHANGED familyV
  BY <1>3 DEF familyV, FamilyInv, FamilyShapes, FamilyData, FamilyTree, FamilyForks,
     FamilyGroups, FamilyWaited, IsChild, Family!OrphansExplained
<1> QED
  BY <1>1, <1>2, <1>3, FamilyHandlerInv DEF Family!FamilyNext

\* SIGCHLD is pending or not, and main is in its handler or not.
FamilyFlags == chld \in BOOLEAN /\ reaping \in BOOLEAN

LEMMA FamilyFlagsNext == FamilyFlags /\ [Family!FamilyNext]_familyV => FamilyFlags'
<1> SUFFICES ASSUME FamilyFlags, [Family!FamilyNext]_familyV PROVE FamilyFlags'
  OBVIOUS
<1>1. ASSUME UNCHANGED <<chld, reaping>> PROVE FamilyFlags'
  BY <1>1 DEF FamilyFlags
<1>2. ASSUME NEW p, NEW why, Family!Dies(p, why) PROVE FamilyFlags'
  BY <1>2 DEF FamilyFlags, Family!Dies
<1>3. CASE Family!ChildHandler
  BY <1>3 DEF FamilyFlags, Family!ChildHandler, Family!Reap
<1>4. ASSUME NEW p \in Family!Process,
             \/ Family!ForkCall(p) \/ Family!ExecCall(p) \/ Family!WaitCall(p)
             \/ Family!PollCall(p) \/ Family!WorkDone(p) \/ Family!SetpgidCall(p)
             \/ Family!KillGroupCall(p) \/ Family!PipeCall(p) \/ Family!EndCall(p)
             \/ Family!ListCall(p) \/ Family!ReadCall(p)
      PROVE  FamilyFlags'
  BY <1>1, <1>4
  DEF Family!ForkCall, Family!ExecCall, Family!WaitCall, Family!PollCall, Family!WorkDone,
      Family!SetpgidCall, Family!KillGroupCall, Family!PipeCall, Family!EndCall,
      Family!ListCall, Family!ReadCall
<1>5. ASSUME NEW p \in Family!Process,
             \/ Family!Usr1Handler(p) \/ Family!WriteCall(p) \/ Family!Exits(p)
             \/ Family!KillChild(p)
      PROVE  FamilyFlags'
  BY <1>1, <1>2, <1>5
  DEF Family!Usr1Handler, Family!WriteCall, Family!Exits, Family!KillChild
<1>6. CASE UNCHANGED familyV
  BY <1>1, <1>6 DEF familyV
<1> QED
  BY <1>3, <1>4, <1>5, <1>6 DEF Family!FamilyNext, Family!Step

------------------------------------------------------------------------------
(* The ranges of the variables of the first shell, and where in a line it is. *)

LocRanges ==
  /\ loc.cmd \in 1..(Len(line) + 1) /\ loc.curr \in 1..(Len(line) + 1)
  /\ loc.op \in Operators \cup {"none"} /\ loc.pid \in Proc \cup {-1}
  /\ loc.pipe_rd \in Descriptors \cup {NoFd}
  /\ pc \in {"prompt", "exited"} => loc.cmd = 1 /\ loc.curr = 1
  /\ pc \in {"execute", "restore", "andwait"} /\ loc.op \in {"|", "&&"} =>
       loc.end \in 1..Len(line)
  /\ pc = "andwait" => loc.op = "&&"

Ranges ==
  /\ typed \in 0..MaxLines /\ line \in Seq(STRING)
  /\ \A p \in Proc : procs[p].fds \subseteq Descriptors
  /\ \A k \in DOMAIN data : data[k] \in 0..PipeSize
  /\ sigchld \in BOOLEAN /\ detached \subseteq Proc /\ interrupted \subseteq Proc

\* The least element Min() takes is there.
LEMMA MinIsThere == ASSUME NEW T \in SUBSET Nat, T # {} PROVE Min(T) \in T
<1> DEFINE less == {q \in Nat \X Nat : q[1] < q[2]}
<1>1. IsWellFoundedOn(less, Nat)
  BY NatLessThanWellFounded, Zenon DEF OpToRel
<1>2. PICK x \in T : \A y \in T : ~ (<<y, x>> \in less)
  BY <1>1, WFMin
<1>3. \A y \in T : ~(y < x)
  BY <1>2
<1>4. \A y \in T : x <= y
  BY <1>3
<1> QED
  BY <1>4 DEF Min

\* get_op_type() stays within the line.
LEMMA OpTypeProperties ==
  ASSUME line \in Seq(STRING), NEW c \in 1..(Len(line) + 1)
  PROVE  /\ OpType(c) \in Operators \cup {"none"}
         /\ OpType(c) \notin {"none", "&"} => EndOf(c) \in 1..Len(line)
         /\ EndOf(c) \in 1..(Len(line) + 1)
<1> DEFINE T == {j \in c..Len(line) : line[j] \in Operators} \cup {Len(line) + 1}
<1>1. Len(line) \in Nat
  OBVIOUS
<1>2. T \in SUBSET Nat /\ Len(line) + 1 \in T
  BY <1>1
<1>3. EndOf(c) \in T
  BY <1>2, MinIsThere DEF EndOf
<1>4. EndOf(c) \in 1..(Len(line) + 1)
  BY <1>1, <1>3
<1>5. EndOf(c) <= Len(line) => line[EndOf(c)] \in Operators /\ OpType(c) = line[EndOf(c)]
  BY <1>1, <1>3 DEF OpType
<1>6. ~(EndOf(c) <= Len(line)) => OpType(c) \in {"&", "none"}
  BY DEF OpType
<1> QED
  BY <1>1, <1>4, <1>5, <1>6 DEF Operators

LEMMA RangesInit == Init => LocRanges /\ Ranges
<1> SUFFICES ASSUME Init PROVE LocRanges /\ Ranges
  OBVIOUS
<1>1. /\ pc = "prompt" /\ line = <<>> /\ typed = 0 /\ loc = Locals /\ data = <<>>
      /\ procs = [p \in Proc |-> NoProc] /\ sigchld = FALSE
      /\ detached = {} /\ interrupted = {}
  BY DEF Init
<1>2. line \in Seq(STRING) /\ Len(line) = 0 /\ DOMAIN data = {} /\ 0 \in 0..MaxLines
  BY <1>1, LinesAssumption
<1>3. \A p \in Proc : procs[p].fds = {}
  BY <1>1 DEF NoProc
<1>4. LocRanges
  BY <1>1, <1>2 DEF Locals, LocRanges
<1>5. Ranges
  BY <1>1, <1>2, <1>3 DEF Ranges
<1> QED
  BY <1>4, <1>5


\* LinesAssumption: the words of a line are strings.
LEMMA ReadLineRanges ==
  ASSUME IInv, LocRanges, Ranges, NEW l \in Lines, ReadLine(l)
  PROVE  LocRanges' /\ Ranges'
<1>1. /\ pc = "prompt" /\ pc' \in {"prompt", "chain", "exited"} /\ line' = l
      /\ typed < MaxLines /\ typed' = typed + 1
      /\ UNCHANGED <<loc, procs, data, sigchld, detached, interrupted>>
  BY DEF ReadLine, historyVars
<1>2. line' \in Seq(STRING) /\ Len(line') \in Nat /\ Descriptors' = Descriptors
  BY <1>1, LinesAssumption DEF Descriptors
<1>3. typed' \in 0..MaxLines
  BY <1>1, LinesAssumption DEF Ranges
<1>4. LocRanges'
  <2>1. loc.cmd = 1 /\ loc.curr = 1 /\ 1 \in 1..(Len(line') + 1)
    BY <1>1, <1>2 DEF LocRanges
  <2> QED
    BY <1>1, <1>2, <2>1 DEF LocRanges
<1>5. Ranges'
  BY <1>1, <1>2, <1>3 DEF Ranges
<1> QED
  BY <1>4, <1>5

LEMMA ScanCommandRanges ==
  IInv /\ LocRanges /\ Ranges /\ ScanCommand => LocRanges' /\ Ranges'
<1> SUFFICES ASSUME IInv, LocRanges, Ranges, ScanCommand PROVE LocRanges' /\ Ranges'
  OBVIOUS
<1>1. /\ pc = "chain" /\ pc' = "execute"
      /\ UNCHANGED <<line, typed, procs, data, sigchld, detached, interrupted>>
  BY DEF ScanCommand, historyVars
<1>2. DOMAIN loc = LocFields /\ loc.curr \in 1..(Len(line) + 1) /\ line \in Seq(STRING)
  BY DEF IInv, Shapes, LocRanges, Ranges
<1>3. /\ loc'.op = OpType(loc.curr) /\ loc'.end = EndOf(loc.curr)
      /\ loc'.cmd = loc.cmd /\ loc'.curr = loc.curr
      /\ loc'.pid = loc.pid /\ loc'.pipe_rd = loc.pipe_rd
  BY <1>2 DEF ScanCommand, LocFields
<1>4. loc'.op \in Operators \cup {"none"}
      /\ (loc'.op \in {"|", "&&"} => loc'.end \in 1..Len(line))
  BY <1>2, <1>3, OpTypeProperties
<1>5. Descriptors' = Descriptors
  BY <1>1 DEF Descriptors
<1>6. LocRanges'
  BY <1>1, <1>3, <1>4, <1>5 DEF LocRanges
<1>7. Ranges'
  BY <1>1, <1>5 DEF Ranges
<1> QED
  BY <1>6, <1>7

LEMMA GotoErrorExitRanges ==
  ASSUME IInv, LocRanges, pc = "chain", GotoErrorExit, UNCHANGED <<line, data>>
  PROVE  LocRanges'
<1>1. DOMAIN loc = LocFields
  BY DEF IInv, Shapes
<1>2. /\ pc' = "wait" /\ loc'.op = loc.op /\ loc'.cmd = loc.cmd /\ loc'.curr = loc.curr
      /\ loc'.pid = loc.pid /\ loc'.pipe_rd = loc.pipe_rd
  BY <1>1 DEF GotoErrorExit, LocFields
<1>3. Descriptors' = Descriptors
  BY DEF Descriptors
<1> QED
  BY <1>2, <1>3 DEF LocRanges

\* A new pipe or file: what was a descriptor still is one, and its data is in range.
LEMMA NewObjectRanges ==
  ASSUME IInv, Ranges, data' = Append(data, 0), UNCHANGED procs
  PROVE  /\ \A p \in Proc : procs'[p].fds \subseteq Descriptors'
         /\ \A k \in DOMAIN data' : data'[k] \in 0..PipeSize
         /\ Descriptors \subseteq Descriptors' /\ Fds(NewObject) \subseteq Descriptors'
<1>1. Descriptors' = Descriptors \cup Fds(NewObject)
  BY NewDescriptors DEF IInv
<1>2. data \in Seq(Int) /\ Len(data) \in Nat /\ DOMAIN data = 1..Len(data)
  BY DEF IInv, Shapes
<1>3. /\ Len(data') = Len(data) + 1 /\ DOMAIN data' = 1..Len(data')
      /\ \A k \in 1..Len(data) : data'[k] = data[k]
      /\ data'[Len(data) + 1] = 0
  BY <1>2, AppendProperties
<1>4. 0 \in 0..PipeSize
  BY PipeAssumption
<1>5. ASSUME NEW k \in DOMAIN data' PROVE data'[k] \in 0..PipeSize
  <2>1. CASE k \in 1..Len(data)
    BY <1>2, <1>3, <2>1 DEF Ranges
  <2>2. CASE k = Len(data) + 1
    BY <1>3, <1>4, <2>2
  <2> QED
    BY <1>2, <1>3, <2>1, <2>2
<1> QED
  BY <1>1, <1>5 DEF Ranges

LEMMA ScanPipeRanges ==
  IInv /\ LocRanges /\ Ranges /\ ScanPipe => LocRanges' /\ Ranges'
<1> SUFFICES ASSUME IInv, LocRanges, Ranges, ScanPipe PROVE LocRanges' /\ Ranges'
  OBVIOUS
<1>1. /\ pc = "chain" /\ OpType(loc.curr) = "|"
      /\ UNCHANGED <<line, typed, procs, sigchld, detached, interrupted>>
  BY DEF ScanPipe, historyVars
<1>2. CASE GotoErrorExit /\ UNCHANGED data
  <2>1. Descriptors' = Descriptors
    BY <1>2 DEF Descriptors
  <2>2. Ranges'
    BY <1>1, <1>2, <2>1 DEF Ranges
  <2> QED
    BY <1>1, <1>2, <2>2, GotoErrorExitRanges
<1> DEFINE rd == <<"r", NewObject>>
           wr == <<"w", NewObject>>
<1>3. CASE /\ data' = Append(data, 0)
           /\ loc' = [loc EXCEPT !.op = "|", !.end = EndOf(loc.curr), !.pipe_rd = rd,
                                 !.fd_out = IF @ = NoFd THEN wr ELSE @]
           /\ pc' = "execute"
  <2>1. DOMAIN loc = LocFields /\ loc.curr \in 1..(Len(line) + 1) /\ line \in Seq(STRING)
    BY DEF IInv, Shapes, LocRanges, Ranges
  <2>2. /\ loc'.op = "|" /\ loc'.end = EndOf(loc.curr) /\ loc'.pipe_rd = rd
        /\ loc'.cmd = loc.cmd /\ loc'.curr = loc.curr /\ loc'.pid = loc.pid
    BY <1>3, <2>1 DEF LocFields
  <2>3. loc'.end \in 1..Len(line)
    BY <1>1, <2>1, <2>2, OpTypeProperties
  <2>4. /\ \A p \in Proc : procs'[p].fds \subseteq Descriptors'
        /\ \A k \in DOMAIN data' : data'[k] \in 0..PipeSize
        /\ Fds(NewObject) \subseteq Descriptors'
    BY <1>1, <1>3, NewObjectRanges
  <2>5. rd \in Descriptors'
    BY <2>4 DEF Fds
  <2>6. LocRanges'
    BY <1>1, <1>3, <2>2, <2>3, <2>5 DEF LocRanges, Operators
  <2>7. Ranges'
    BY <1>1, <2>4 DEF Ranges
  <2> QED
    BY <2>6, <2>7
<1> QED
  BY <1>2, <1>3 DEF ScanPipe

LEMMA RedirectRanges ==
  ASSUME IInv, LocRanges, Ranges, NEW field \in {"fd_in", "fd_out"},
         NEW e \in 1..Len(line), Redirect(field, e), pc = "chain",
         UNCHANGED <<line, typed, procs, sigchld, detached, interrupted>>
  PROVE  LocRanges' /\ Ranges'
<1>1. DOMAIN loc = LocFields /\ Len(line) \in Nat
  BY DEF IInv, Shapes, Ranges
<1>2. CASE GotoErrorExit /\ UNCHANGED data
  <2>1. Descriptors' = Descriptors
    BY <1>2 DEF Descriptors
  <2>2. Ranges'
    BY <1>2, <2>1 DEF Ranges
  <2> QED
    BY <1>2, <2>2, GotoErrorExitRanges
<1>3. CASE /\ e + 1 <= Len(line) /\ data' = Append(data, 0) /\ pc' = "chain"
           /\ loc' = [loc EXCEPT ![field] = <<"f", NewObject>>, !.curr = PastFile(e)]
  <2>1. /\ loc'.op = loc.op /\ loc'.pipe_rd = loc.pipe_rd
        /\ loc'.cmd = loc.cmd /\ loc'.curr = e + 2 /\ loc'.pid = loc.pid
    BY <1>1, <1>3 DEF LocFields, PastFile
  <2>2. e + 2 \in 1..(Len(line) + 1)
    <3>1. e + 1 <= Len(line)
      BY <1>3, Zenon
    <3> QED
      BY <1>1, <3>1
  <2>3. /\ \A p \in Proc : procs'[p].fds \subseteq Descriptors'
        /\ \A k \in DOMAIN data' : data'[k] \in 0..PipeSize
        /\ Descriptors \subseteq Descriptors'
    BY <1>3, NewObjectRanges
  <2>4. LocRanges'
    BY <1>3, <2>1, <2>2, <2>3 DEF LocRanges
  <2>5. Ranges'
    BY <2>3 DEF Ranges
  <2> QED
    BY <2>4, <2>5
<1>4. CASE /\ loc' = [loc EXCEPT ![field] = NoFd, !.idx = 1]
           /\ pc' = "wait" /\ UNCHANGED data
  <2>1. /\ loc'.op = loc.op /\ loc'.pipe_rd = loc.pipe_rd
        /\ loc'.cmd = loc.cmd /\ loc'.curr = loc.curr /\ loc'.pid = loc.pid
    BY <1>1, <1>4 DEF LocFields
  <2>2. Descriptors' = Descriptors
    BY <1>4 DEF Descriptors
  <2>3. LocRanges'
    BY <1>4, <2>1, <2>2 DEF LocRanges
  <2>4. Ranges'
    BY <1>4, <2>2 DEF Ranges
  <2> QED
    BY <2>3, <2>4
<1> QED
  BY <1>2, <1>3, <1>4 DEF Redirect

LEMMA ScanRedirectRanges ==
  IInv /\ LocRanges /\ Ranges /\ ScanRedirect => LocRanges' /\ Ranges'
<1> SUFFICES ASSUME IInv, LocRanges, Ranges, ScanRedirect PROVE LocRanges' /\ Ranges'
  OBVIOUS
<1>1. /\ pc = "chain" /\ OpType(loc.curr) \in {">", "<"}
      /\ UNCHANGED <<line, typed, procs, sigchld, detached, interrupted>>
      /\ \E field \in {"fd_in", "fd_out"} : Redirect(field, EndOf(loc.curr))
  BY DEF ScanRedirect, historyVars
<1>2. EndOf(loc.curr) \in 1..Len(line)
  BY <1>1, OpTypeProperties DEF LocRanges, Ranges
<1> QED
  BY <1>1, <1>2, RedirectRanges

\* Behind execute() the shell goes on behind the operator, if it goes on at all.
LEMMA AfterExecuteRanges ==
  ASSUME IInv, LocRanges, Ranges, pc \in {"execute", "restore"},
         NEW pid \in Proc \cup {-1}, AfterExecute(pid), UNCHANGED <<line, data>>
  PROVE  LocRanges'
<1> DEFINE ran == [loc EXCEPT !.fd_in = NoFd, !.fd_out = NoFd, !.pipe_rd = NoFd, !.idx = 1,
                              !.pid = pid, !.pids = IF pid > 0 THEN Append(@, pid) ELSE @]
           next == loc.end + 1
<1>1. DOMAIN loc = LocFields
  BY DEF IInv, Shapes
<1>2. /\ DOMAIN ran = LocFields /\ ran.pid = pid /\ ran.pipe_rd = NoFd
      /\ ran.cmd = loc.cmd /\ ran.curr = loc.curr /\ ran.op = loc.op /\ ran.end = loc.end
  BY <1>1 DEF LocFields
<1>3. loc.op \in {"|", "&&"} => loc.end \in 1..Len(line) /\ next \in 1..(Len(line) + 1)
  <2>1. Len(line) \in Nat /\ (loc.op \in {"|", "&&"} => loc.end \in 1..Len(line))
    BY DEF LocRanges, Ranges
  <2> QED
    BY <2>1
<1>4. \/ pc' = "wait" /\ loc' = ran
      \/ /\ loc.op = "|" /\ pc' = "chain"
         /\ loc' = [ran EXCEPT !.cmd = next, !.curr = next, !.fd_in = loc.pipe_rd]
      \/ /\ loc.op = "&&" /\ pc' = "andwait"
         /\ \E g : loc' = [ran EXCEPT !.status = g, !.last_status = 0]
  BY DEF AfterExecute
<1> HIDE DEF ran, next
<1>5. Descriptors' = Descriptors
  BY DEF Descriptors
<1>6. CASE pc' = "wait" /\ loc' = ran
  BY <1>2, <1>5, <1>6 DEF LocRanges
<1>7. CASE /\ loc.op = "|" /\ pc' = "chain"
           /\ loc' = [ran EXCEPT !.cmd = next, !.curr = next, !.fd_in = loc.pipe_rd]
  <2>1. /\ loc'.cmd = next /\ loc'.curr = next /\ loc'.op = loc.op
        /\ loc'.pid = pid /\ loc'.pipe_rd = NoFd
    BY <1>2, <1>7 DEF LocFields
  <2> QED
    BY <1>3, <1>5, <1>7, <2>1 DEF LocRanges
<1>8. CASE /\ loc.op = "&&" /\ pc' = "andwait"
           /\ \E g : loc' = [ran EXCEPT !.status = g, !.last_status = 0]
  <2>1. PICK g : loc' = [ran EXCEPT !.status = g, !.last_status = 0]
    BY <1>8
  <2>2. /\ loc'.cmd = loc.cmd /\ loc'.curr = loc.curr /\ loc'.op = loc.op
        /\ loc'.pid = pid /\ loc'.pipe_rd = NoFd /\ loc'.end = loc.end
    BY <1>2, <2>1 DEF LocFields
  <2> QED
    BY <1>3, <1>5, <1>8, <2>2 DEF LocRanges
<1> QED
  BY <1>4, <1>6, <1>7, <1>8

LEMMA ExecuteRanges ==
  IInv /\ LocRanges /\ Ranges /\ (ExecuteNothing \/ ExecuteInShell \/ Restore)
    => LocRanges' /\ Ranges'
<1> SUFFICES ASSUME IInv, LocRanges, Ranges, ExecuteNothing \/ ExecuteInShell \/ Restore
             PROVE  LocRanges' /\ Ranges'
  OBVIOUS
<1>1. UNCHANGED <<line, typed, procs, data, sigchld, detached, interrupted>>
  BY DEF ExecuteNothing, ExecuteInShell, Restore, historyVars
<1>2. pc = "restore" => loc.pid \in Proc
  BY DEF IInv, Known
<1>3. pc \in {"execute", "restore"} /\ \E pid \in Proc \cup {-1} : AfterExecute(pid)
  BY <1>2 DEF ExecuteNothing, ExecuteInShell, Restore
<1>4. Descriptors' = Descriptors
  BY <1>1 DEF Descriptors
<1>5. Ranges'
  BY <1>1, <1>4 DEF Ranges
<1> QED
  BY <1>1, <1>3, <1>5, AfterExecuteRanges

LEMMA ForkRanges == IInv /\ LocRanges /\ Ranges /\ Fork => LocRanges' /\ Ranges'
<1> SUFFICES ASSUME IInv, LocRanges, Ranges, Fork PROVE LocRanges' /\ Ranges'
  OBVIOUS
<1>1. /\ pc = "execute" /\ pc' = "restore"
      /\ UNCHANGED <<line, typed, data, sigchld, detached, interrupted>>
  BY DEF Fork, historyVars
<1>2. PICK p \in Proc :
        /\ procs' = [procs EXCEPT ![p] =
                       [state |-> "running", prog |-> Program, in |-> loc.fd_in,
                        out |-> loc.fd_out, fds |-> shellFds, left |-> FloodSize,
                        code |-> 0]]
        /\ loc' = [loc EXCEPT !.pid = p]
  BY DEF Fork
<1>3. DOMAIN procs = Proc /\ DOMAIN loc = LocFields /\ shellFds \subseteq Descriptors
  BY DEF IInv, Shapes, Accounted
<1>4. Descriptors' = Descriptors
  BY <1>1 DEF Descriptors
<1>5. ASSUME NEW q \in Proc PROVE procs'[q].fds \subseteq Descriptors'
  BY <1>2, <1>3, <1>4 DEF Ranges
<1>6. /\ loc'.cmd = loc.cmd /\ loc'.curr = loc.curr /\ loc'.op = loc.op
      /\ loc'.pid = p /\ loc'.pipe_rd = loc.pipe_rd /\ loc'.end = loc.end
  BY <1>2, <1>3 DEF LocFields
<1>7. LocRanges'
  BY <1>1, <1>4, <1>6 DEF LocRanges
<1>8. Ranges'
  BY <1>1, <1>4, <1>5 DEF Ranges
<1> QED
  BY <1>7, <1>8

\* waitpid() leaves the descriptors of the others alone.
LEMMA WaitpidRanges ==
  ASSUME IInv, Ranges, NEW p \in Proc, Waitpid(p),
         UNCHANGED <<line, typed, data, sigchld, detached, interrupted>>
  PROVE  Ranges'
<1>1. DOMAIN procs = Proc /\ DOMAIN procs[p] = ProcFields
  BY DEF IInv, Shapes
<1>2. procs' = [procs EXCEPT ![p] = [procs[p] EXCEPT !.state = "reaped"]]
  BY DEF Waitpid
<1>3. \A q \in Proc : procs'[q].fds = procs[q].fds
  BY <1>1, <1>2 DEF ProcFields
<1>4. Descriptors' = Descriptors
  BY DEF Descriptors
<1> QED
  BY <1>3, <1>4 DEF Ranges

LEMMA WaitingRanges ==
  IInv /\ LocRanges /\ Ranges /\ (AndWait \/ AndDecide \/ WaitAll \/ Finish)
    => LocRanges' /\ Ranges'
<1> SUFFICES ASSUME IInv, LocRanges, Ranges, AndWait \/ AndDecide \/ WaitAll \/ Finish
             PROVE  LocRanges' /\ Ranges'
  OBVIOUS
<1>1. /\ DOMAIN loc = LocFields /\ loc.pids \in Seq(Proc) /\ loc.idx \in Nat \ {0}
      /\ Len(loc.pids) \in Nat
  BY DEF IInv, Shapes
<1>2. UNCHANGED data /\ Descriptors' = Descriptors
  BY DEF AndWait, AndDecide, WaitAll, Finish, Descriptors
<1>3. loc.idx <= Len(loc.pids) => loc.pids[loc.idx] \in Proc
  BY <1>1
<1>4. CASE AndWait
  <2>1. PICK s, t : loc' = [loc EXCEPT !.idx = @ + 1, !.status = s, !.last_status = t]
    BY <1>4 DEF AndWait
  <2>2. /\ loc'.cmd = loc.cmd /\ loc'.curr = loc.curr /\ loc'.op = loc.op
        /\ loc'.pid = loc.pid /\ loc'.pipe_rd = loc.pipe_rd /\ loc'.end = loc.end
    BY <1>1, <2>1 DEF LocFields
  <2>3. UNCHANGED <<pc, line, typed, sigchld, detached, interrupted>>
    BY <1>4 DEF AndWait, historyVars
  <2>4. LocRanges'
    BY <1>2, <2>2, <2>3 DEF LocRanges
  <2>5. Waitpid(loc.pids[loc.idx]) /\ loc.pids[loc.idx] \in Proc
    BY <1>3, <1>4 DEF AndWait
  <2> QED
    BY <1>2, <2>3, <2>4, <2>5, WaitpidRanges
<1>5. CASE WaitAll
  <2>1. /\ loc'.cmd = loc.cmd /\ loc'.curr = loc.curr /\ loc'.op = loc.op
        /\ loc'.pid = loc.pid /\ loc'.pipe_rd = loc.pipe_rd /\ loc'.end = loc.end
    BY <1>1, <1>5 DEF LocFields, WaitAll
  <2>2. UNCHANGED <<pc, line, typed, sigchld, detached, interrupted>>
    BY <1>5 DEF WaitAll, historyVars
  <2>3. LocRanges'
    BY <1>2, <2>1, <2>2 DEF LocRanges
  <2>4. Waitpid(loc.pids[loc.idx]) /\ loc.pids[loc.idx] \in Proc
    BY <1>3, <1>5 DEF WaitAll
  <2> QED
    BY <1>2, <2>2, <2>3, <2>4, WaitpidRanges
<1>6. CASE AndDecide
  <2>1. pc = "andwait" /\ UNCHANGED <<line, typed, procs, sigchld, detached, interrupted>>
    BY <1>6 DEF AndDecide, historyVars
  <2>2. loc.end \in 1..Len(line) /\ Len(line) \in Nat
    BY <2>1 DEF LocRanges, Ranges
  <2>3. loc.end + 1 \in 1..(Len(line) + 1)
    BY <2>2
  <2>4. /\ pc' \in {"wait", "chain"} /\ loc'.op = loc.op
        /\ loc'.pid = loc.pid /\ loc'.pipe_rd = loc.pipe_rd
        /\ loc'.cmd \in {loc.cmd, loc.end + 1} /\ loc'.curr \in {loc.curr, loc.end + 1}
    <3>1. CASE pc' = "wait" /\ loc' = [loc EXCEPT !.pids = <<>>, !.idx = 1]
      BY <1>1, <3>1 DEF LocFields
    <3>2. CASE /\ pc' = "chain"
               /\ loc' = [loc EXCEPT !.pids = <<>>, !.cmd = loc.end + 1, !.curr = loc.end + 1]
      BY <1>1, <3>2 DEF LocFields
    <3> QED
      BY <1>6, <3>1, <3>2 DEF AndDecide
  <2>5. LocRanges'
    BY <1>2, <2>1, <2>3, <2>4 DEF LocRanges
  <2>6. Ranges'
    BY <1>2, <2>1 DEF Ranges
  <2> QED
    BY <2>5, <2>6
<1>7. CASE Finish
  <2>1. /\ pc' = "prompt" /\ line' = <<>> /\ loc' = Locals
        /\ detached' = detached \cup IF loc.background THEN Range(loc.pids) ELSE {}
        /\ UNCHANGED <<typed, procs, sigchld, interrupted>>
    BY <1>7 DEF Finish
  <2>2. Range(loc.pids) \subseteq Proc
    BY <1>1 DEF Range
  <2>3. line' \in Seq(STRING) /\ Len(line') = 0
    BY <2>1
  <2>4. LocRanges'
    BY <2>1, <2>3 DEF Locals, LocRanges
  <2>5. Ranges'
    BY <1>2, <2>1, <2>2, <2>3 DEF Ranges
  <2> QED
    BY <2>4, <2>5
<1> QED
  BY <1>4, <1>5, <1>6, <1>7

\* A step that is not the shell's leaves its place alone.
LEMMA LocRangesKept ==
  ASSUME LocRanges, UNCHANGED <<pc, line, loc>>, DOMAIN data' = DOMAIN data
  PROVE  LocRanges' /\ Descriptors' = Descriptors
<1>1. Descriptors' = Descriptors
  BY DEF Descriptors
<1> QED
  BY <1>1 DEF LocRanges

LEMMA HandlersRanges ==
  IInv /\ LocRanges /\ Ranges /\ (ChildHandler \/ CtrlC) => LocRanges' /\ Ranges'
<1> SUFFICES ASSUME IInv, LocRanges, Ranges, ChildHandler \/ CtrlC
             PROVE  LocRanges' /\ Ranges'
  OBVIOUS
<1>1. UNCHANGED <<pc, line, loc, data, typed, detached>>
  BY DEF ChildHandler, CtrlC, historyVars
<1>2. LocRanges' /\ Descriptors' = Descriptors
  BY <1>1, LocRangesKept
<1>3. DOMAIN procs = Proc /\ \A p \in Proc : DOMAIN procs[p] = ProcFields
  BY DEF IInv, Shapes
<1>4. CASE ChildHandler
  <2>1. ASSUME NEW p \in Proc PROVE procs'[p].fds = procs[p].fds
    BY <1>3, <1>4 DEF ChildHandler, ProcFields
  <2>2. sigchld' \in BOOLEAN /\ UNCHANGED interrupted
    BY <1>4 DEF ChildHandler, historyVars
  <2>3. Ranges'
    BY <1>1, <1>2, <2>1, <2>2 DEF Ranges
  <2> QED
    BY <1>2, <2>3
<1>5. CASE CtrlC
  <2>1. interrupted' \subseteq Proc /\ UNCHANGED <<procs, sigchld>>
    BY <1>5 DEF CtrlC, ShellSigint, Foreground
  <2>2. Ranges'
    BY <1>1, <1>2, <2>1 DEF Ranges
  <2> QED
    BY <1>2, <2>2
<1> QED
  BY <1>4, <1>5

\* No pipe ever holds more than it can, nor less than nothing.
LEMMA ChildStepRanges ==
  ASSUME IInv, LocRanges, Ranges, NEW p \in Proc, ChildStep(p)
  PROVE  LocRanges' /\ Ranges'
<1>1. UNCHANGED <<pc, line, typed, loc, detached, interrupted>>
  BY DEF ChildStep, historyVars
<1>2. /\ DOMAIN procs = Proc /\ \A q \in Proc : DOMAIN procs[q] = ProcFields
      /\ data \in Seq(Int)
  BY DEF IInv, Shapes
<1>3. ASSUME NEW status, ExitsWith(p, status)
      PROVE  sigchld' = TRUE /\ \A q \in Proc : procs'[q].fds \subseteq procs[q].fds
  BY <1>2, <1>3 DEF ExitsWith, Dead, ProcFields
<1>4. ASSUME DOMAIN data' = DOMAIN data, \A k \in DOMAIN data : data'[k] \in 0..PipeSize,
             sigchld' \in BOOLEAN, \A q \in Proc : procs'[q].fds \subseteq procs[q].fds
      PROVE  LocRanges' /\ Ranges'
  <2>1. LocRanges' /\ Descriptors' = Descriptors
    BY <1>1, <1>4, LocRangesKept
  <2>2. Ranges'
    BY <1>1, <1>4, <2>1 DEF Ranges
  <2> QED
    BY <2>1, <2>2
<1>5. \A k \in DOMAIN data : data[k] \in 0..PipeSize
  BY DEF Ranges
<1>6. sigchld \in BOOLEAN /\ PipeSize \in Nat
  BY PipeAssumption DEF Ranges
<1>7. CASE SimpleExit(p) \/ SinkEnds(p) \/ FloodEnds(p)
  <2>1. UNCHANGED data /\ \E status : ExitsWith(p, status)
    BY <1>7 DEF SimpleExit, SinkEnds, FloodEnds
  <2> QED
    BY <1>3, <1>4, <1>5, <2>1
<1>8. CASE SinkReads(p)
  <2>1. PICK k : data[k] > 0 /\ data' = [data EXCEPT ![k] = data[k] - 1]
    BY <1>8 DEF SinkReads
  <2>2. DOMAIN data' = DOMAIN data /\ UNCHANGED <<procs, sigchld>>
    BY <1>8, <2>1 DEF SinkReads
  <2>3. ASSUME NEW j \in DOMAIN data PROVE data'[j] \in 0..PipeSize
    <3>1. data[j] \in 0..PipeSize /\ (data'[j] = data[j] \/ (j = k /\ data'[j] = data[j] - 1))
      BY <1>5, <2>1
    <3> QED
      BY <1>6, <2>1, <3>1
  <2> QED
    BY <1>4, <1>6, <2>2, <2>3
<1>9. CASE FloodWrites(p)
  <2>1. CASE UNCHANGED data /\ ExitsWith(p, Killed)
    BY <1>3, <1>4, <1>5, <2>1
  <2>2. ASSUME NEW k, data[k] < PipeSize, data' = [data EXCEPT ![k] = data[k] + 1],
               procs' = [procs EXCEPT ![p].left = @ - 1], UNCHANGED sigchld
        PROVE  LocRanges' /\ Ranges'
    <3>1. DOMAIN data' = DOMAIN data /\ \A q \in Proc : procs'[q].fds = procs[q].fds
      BY <1>2, <2>2 DEF ProcFields
    <3>2. ASSUME NEW j \in DOMAIN data PROVE data'[j] \in 0..PipeSize
      <4>1. data[j] \in 0..PipeSize /\ (data'[j] = data[j] \/ (j = k /\ data'[j] = data[j] + 1))
        BY <1>5, <2>2
      <4> QED
        BY <1>6, <2>2, <4>1
    <3> QED
      BY <1>4, <1>6, <2>2, <3>1, <3>2
  <2> QED
    BY <1>9, <2>1, <2>2 DEF FloodWrites
<1> QED
  BY <1>7, <1>8, <1>9 DEF ChildStep

LEMMA RangesNext ==
  IInv /\ LocRanges /\ Ranges /\ [Next]_vars => LocRanges' /\ Ranges'
<1> SUFFICES ASSUME IInv, LocRanges, Ranges, [Next]_vars PROVE LocRanges' /\ Ranges'
  OBVIOUS
<1>1. CASE ShellStep
  BY <1>1, ScanCommandRanges, ScanPipeRanges, ScanRedirectRanges, ExecuteRanges, ForkRanges,
     WaitingRanges DEF ShellStep
<1>2. CASE UNCHANGED vars
  <2>1. LocRanges' /\ Descriptors' = Descriptors
    BY <1>2, LocRangesKept DEF vars
  <2> QED
    BY <1>2, <2>1 DEF Ranges, vars, historyVars
<1> QED
  BY <1>1, <1>2, ReadLineRanges, HandlersRanges, ChildStepRanges DEF Next

LEMMA TypesOfLab == IInv /\ LocRanges /\ Ranges => TypeOK
<1> SUFFICES ASSUME Shapes, Accounted, LocRanges, Ranges PROVE TypeOK
  BY DEF IInv
<1>1. Range(loc.pids) \subseteq Proc
  BY DEF Shapes, Range
<1>2. Held \subseteq Descriptors /\ leaked \subseteq Descriptors
  BY DEF Accounted, HeldNow
<1>3. {loc.fd_in, loc.fd_out, loc.pipe_rd} \subseteq Descriptors \cup {NoFd}
  BY <1>2 DEF Held, LocRanges
<1> QED
  BY <1>1, <1>2, <1>3 DEF TypeOK, Shapes, Accounted, LocRanges, Ranges

------------------------------------------------------------------------------
(* A session with one of the shells. *)

LEMMA ShellsStep ==
  [ShellsNext]_<<shell, vars, pipeVars, familyV>>
    => [Next]_vars /\ [Lab2!Next]_pipeVars /\ [Family!FamilyNext]_familyV
<1> SUFFICES ASSUME [ShellsNext]_<<shell, vars, pipeVars, familyV>>
             PROVE  [Next]_vars /\ [Lab2!Next]_pipeVars /\ [Family!FamilyNext]_familyV
  OBVIOUS
<1>1. CASE Next /\ UNCHANGED <<shell, pipeVars, familyV>>
  BY <1>1
<1>2. CASE Lab2!Next /\ UNCHANGED <<shell, vars, familyV>>
  BY <1>2
<1>3. CASE Family!FamilyNext /\ UNCHANGED <<shell, vars, pipeVars>>
  BY <1>3
<1>4. CASE UNCHANGED <<shell, vars, pipeVars, familyV>>
  BY <1>4
<1> QED
  BY <1>1, <1>2, <1>3, <1>4 DEF ShellsNext

\* What holds throughout a session or a run.
SessionInv == IInv /\ LocRanges /\ Ranges /\ PipeInv /\ FamilyInv /\ FamilyFlags

\* Whichever shell the session is with, the others keep what holds where they start.
LEMMA ShellsInvariance == ShellsSpec => []SessionInv
<1>1. ShellsInit => SessionInv
  BY InitInv, RangesInit, PipeInitInv, FamilyInitInv
  DEF ShellsInit, SessionInv, FamilyFlags, Family!FamilyInit
<1>2. SessionInv /\ [ShellsNext]_<<shell, vars, pipeVars, familyV>> => SessionInv'
  BY NextInv, RangesNext, PipeNextInv, FamilyNextInv, FamilyFlagsNext, ShellsStep
  DEF SessionInv
<1> QED
  BY <1>1, <1>2, PTL DEF ShellsSpec

LEMMA ForegroundFromInv == IInv => ForegroundFinished
<1> SUFFICES ASSUME IInv PROVE ForegroundFinished
  OBVIOUS
<1>1. CASE pc = "prompt"
  <2>1. loc.pids = <<>> /\ Range(<<>>) = {}
    BY <1>1 DEF IInv, Known, Range
  <2> QED
    BY <1>1, <2>1 DEF IInv, Known, ForegroundFinished, Foreground
<1>2. CASE pc = "andwait" /\ AllWaitedFor
  BY <1>2, LoopOver DEF ForegroundFinished, Foreground
<1> QED
  BY <1>1, <1>2 DEF ForegroundFinished

\* is_executable() returns, and goes on behind &&, only when no child of the line runs,
\* although child_handler() may reap each of them before waitpid() does.
THEOREM ForegroundDone == Spec => []ForegroundFinished
  BY ForegroundFromInv, Invariance, PTL

\* The same of a session with either shell: in lab2, at the prompt the child of each
\* foreground line is reaped, whether child_handler() or waitpid() came first.
THEOREM ForegroundIsOver == ShellsSpec => []ForegroundOver
<1>1. PipeInv => Lab2!ForegroundDone
  <2> SUFFICES ASSUME PipeInv, pc2 = "read", NEW n \in 1..Lab2!Now,
                      child[n].state # "none", ~Lab2!Background(lines[n])
               PROVE  child[n].state = "reaped"
    BY DEF Lab2!ForegroundDone
  <2> QED
    BY DEF PipeInv, PipeWaited, PipeOver, Lab2!Now
<1>2. SessionInv => ForegroundOver
  BY <1>1, ForegroundFromInv DEF ForegroundOver, SessionInv
<1> QED
  BY <1>2, ShellsInvariance, PTL

\* The programs of one parent and its children, whichever fork() fails and whoever is
\* killed: a child outlives its parent for one of the reasons named, and SIGUSR1 stays in
\* the group it is sent to.
THEOREM OrphansHaveReasons == ShellsSpec => []OrphansExplained
<1>1. SessionInv => OrphansExplained
  BY DEF SessionInv, FamilyInv, OrphansExplained
<1> QED
  BY <1>1, ShellsInvariance, PTL

LEMMA TypesOfLab2 == PipeInv => Lab2!TypeOK
<1> SUFFICES ASSUME PipeShapes, PipeProcesses PROVE Lab2!TypeOK
  BY DEF PipeInv
<1>1. \A n \in Lab2!LineNo :
        /\ child[n].state \in PipeChildStates /\ writer[n].state \in PipeWriterStates
        /\ child[n].ends \subseteq {"r", "w"} /\ writer[n].ends \subseteq {"r", "w"}
        /\ data2[n] \in 0..PipeSize
  BY DEF PipeShapes, ProcShape
<1> QED
  BY <1>1 DEF PipeShapes, PipeProcesses, PipeChildStates, PipeWriterStates, Lab2!TypeOK, Lab2!Now

LEMMA TypesOfFamilies == FamilyInv /\ FamilyFlags => Family!FamilyTypeOK
<1> SUFFICES ASSUME FamilyShapes, FamilyData, FamilyTree, FamilyFlags
             PROVE  Family!FamilyTypeOK
  BY DEF FamilyInv
<1>1. ASSUME NEW p \in Family!Process, life[p] = "zombie"
      PROVE  parent[p] # "init" /\ life[parent[p]] = "alive"
  <2>1. parent[p] \in Family!Process \cup {"init"} /\ parent[p] # "init"
    BY <1>1 DEF FamilyTree, FamilyShapes
  <2>2. IsChild(p, parent[p])
    BY <1>1 DEF IsChild
  <2> QED
    BY <2>1, <2>2 DEF FamilyTree
<1>2. struck3 \subseteq {p \in Family!Process : life[p] = "alive"}
  BY DEF FamilyShapes, Family!Process
<1> QED
  BY <1>1, <1>2 DEF FamilyShapes, FamilyData, FamilyFlags, Family!FamilyTypeOK, Family!Alive,
                    Family!Root, Family!None

\* Both shells and the families, for any lines, sizes and numbers of processes: whatever a
\* line holds, get_op_type() and the words behind it stay within the line, the shell and its
\* children hold only descriptors that were opened, and no pipe holds more than it can.
THEOREM ShellsTypesKept == ShellsSpec => []ShellsTypeOK
<1>1. SessionInv => ShellsTypeOK
  BY TypesOfLab, TypesOfLab2, TypesOfFamilies DEF SessionInv, ShellsTypeOK
<1> QED
  BY <1>1, ShellsInvariance, PTL

==============================================================================
