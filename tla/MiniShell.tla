------------------------------ MODULE MiniShell ------------------------------
(***************************************************************************)
(* lab/: a shell with pipes, redirections, && and background commands.     *)
(* main() reads a line, is_executable() walks over it operator by operator *)
(* and calls execute() for each command; child_handler() reaps children    *)
(* whenever SIGCHLD arrives, between any two steps of the shell.           *)
(*                                                                         *)
(* A line is a sequence of tokens.  A token is an operator, a file name or *)
(* the name of a program; what the programs do is the environment:         *)
(*   "ok" / "fail"   exits with status 0 / 1 at any time                   *)
(*   "sink"          reads its input up to end-of-file, then exits with 0  *)
(*   "flood"         writes more than a pipe holds, then exits with 0      *)
(*   "long"          runs until a signal ends it                           *)
(*   "cd"            stands for the builtins hostname, cd and pwd          *)
(* A descriptor is <<"r", k>> or <<"w", k>>, an end of pipe k, or          *)
(* <<"f", k>>, an opened file.  The terminal on descriptors 0 to 2, and    *)
(* its copies saved by execute(), are not counted.                         *)
(***************************************************************************)
EXTENDS Integers, FiniteSets, SequencesExt

CONSTANTS Lines,     \* the command lines the user may type
          MaxLines,  \* bound on the number of lines typed
          MaxProcs,  \* bound on the children created, enough for MaxLines lines
          PipeSize,  \* units of data a pipe holds
          FloodSize  \* units of data a "flood" writes, more than PipeSize

ASSUME PipeAssumption == PipeSize \in Nat \ {0} /\ FloodSize > PipeSize
ASSUME LinesAssumption == Lines \subseteq Seq(STRING) /\ MaxLines \in Nat

Operators == {"|", ">", "<", "&&", "&"}
Builtins == {"cd"}
NoFd == <<"none", 0>>
Proc == 1..MaxProcs

VARIABLES
  pc,          \* where the shell is
  line,        \* the tokens of the current line
  typed,       \* number of lines read
  loc,         \* the locals of is_executable()
  shellFds,    \* descriptors the shell holds open
  procs,       \* the children, in order of creation
  data,        \* units of data in each pipe, 0 for an opened file
  sigchld,     \* SIGCHLD is pending
  leaked,      \* history: descriptors execute() returned without closing
  detached,    \* history: children of lines that ended in the background
  interrupted  \* history: foreground children running when Ctrl+C was typed

historyVars == <<leaked, detached, interrupted>>
vars == <<pc, line, typed, loc, shellFds, procs, data, sigchld, historyVars>>

\* The locals of is_executable() on entry.  op and end are the last results of
\* get_op_type(), pid that of execute(); idx is the position in a waiting loop.
Locals ==
  [cmd |-> 1, curr |-> 1, op |-> "none", end |-> 0, fd_in |-> NoFd, fd_out |-> NoFd,
   pipe_rd |-> NoFd, pids |-> <<>>, pid |-> -1, idx |-> 1, status |-> 0,
   last_status |-> 0, background |-> FALSE]

NoProc == [state |-> "none", prog |-> "", in |-> NoFd, out |-> NoFd, fds |-> {},
           left |-> 0, code |-> 0]

Init ==
  /\ pc = "prompt" /\ line = <<>> /\ typed = 0
  /\ loc = Locals
  /\ shellFds = {}
  /\ procs = [p \in Proc |-> NoProc]
  /\ data = <<>>
  /\ sigchld = FALSE
  /\ leaked = {} /\ detached = {} /\ interrupted = {}

------------------------------------------------------------------------------
\* get_op_type(): the first operator at or after position c, and its type.  A
\* last word that ends in "&" puts the command in the background as well.
EndOf(c) == Min({j \in c..Len(line) : line[j] \in Operators} \cup {Len(line) + 1})

OpType(c) ==
  IF EndOf(c) <= Len(line) THEN line[EndOf(c)]
  ELSE IF c <= Len(line) /\ line[Len(line)] = "ok&" THEN "&"
  ELSE "none"

\* arglist[0] of the current command is NULL: nothing is left of the line, or
\* the command begins with the operator get_op_type() has overwritten.
NoCommand == loc.cmd \in DOMAIN line => line[loc.cmd] \in Operators

\* The program named by the current command.
Program == IF line[loc.cmd] = "ok&" /\ loc.op = "&" THEN "ok" ELSE line[loc.cmd]

Held == {loc.fd_in, loc.fd_out} \ {NoFd}

NewObject == Len(data) + 1

------------------------------------------------------------------------------
\* main(): reads one line.  A builtin in first position is run by main() itself,
\* which ignores the rest of the line.
ReadLine(l) ==
  /\ pc = "prompt"
  /\ typed < MaxLines
  /\ typed' = typed + 1
  /\ line' = l
  /\ pc' = IF l[1] = "exit" THEN "exited"
           ELSE IF l[1] \in Builtins THEN "prompt" ELSE "chain"
  /\ UNCHANGED <<loc, shellFds, procs, data, sigchld, historyVars>>

------------------------------------------------------------------------------
\* is_executable(): one turn of chain_loop.

GotoErrorExit == pc' = "wait" /\ loc' = [loc EXCEPT !.idx = 1]

\* No operator, && or &: the command is complete.
ScanCommand ==
  /\ pc = "chain"
  /\ OpType(loc.curr) \in {"none", "&&", "&"}
  /\ loc' = [loc EXCEPT !.op = OpType(loc.curr), !.end = EndOf(loc.curr),
                        !.background = OpType(loc.curr) = "&"]
  /\ pc' = "execute"
  /\ UNCHANGED <<line, typed, shellFds, procs, data, sigchld, historyVars>>

\* |: a pipe is made; its write end is closed at once when the output of the
\* command is redirected already.  pipe() may fail.
ScanPipe ==
  /\ pc = "chain"
  /\ OpType(loc.curr) = "|"
  /\ \/ LET rd == <<"r", NewObject>>
            wr == <<"w", NewObject>>
        IN  /\ data' = Append(data, 0)
            /\ shellFds' = shellFds \cup IF loc.fd_out = NoFd THEN {rd, wr} ELSE {rd}
            /\ loc' = [loc EXCEPT !.op = "|", !.end = EndOf(loc.curr), !.pipe_rd = rd,
                                  !.fd_out = IF @ = NoFd THEN wr ELSE @]
            /\ pc' = "execute"
     \/ GotoErrorExit /\ UNCHANGED <<shellFds, data>>
  /\ UNCHANGED <<line, typed, procs, sigchld, historyVars>>

\* Where scanning goes on behind an operator and its file name.  Mutation: one
\* token too far.
PastFileTooFar(e) == e + 3
PastFile(e) == e + 2

\* > and <: the descriptor set so far is closed and replaced by the opened file;
\* the command's first word stays where it was.
Redirect(field, e) ==
  \/ /\ e + 1 > Len(line)
     /\ GotoErrorExit
     /\ UNCHANGED <<shellFds, data>>
  \/ /\ e + 1 <= Len(line)
     /\ data' = Append(data, 0)
     /\ shellFds' = (shellFds \ {loc[field]}) \cup {<<"f", NewObject>>}
     /\ loc' = [loc EXCEPT ![field] = <<"f", NewObject>>, !.curr = PastFile(e)]
     /\ pc' = "chain"
  \/ /\ e + 1 <= Len(line)
     /\ shellFds' = shellFds \ {loc[field]}
     /\ loc' = [loc EXCEPT ![field] = NoFd, !.idx = 1]
     /\ pc' = "wait"
     /\ UNCHANGED data

ScanRedirect ==
  /\ pc = "chain"
  /\ \/ OpType(loc.curr) = ">" /\ Redirect("fd_out", EndOf(loc.curr))
     \/ OpType(loc.curr) = "<" /\ Redirect("fd_in", EndOf(loc.curr))
  /\ UNCHANGED <<line, typed, procs, sigchld, historyVars>>

------------------------------------------------------------------------------
\* execute(), and what is_executable() does with the pid it returns: fd_in and
\* fd_out are forgotten and the pid, if any, is remembered.

\* Descriptors execute() closes on its way out.  Mutation: fd_out is forgotten.
ExecuteForgetsOut == {loc.fd_in} \ {NoFd}
ExecuteCloses == Held

\* pid <= 0 ends a pipeline; the read end of its new pipe is closed.
AfterExecute(pid) ==
  LET ran == [loc EXCEPT !.fd_in = NoFd, !.fd_out = NoFd, !.pipe_rd = NoFd, !.idx = 1,
                         !.pid = pid, !.pids = IF pid > 0 THEN Append(@, pid) ELSE @]
      next == loc.end + 1
  IN  \/ /\ loc.op \in {"none", "&"}
         /\ pc' = "wait" /\ loc' = ran
      \/ /\ loc.op = "|" /\ pid > 0
         /\ pc' = "chain"
         /\ loc' = [ran EXCEPT !.cmd = next, !.curr = next, !.fd_in = loc.pipe_rd]
      \/ /\ loc.op = "|" /\ pid <= 0
         /\ pc' = "wait" /\ loc' = ran
      \/ /\ loc.op = "&&"
         /\ pc' = "andwait"
         /\ \E garbage \in {0, 1} :      \* int status; is not initialised
              loc' = [ran EXCEPT !.status = garbage, !.last_status = 0]

PipeAbandoned(pid) == IF loc.op = "|" /\ pid <= 0 THEN {loc.pipe_rd} ELSE {}

\* No command: execute() returns before the code that closes fd_in and fd_out.
ExecuteNothing ==
  /\ pc = "execute"
  /\ NoCommand
  /\ leaked' = leaked \cup Held
  /\ AfterExecute(-1)
  /\ shellFds' = shellFds \ PipeAbandoned(-1)
  /\ UNCHANGED <<line, typed, procs, data, sigchld, detached, interrupted>>

\* A builtin runs in the shell; or dup(), dup2() or fork() fails.  No child.
ExecuteInShell ==
  /\ pc = "execute"
  /\ ~NoCommand
  /\ AfterExecute(-1)
  /\ shellFds' = shellFds \ (ExecuteCloses \cup PipeAbandoned(-1))
  /\ UNCHANGED <<line, typed, procs, data, sigchld, historyVars>>

\* The child gets a copy of every descriptor of the shell (none is close-on-exec)
\* besides its own input and output, and runs the program.
Fork ==
  /\ pc = "execute"
  /\ ~NoCommand
  /\ Program \notin Builtins
  /\ \E p \in Proc :
       /\ procs[p].state = "none" /\ \A q \in Proc : q < p => procs[q].state # "none"
       /\ procs' = [procs EXCEPT ![p] =
                      [state |-> "running", prog |-> Program, in |-> loc.fd_in,
                       out |-> loc.fd_out, fds |-> shellFds, left |-> FloodSize,
                       code |-> 0]]
       /\ loc' = [loc EXCEPT !.pid = p]
  /\ pc' = "restore"
  /\ UNCHANGED <<line, typed, shellFds, data, sigchld, historyVars>>

\* exit_execute: the parent puts its own input and output back and closes.
Restore ==
  /\ pc = "restore"
  /\ AfterExecute(loc.pid)
  /\ shellFds' = shellFds \ ExecuteCloses
  /\ UNCHANGED <<line, typed, procs, data, sigchld, historyVars>>

------------------------------------------------------------------------------
\* Waiting.

Terminated(p) == procs[p].state \in {"zombie", "reaped"}

\* waitpid(p): blocks while p runs; on a child reaped before it fails with ECHILD.
Waitpid(p) == Terminated(p) /\ procs' = [procs EXCEPT ![p].state = "reaped"]

\* The loops over pids end.  Mutation: the last child is not waited for.
AllButLastWaitedFor == loc.idx >= Len(loc.pids)
AllWaitedFor == loc.idx > Len(loc.pids)

\* The loop of &&: status keeps its old value when waitpid() fails.
AndWait ==
  /\ pc = "andwait"
  /\ loc.idx <= Len(loc.pids)
  /\ LET p == loc.pids[loc.idx]
         status == IF procs[p].state = "zombie" THEN procs[p].code ELSE loc.status
     IN  /\ Waitpid(p)
         /\ loc' = [loc EXCEPT !.idx = @ + 1, !.status = status,
                               !.last_status = IF p = loc.pid THEN status ELSE @]
  /\ UNCHANGED <<pc, line, typed, shellFds, data, sigchld, historyVars>>

\* An exit status other than 0 ends the line; no status, or death by a signal,
\* counts as success.
AndDecide ==
  /\ pc = "andwait"
  /\ AllWaitedFor
  /\ IF loc.last_status = 1
     THEN pc' = "wait" /\ loc' = [loc EXCEPT !.pids = <<>>, !.idx = 1]
     ELSE /\ pc' = "chain"
          /\ loc' = [loc EXCEPT !.pids = <<>>, !.cmd = loc.end + 1, !.curr = loc.end + 1]
  /\ UNCHANGED <<line, typed, shellFds, procs, data, sigchld, historyVars>>

\* error_exit: every child of the line is waited for, unless it is a background line.
WaitAll ==
  /\ pc = "wait"
  /\ ~loc.background
  /\ loc.idx <= Len(loc.pids)
  /\ Waitpid(loc.pids[loc.idx])
  /\ loc' = [loc EXCEPT !.idx = @ + 1]
  /\ UNCHANGED <<pc, line, typed, shellFds, data, sigchld, historyVars>>

\* The end of is_executable(), and the next prompt.
Finish ==
  /\ pc = "wait"
  /\ loc.background \/ AllWaitedFor
  /\ shellFds' = shellFds \ Held
  /\ detached' = detached \cup IF loc.background THEN Range(loc.pids) ELSE {}
  /\ pc' = "prompt" /\ line' = <<>> /\ loc' = Locals
  /\ UNCHANGED <<typed, procs, data, sigchld, leaked, interrupted>>

------------------------------------------------------------------------------
\* child_handler(): interrupts the shell anywhere and reaps whatever is dead.
\* Signals are not queued, hence the loop.  Mutation: one waitpid() per signal.
Zombies == {p \in Proc : procs[p].state = "zombie"}

FirstReaped == IF Zombies = {} THEN {} ELSE {Min(Zombies)}
HandlerReaps == Zombies

ChildHandler ==
  /\ sigchld
  /\ pc # "exited"
  /\ sigchld' = FALSE
  /\ procs' = [p \in Proc |-> IF p \in HandlerReaps
                              THEN [procs[p] EXCEPT !.state = "reaped"] ELSE procs[p]]
  /\ UNCHANGED <<pc, line, typed, loc, shellFds, data, historyVars>>

------------------------------------------------------------------------------
\* The children.

Holds(p, fd) == procs[p].state = "running" /\ fd \in procs[p].fds
SomeoneHolds(fd) == fd \in shellFds \/ \E p \in Proc : Holds(p, fd)

IsPipeEnd(fd) == fd[1] \in {"r", "w"}
Killed == 2     \* a wait status for which WIFEXITED is false

Dead(p, status) ==
  [procs[p] EXCEPT !.state = "zombie", !.in = NoFd, !.out = NoFd, !.fds = {},
                   !.left = 0, !.code = status]

ExitsWith(p, status) ==
  /\ procs' = [procs EXCEPT ![p] = Dead(p, status)]
  /\ sigchld' = TRUE

\* "ok" and "fail" end at any time; an unknown name fails in execvp().
SimpleExit(p) ==
  /\ procs[p].prog \notin {"sink", "flood", "long"}
  /\ ExitsWith(p, IF procs[p].prog = "ok" THEN 0 ELSE 1)
  /\ UNCHANGED data

SinkReads(p) ==
  /\ procs[p].prog = "sink"
  /\ IsPipeEnd(procs[p].in)
  /\ data[procs[p].in[2]] > 0
  /\ data' = [data EXCEPT ![procs[p].in[2]] = @ - 1]
  /\ UNCHANGED <<procs, sigchld>>

\* End-of-file: the pipe is empty and nobody holds its write end.
SinkEnds(p) ==
  /\ procs[p].prog = "sink"
  /\ IsPipeEnd(procs[p].in) =>
       data[procs[p].in[2]] = 0 /\ ~SomeoneHolds(<<"w", procs[p].in[2]>>)
  /\ ExitsWith(p, 0)
  /\ UNCHANGED data

\* A write to a pipe nobody can read ends the writer with SIGPIPE.
FloodWrites(p) ==
  /\ procs[p].prog = "flood"
  /\ IsPipeEnd(procs[p].out)
  /\ procs[p].left > 0
  /\ LET k == procs[p].out[2] IN
       IF ~SomeoneHolds(<<"r", k>>)
       THEN ExitsWith(p, Killed) /\ UNCHANGED data
       ELSE /\ data[k] < PipeSize
            /\ data' = [data EXCEPT ![k] = @ + 1]
            /\ procs' = [procs EXCEPT ![p].left = @ - 1]
            /\ UNCHANGED sigchld

FloodEnds(p) ==
  /\ procs[p].prog = "flood"
  /\ ~IsPipeEnd(procs[p].out) \/ procs[p].left = 0
  /\ ExitsWith(p, 0)
  /\ UNCHANGED data

ChildStep(p) ==
  /\ procs[p].state = "running"
  /\ SimpleExit(p) \/ SinkReads(p) \/ SinkEnds(p) \/ FloodWrites(p) \/ FloodEnds(p)
  /\ UNCHANGED <<pc, line, typed, loc, shellFds, historyVars>>

\* Ctrl+C: the terminal signals the shell and all its children, which share its
\* process group.  signal(SIGINT, SIG_IGN) survives fork() and execvp().
ShellSigint == "ignored"

Foreground == {p \in Proc : procs[p].state = "running"} \ detached

CtrlC ==
  /\ pc # "exited"
  /\ interrupted = {} /\ Foreground # {}
  /\ interrupted' = Foreground
  /\ IF ShellSigint = "ignored"
     THEN UNCHANGED <<procs, sigchld>>
     ELSE /\ procs' = [p \in Proc |-> IF procs[p].state = "running"
                                      THEN Dead(p, Killed) ELSE procs[p]]
          /\ sigchld' = TRUE
  /\ UNCHANGED <<pc, line, typed, loc, shellFds, data, leaked, detached>>

------------------------------------------------------------------------------
ShellStep ==
  \/ ScanCommand \/ ScanPipe \/ ScanRedirect
  \/ ExecuteNothing \/ ExecuteInShell \/ Fork \/ Restore
  \/ AndWait \/ AndDecide \/ WaitAll \/ Finish

Next ==
  \/ \E l \in Lines : ReadLine(l)
  \/ ShellStep
  \/ ChildHandler
  \/ \E p \in Proc : ChildStep(p)
  \/ CtrlC

Spec == Init /\ [][Next]_vars

\* The shell and each child are scheduled and a pending signal is delivered.
\* The user need not type anything.
Fairness ==
  /\ WF_vars(ShellStep)
  /\ WF_vars(ChildHandler)
  /\ \A p \in Proc : WF_vars(ChildStep(p))

FairSpec == Spec /\ Fairness

------------------------------------------------------------------------------
\* Properties.

Fds(k) == {<<"r", k>>, <<"w", k>>, <<"f", k>>}
Descriptors == UNION {Fds(k) : k \in DOMAIN data}

\* Every variable stays in its range.
TypeOK ==
  /\ pc \in {"prompt", "chain", "execute", "restore", "andwait", "wait", "exited"}
  /\ typed \in 0..MaxLines
  /\ loc.cmd \in 1..(Len(line) + 1) /\ loc.curr \in 1..(Len(line) + 1)
  /\ loc.op \in Operators \cup {"none"} /\ loc.pid \in Proc \cup {-1}
  /\ Range(loc.pids) \subseteq Proc
  /\ {loc.fd_in, loc.fd_out, loc.pipe_rd} \subseteq Descriptors \cup {NoFd}
  /\ shellFds \subseteq Descriptors
  /\ \A p \in Proc :
       /\ procs[p].state \in {"none", "running", "zombie", "reaped"}
       /\ procs[p].fds \subseteq Descriptors
  /\ \A k \in DOMAIN data : data[k] \in 0..PipeSize
  /\ sigchld \in BOOLEAN
  /\ leaked \subseteq Descriptors
  /\ detached \subseteq Proc /\ interrupted \subseteq Proc

\* Every descriptor of the shell is accounted for: whenever no command is being
\* started, it holds exactly fd_in and fd_out and what the early return of
\* execute() leaked.  At the prompt nothing but that leak is left, whichever of
\* the operators, redirections and error paths the line went through.
DescriptorsAccounted ==
  pc \in {"prompt", "chain", "andwait", "wait"} => shellFds = leaked \cup Held

\* The prompt returns, and a command after && starts, only when every child of
\* the line is dead; children that outlive a line were put in the background.
ForegroundFinished ==
  (pc = "prompt" \/ (pc = "andwait" /\ AllWaitedFor)) => Foreground = {}

\* Whether by waitpid() or by child_handler(), every dead child is reaped,
\* although SIGCHLDs coalesce.
ZombiesReaped ==
  []<>(pc = "exited" \/ \A p \in Proc : procs[p].state # "zombie")

\* A writer that can never go on: its pipe is full and no other child reads it.
StuckWriter(p) ==
  /\ procs[p].state = "running" /\ procs[p].prog = "flood" /\ IsPipeEnd(procs[p].out)
  /\ data[procs[p].out[2]] = PipeSize
  /\ \A q \in Proc : procs[q].state = "running" => procs[q].in # <<"r", procs[p].out[2]>>

\* When all commands are finite the prompt always comes back, except for a writer
\* whose reader is gone: the descriptors it inherited keep the read end of its
\* own pipe open, so it blocks instead of getting SIGPIPE, and the shell with it.
PromptReturns ==
  []<>(pc \in {"prompt", "exited"}) \/ \E p \in Proc : <>[]StuckWriter(p)

\* isexecutable.c: "if the preceding command failed (exit code != 0), return
\* without running the one after &&".  The handler may have taken its status.
AndSeesFailure ==
  pc = "andwait" /\ AllWaitedFor /\ loc.pid > 0 /\ procs[loc.pid].code = 1
    => loc.last_status = 1

\* main.c: "the children react to Ctrl+C (termination)".
CtrlCEndsChildren ==
  \A p \in Proc : []<>(p \in interrupted => procs[p].state # "running")
==============================================================================
