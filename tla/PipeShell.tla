------------------------------ MODULE PipeShell ------------------------------
(***************************************************************************)
(* lab2/: a shell that leaves everything but the waiting to its child.     *)
(* is_executable() forks once for each line; the child looks for one pipe  *)
(* or one redirection, and for a pipe forks the writer of the pipe itself  *)
(* and becomes the reader.  The shell waits for its child only.            *)
(*                                                                         *)
(* A line is a sequence of tokens: an operator, a file name or a program.  *)
(* What the programs do is the environment:                                *)
(*   "ok"      exits at any time          "long"   runs until a signal     *)
(*   "sink"    reads up to end-of-file    "flood"  writes more than a pipe *)
(*                                                 holds                   *)
(*   "cd"      stands for hostname, cd and pwd, which main() runs itself   *)
(* Any other name cannot be executed; "dir" cannot be opened for writing.  *)
(***************************************************************************)
EXTENDS Integers, FiniteSets, SequencesExt

CONSTANTS Lines,       \* the command lines the user may type
          MaxLines,    \* bound on the number of lines typed
          PipeSize,    \* units of data a pipe holds
          FloodSize,   \* units of data a "flood" writes, more than PipeSize
          MaxCtrlC     \* bound on the times Ctrl+C is typed

\* What the constants must satisfy.
PipeAssumption == PipeSize \in Nat \ {0} /\ FloodSize > PipeSize /\ MaxLines \in Nat

Programs == {"ok", "long", "sink", "flood"}
Builtins == {"cd"}
LineNo == 1..MaxLines

VARIABLES
  pc,       \* the shell: "read", "fork", "wait", "exited" or "crashed"
  lines,    \* the lines read so far; the processes of line n have copies of it
  child,    \* child[n]: the process the shell forked for line n
  writer,   \* writer[n]: the process the child forked for a pipe
  data,     \* data[n]: units of data in the pipe of line n
  sigchld,  \* SIGCHLD is pending in the shell
  ctrlC,    \* number of times Ctrl+C was typed
  struck    \* history: lines whose child had restored SIGINT when that happened

vars == <<pc, lines, child, writer, data, sigchld, ctrlC, struck>>

\* ends: the ends of the pipe a process holds open.
NoProc == [state |-> "none", prog |-> "", sigint |-> "ignored", ends |-> {},
           out |-> "terminal", left |-> 0]

Init ==
  /\ pc = "read" /\ lines = <<>>
  /\ child = [n \in LineNo |-> NoProc] /\ writer = [n \in LineNo |-> NoProc]
  /\ data = [n \in LineNo |-> 0]
  /\ sigchld = FALSE
  /\ ctrlC = 0 /\ struck = {}

------------------------------------------------------------------------------
\* Lines.

\* is_background(): a last token "&" is cut off.
Background(l) == l # <<>> /\ Last(l) = "&"
Args(n) == IF Background(lines[n]) THEN Front(lines[n]) ELSE lines[n]

\* The child's loop: the first operator, and the words on its two sides.
Operators(n) == {k \in DOMAIN Args(n) : Args(n)[k] \in {"|", ">"}}
Operator(n) == IF Operators(n) = {} THEN "none" ELSE Args(n)[Min(Operators(n))]
Left(n) == IF Operators(n) = {} THEN Args(n)
           ELSE SubSeq(Args(n), 1, Min(Operators(n)) - 1)
Right(n) == SubSeq(Args(n), Min(Operators(n)) + 1, Len(Args(n)))

Now == Len(lines)
Ended(p) == p.state \in {"zombie", "reaped", "ended"}
Alive(p) == p.state # "none" /\ ~Ended(p)

------------------------------------------------------------------------------
\* The shell.

\* command_parse() returns NULL for a line without a word, and command_freelist()
\* follows it.
Crashes(l) == l = <<>>

\* main() reads a line.
ReadLine(l) ==
  /\ pc = "read"
  /\ Now < MaxLines
  /\ lines' = Append(lines, l)
  /\ pc' = IF Crashes(l) THEN "crashed"
           ELSE IF l[1] = "exit" THEN "exited"
           ELSE IF l[1] \in Builtins THEN "read" ELSE "fork"
  /\ UNCHANGED <<child, writer, data, sigchld, ctrlC, struck>>

EndOfInput ==
  /\ pc = "read"
  /\ pc' = "exited"
  /\ UNCHANGED <<lines, child, writer, data, sigchld, ctrlC, struck>>

\* fork(); when it fails the shell exits.
Fork ==
  /\ pc = "fork"
  /\ \/ /\ child' = [child EXCEPT ![Now] = [NoProc EXCEPT !.state = "forked"]]
        /\ pc' = IF Background(lines[Now]) THEN "read" ELSE "wait"
     \/ pc' = "exited" /\ UNCHANGED child
  /\ UNCHANGED <<lines, writer, data, sigchld, ctrlC, struck>>

\* waitpid(pid): a child the handler has reaped already counts as ended.  Mutation:
\* waitpid() does not block.
WaitpidNoHang ==
  /\ pc = "wait"
  /\ child' = [child EXCEPT ![Now].state = IF @ = "zombie" THEN "reaped" ELSE @]
  /\ pc' = "read"
  /\ UNCHANGED <<lines, writer, data, sigchld, ctrlC, struck>>
Waitpid ==
  /\ pc = "wait"
  /\ Ended(child[Now])
  /\ child' = [child EXCEPT ![Now].state = "reaped"]
  /\ pc' = "read"
  /\ UNCHANGED <<lines, writer, data, sigchld, ctrlC, struck>>

\* child_handler(): reaps every child that is dead, between any two steps.
ChildHandler ==
  /\ sigchld /\ pc \notin {"exited", "crashed"}
  /\ sigchld' = FALSE
  /\ child' = [n \in LineNo |-> IF child[n].state = "zombie"
                                THEN [child[n] EXCEPT !.state = "reaped"] ELSE child[n]]
  /\ UNCHANGED <<pc, lines, writer, data, ctrlC, struck>>

------------------------------------------------------------------------------
\* The child and the writer, up to execvp().

Dead(p, state) == [p EXCEPT !.state = state, !.ends = {}]

ChildEnds(n) ==
  /\ child' = [child EXCEPT ![n] = Dead(@, "zombie")]
  /\ sigchld' = TRUE

\* execvp() of the first word; without a word it fails with EFAULT.
Executable(words) == words # <<>> /\ words[1] \in Programs
Executed(p, words) == [p EXCEPT !.state = "running", !.prog = words[1], !.left = FloodSize]

\* signal(SIGINT, SIG_DFL).  Mutation: it is forgotten.
KeepsIgnoring(n) ==
  /\ child[n].state = "forked"
  /\ child' = [child EXCEPT ![n].state = "setup"]
  /\ UNCHANGED <<writer, data, sigchld>>
DefaultSigint(n) ==
  /\ child[n].state = "forked"
  /\ child' = [child EXCEPT ![n].state = "setup", ![n].sigint = "default"]
  /\ UNCHANGED <<writer, data, sigchld>>

\* A single command, or one with its output in a file.  When open() fails, dup2()
\* fails as well and the output stays on the terminal.
Openable(words) == words # <<>> /\ words[1] # "dir"

ExecAlone(n) ==
  /\ child[n].state = "setup"
  /\ Operator(n) # "|"
  /\ IF Executable(Left(n))
     THEN /\ \E opened \in BOOLEAN :
               /\ opened => Operator(n) = ">" /\ Openable(Right(n))
               /\ child' = [child EXCEPT
                    ![n] = [Executed(@, Left(n)) EXCEPT
                              !.out = IF opened THEN "file" ELSE "terminal"]]
          /\ UNCHANGED sigchld
     ELSE ChildEnds(n)
  /\ UNCHANGED <<writer, data>>

\* pipe() and fork(); each may fail.  Both processes hold both ends at first.
MakePipe(n) ==
  /\ child[n].state = "setup"
  /\ Operator(n) = "|"
  /\ \/ /\ child' = [child EXCEPT ![n].state = "piped", ![n].ends = {"r", "w"}]
        /\ writer' = [writer EXCEPT ![n] = [child'[n] EXCEPT !.out = "pipe"]]
        /\ UNCHANGED sigchld
     \/ ChildEnds(n) /\ UNCHANGED writer
  /\ UNCHANGED data

\* The child becomes the reader, with the read end twice, as pd[0] and as its input.
\* If execvp() fails it closes pd[0], keeps its input, and waits for the writer.
\* Mutation: close(pd[1]) is forgotten.
ReaderKeepsWriteEnd(n) ==
  /\ child[n].state = "piped"
  /\ child' = [child EXCEPT ![n] = IF Executable(Right(n)) THEN Executed(@, Right(n))
                                   ELSE [@ EXCEPT !.state = "waiting"]]
  /\ UNCHANGED <<writer, data, sigchld>>
ReaderExec(n) ==
  /\ child[n].state = "piped"
  /\ LET reader == [child[n] EXCEPT !.ends = {"r"}]
     IN child' = [child EXCEPT ![n] = IF Executable(Right(n)) THEN Executed(reader, Right(n))
                                      ELSE [reader EXCEPT !.state = "waiting"]]
  /\ UNCHANGED <<writer, data, sigchld>>

\* The child's waitpid(), or the handler it has inherited, reaps the writer.
ReaderGivesUp(n) ==
  /\ child[n].state = "waiting"
  /\ Ended(writer[n])
  /\ ChildEnds(n)
  /\ UNCHANGED <<writer, data>>

\* Where the writer goes when execvp() fails.  Mutation: without the exit() it goes
\* on to the code of its parent.
FallsThrough(n) == [writer[n] EXCEPT !.state = "waiting"]
WriterExits(n) == Dead(writer[n], "ended")

\* Mutation: close(pd[0]) is forgotten.
WriterKeepsReadEnd(n) ==
  /\ writer[n].state = "piped"
  /\ writer' = [writer EXCEPT ![n] = IF Executable(Left(n)) THEN Executed(@, Left(n))
                                     ELSE WriterExits(n)]
  /\ UNCHANGED <<child, data, sigchld>>
WriterExec(n) ==
  /\ writer[n].state = "piped"
  /\ writer' = [writer EXCEPT
       ![n] = IF Executable(Left(n)) THEN [Executed(@, Left(n)) EXCEPT !.ends = {"w"}]
              ELSE WriterExits(n)]
  /\ UNCHANGED <<child, data, sigchld>>

ChildStep(n) ==
  \/ DefaultSigint(n) \/ ExecAlone(n) \/ MakePipe(n) \/ ReaderExec(n) \/ ReaderGivesUp(n)

------------------------------------------------------------------------------
\* The programs.

HeldOpen(n, end) == end \in child[n].ends \cup writer[n].ends

Runs(p, prog) == p.state = "running" /\ p.prog = prog

\* "ok", a "sink" at end-of-file and a "flood" that has written everything.
ProgramEnds(p, n) ==
  /\ p.state = "running"
  /\ \/ p.prog = "ok"
     \/ p.prog = "sink" /\ ("r" \in p.ends => data[n] = 0 /\ ~HeldOpen(n, "w"))
     \/ p.prog = "flood" /\ (p.out = "pipe" => p.left = 0)

ChildProgramEnds(n) ==
  /\ ProgramEnds(child[n], n)
  /\ ChildEnds(n)
  /\ UNCHANGED <<writer, data>>

WriterProgramEnds(n) ==
  /\ ProgramEnds(writer[n], n)
  /\ writer' = [writer EXCEPT ![n] = WriterExits(n)]
  /\ UNCHANGED <<child, data, sigchld>>

SinkReads(n) ==
  /\ Runs(child[n], "sink")
  /\ data[n] > 0
  /\ data' = [data EXCEPT ![n] = @ - 1]
  /\ UNCHANGED <<child, writer, sigchld>>

\* A write to a pipe that nobody can read ends the writer with SIGPIPE.
FloodWrites(n) ==
  /\ Runs(writer[n], "flood")
  /\ writer[n].left > 0
  /\ IF HeldOpen(n, "r")
     THEN /\ data[n] < PipeSize
          /\ data' = [data EXCEPT ![n] = @ + 1]
          /\ writer' = [writer EXCEPT ![n].left = @ - 1]
     ELSE /\ writer' = [writer EXCEPT ![n] = WriterExits(n)]
          /\ UNCHANGED data
  /\ UNCHANGED <<child, sigchld>>

ChildRuns(n) == ChildStep(n) \/ ChildProgramEnds(n) \/ SinkReads(n)
WriterRuns(n) == WriterExec(n) \/ WriterProgramEnds(n) \/ FloodWrites(n)

\* Ctrl+C reaches every process of the terminal, those of background lines too.
CtrlC ==
  /\ pc \notin {"exited", "crashed"}
  /\ ctrlC < MaxCtrlC
  /\ ctrlC' = ctrlC + 1
  /\ struck' = struck \cup {n \in LineNo : Alive(child[n]) /\ child[n].state # "forked"}
  /\ LET dies(p) == Alive(p) /\ p.sigint = "default"
     IN  /\ child' = [n \in LineNo |-> IF dies(child[n]) THEN Dead(child[n], "zombie")
                                       ELSE child[n]]
         /\ writer' = [n \in LineNo |-> IF dies(writer[n]) THEN WriterExits(n)
                                        ELSE writer[n]]
         /\ sigchld' = (sigchld \/ \E n \in LineNo : dies(child[n]))
  /\ UNCHANGED <<pc, lines, data>>

------------------------------------------------------------------------------
ShellStep == Fork \/ Waitpid

Process(A) == A /\ UNCHANGED <<pc, lines, ctrlC, struck>>

Next ==
  \/ \E l \in Lines : ReadLine(l)
  \/ EndOfInput
  \/ ShellStep
  \/ ChildHandler
  \/ \E n \in LineNo : Process(ChildRuns(n)) \/ Process(WriterRuns(n))
  \/ CtrlC

Spec == Init /\ [][Next]_vars

\* The shell and its processes are scheduled and a pending signal is delivered; the
\* user need not type anything.
Fairness ==
  /\ WF_vars(ShellStep)
  /\ WF_vars(ChildHandler)
  /\ \A n \in LineNo : WF_vars(Process(ChildRuns(n))) /\ WF_vars(Process(WriterRuns(n)))

FairSpec == Spec /\ Fairness

------------------------------------------------------------------------------
\* Properties.

\* Every variable stays in its range; only lines with a pipe have a writer, and a
\* writer never gets to where only the child should be.
TypeOK ==
  /\ pc \in {"read", "fork", "wait", "exited", "crashed"}
  /\ Now <= MaxLines
  /\ \A n \in LineNo :
       /\ child[n].state \in {"none", "forked", "setup", "piped", "running", "waiting",
                              "zombie", "reaped"}
       /\ writer[n].state \in {"none", "piped", "running", "ended"}
       /\ writer[n].state # "none" => Operator(n) = "|"
       /\ child[n].ends \cup writer[n].ends \subseteq {"r", "w"}
       /\ data[n] \in 0..PipeSize

\* At the prompt the child of every foreground line is done and reaped, whether the
\* handler or waitpid() came first.  (The writer of its pipe may still run.)
ForegroundDone ==
  pc = "read" =>
    \A n \in 1..Now : child[n].state # "none" /\ ~Background(lines[n])
                      => child[n].state = "reaped"

\* A line comes back to the prompt, unless it runs a program without end or its
\* reader cannot be executed: then the child waits for the writer while it keeps the
\* pipe open itself, and a writer that fills the pipe never ends.
Unreadable(n) == child[n].state = "waiting" /\ Runs(writer[n], "flood")
Endless(n) == Runs(child[n], "long") \/ Runs(writer[n], "long")
PromptReturns == []<>(pc = "wait" => Unreadable(Now) \/ Endless(Now))

\* Ctrl+C frees the prompt from whatever the line runs, if the child had come as far
\* as restoring the default action of SIGINT.
CtrlCFreesPrompt == []<>(pc = "wait" => Now \notin struck)

\* A writer ends once its reader has: nothing else keeps its pipe open.
WriterEnds ==
  []<>(\A n \in LineNo : Alive(writer[n]) /\ Ended(child[n]) => Runs(writer[n], "long"))
==============================================================================
