------------------------------- MODULE Families -------------------------------
(***************************************************************************)
(* Programs of one parent and its children: ch05/ex02.c to ex06.c,         *)
(* ch06/exercise.c, ch06-2/ex01.c and, with a pipe between the two,        *)
(* ch07/ex01.c to ex03.c.  A program is the list of the calls of each      *)
(* process; the module lets one of them run, while somebody may kill the   *)
(* children.  What a program prints, and system(), are Work or left out.   *)
(***************************************************************************)
EXTENDS Integers, Sequences

CONSTANTS Kills,   \* bound on the children killed from outside
          Room,    \* writes a pipe holds
          Output   \* bound on the writes of "ls"

FamilyAssumption == Kills \in Nat /\ Room \in Nat \ {0} /\ Output \in Nat

Process == {"main", "c1", "c2", "c3"}
\* The first process of the system, which waits for orphans.
Root == "init"
None == "none"

------------------------------------------------------------------------------
\* The programs.  A jump is the place in the list where a failure, or Again,
\* leads.

Call(o, x, j) == [op |-> o, arg |-> x, jump |-> j]
Fork(c, j) == Call("fork", c, j)
Exec(j) == Call("exec", None, j)
Wait(c) == Call("wait", c, 0)        \* waitpid() for c
WaitAny == Call("wait", None, 0)     \* wait()
Poll == Call("poll", None, 0)        \* waitpid(-1, WNOHANG) until there is no child
Work == Call("work", None, 0)
Exit == Call("exit", None, 0)
Forever == Call("forever", None, 0)
Setpgid == Call("setpgid", None, 0)
KillGroup == Call("killgroup", None, 0)
Pipe == Call("pipe", None, 0)
Close(e) == Call("close", e, 0)
DupOut == Call("dup", None, 0)       \* close(1); dup(pd[1])
Write == Call("write", None, 0)
Read == Call("read", None, 0)        \* one read()
ReadAll == Call("readall", None, 0)  \* up to end-of-file
More(j) == Call("more", None, j)     \* "ls" has more to write, or not
Again(j) == Call("again", None, j)

Family(m, x, y, z) == [main |-> m, c1 |-> x, c2 |-> y, c3 |-> z]

Ch05Ex02 == Family(<<Fork("c1", 3), Work>>, <<Work>>, <<>>, <<>>)
Ch05Ex03 == Family(<<Fork("c1", 3), Wait("c1")>>, <<Work>>, <<>>, <<>>)
Ch05Ex04 == Family(<<Fork("c1", 4), Fork("c2", 4), Poll>>, <<Work>>, <<Work>>, <<>>)
Ch05Ex05 == Family(<<Fork("c1", 3), WaitAny>>, <<Work>>, <<>>, <<>>)
Ch05Ex06 == Family(<<Fork("c1", 3), WaitAny>>, <<Exec(3), Work>>, <<>>, <<>>)
Ch06Exercise ==
  Family(<<Fork("c1", 4), Fork("c2", 4), Forever>>, <<Exec(3), Work>>, <<Exec(3), Work>>, <<>>)

\* Where a fork() fails the process goes on to the two waitpid() at the end, child2 too.
\* Mutation: child2 stays in the group of its parent.
Ch062Ex01SameGroup ==
  Family(<<Fork("c1", 3), Fork("c2", 3), Work, Wait("c2"), Wait("c1")>>,
         <<Work>>,
         <<Fork("c3", 4), WaitAny, Exit, Work, Wait("c2"), Wait("c1")>>,
         <<Work, KillGroup>>)
Ch062Ex01 ==
  Family(<<Fork("c1", 3), Fork("c2", 3), Work, Wait("c2"), Wait("c1")>>,
         <<Work>>,
         <<Setpgid, Fork("c3", 5), WaitAny, Exit, Work, Wait("c2"), Wait("c1")>>,
         <<Work, KillGroup>>)

\* popen(): what is printed is written at pclose().
Ch07Ex01 ==
  Family(<<Pipe, Fork("c1", 7), Close("r"), Write, Close("w"), Wait("c1")>>,
         <<Close("w"), Exec(4), ReadAll>>, <<>>, <<>>)
Ch07Ex02 ==
  Family(<<Pipe, Fork("c1", 7), Close("w"), Read, Close("r"), Wait("c1")>>,
         <<Close("r"), Write>>, <<>>, <<>>)
\* Mutation: the parent keeps the read end while it waits.
Ch07Ex03KeepsPipe ==
  Family(<<Pipe, Fork("c1", 6), Close("w"), Read, Wait("c1")>>,
         <<Close("r"), DupOut, Close("w"), Exec(8), More(8), Write, Again(5)>>, <<>>, <<>>)
Ch07Ex03 ==
  Family(<<Pipe, Fork("c1", 7), Close("w"), Read, Close("r"), Wait("c1")>>,
         <<Close("r"), DupOut, Close("w"), Exec(8), More(8), Write, Again(5)>>, <<>>, <<>>)

Code == [ch05_ex02 |-> Ch05Ex02, ch05_ex03 |-> Ch05Ex03, ch05_ex04 |-> Ch05Ex04,
         ch05_ex05 |-> Ch05Ex05, ch05_ex06 |-> Ch05Ex06, ch06_exercise |-> Ch06Exercise,
         ch06_2_ex01 |-> Ch062Ex01, ch07_ex01 |-> Ch07Ex01, ch07_ex02 |-> Ch07Ex02,
         ch07_ex03 |-> Ch07Ex03]

VARIABLES
  prog,     \* the program that runs, and ...
  code,     \* ... its calls, code[p] those of process p
  pc,       \* pc[p]: which call of its list process p is at
  life,     \* life[p]: "none" (not forked), "alive", "zombie" or "gone"
  parent,   \* parent[p]: who may wait for p
  group,    \* group[p]: the process group of p, named for its leader
  cause,    \* cause[p]: what has ended p: "exit" or a signal
  struck,   \* processes SIGUSR1 is pending for
  chld,     \* SIGCHLD is pending for main
  reaping,  \* main runs child_handler() of ch06/exercise.c
  ends,     \* ends[p]: "r", "w", and "1" for a stdout that is the pipe
  data,     \* writes in the pipe
  listed,   \* writes of "ls"
  kills     \* number of children killed from outside

familyVars == <<prog, code, pc, life, parent, group, cause, struck, chld, reaping, ends, data,
                listed, kills>>

FamilyInit ==
  /\ prog \in DOMAIN Code /\ code = Code[prog]
  /\ pc = [p \in Process |-> 1]
  /\ life = [p \in Process |-> IF p = "main" THEN "alive" ELSE "none"]
  /\ parent = [p \in Process |-> Root]
  /\ group = [p \in Process |-> "main"]
  /\ cause = [p \in Process |-> None]
  /\ struck = {} /\ chld = FALSE /\ reaping = FALSE
  /\ ends = [p \in Process |-> {}] /\ data = 0 /\ listed = 0 /\ kills = 0

Alive(p) == life[p] = "alive"
Ended(p) == pc[p] = Len(code[p]) + 1
Children(p) == {c \in Process : parent[c] = p /\ life[c] \in {"alive", "zombie"}}
Writers == {p \in Process : ends[p] \intersect {"w", "1"} # {}}
Readers == {p \in Process : "r" \in ends[p]}

\* p ends: its parent, if it has one, learns of it; its own children get init for a parent,
\* which waits for the dead at once.
Dies(p, why) ==
  /\ life' = [c \in Process |->
                CASE c = p -> IF parent[p] = Root THEN "gone" ELSE "zombie"
                  [] parent[c] = p /\ life[c] = "zombie" -> "gone"
                  [] OTHER -> life[c]]
  /\ parent' = [c \in Process |-> IF parent[c] = p /\ c \in Children(p) THEN Root ELSE parent[c]]
  /\ cause' = [cause EXCEPT ![p] = why]
  /\ ends' = [ends EXCEPT ![p] = {}]
  /\ struck' = struck \ {p}
  /\ chld' = (chld \/ (prog = "ch06_exercise" /\ parent[p] = "main"))
  /\ reaping' = (reaping /\ p # "main")

\* Somebody kills a child.
KillChild(p) ==
  /\ kills < Kills /\ p # "main" /\ Alive(p)
  /\ kills' = kills + 1
  /\ Dies(p, "KILL")
  /\ UNCHANGED <<prog, code, pc, group, data, listed>>

------------------------------------------------------------------------------
\* The calls.  A pending SIGUSR1 or SIGCHLD comes first: its handler runs before the
\* process goes on.

At(p, o) ==
  /\ Alive(p) /\ ~Ended(p) /\ code[p][pc[p]].op = o
  /\ p \notin struck /\ (p = "main" => ~chld /\ ~reaping)
Argument(p) == code[p][pc[p]].arg
Goes(p) == pc' = [pc EXCEPT ![p] = @ + 1]
Jumps(p) == pc' = [pc EXCEPT ![p] = code[p][@].jump]

\* fork() gives the child the group and the descriptors of its parent, or fails.
ForkCall(p) ==
  /\ At(p, "fork")
  /\ \/ LET c == Argument(p) IN
        /\ life' = [life EXCEPT ![c] = "alive"]
        /\ parent' = [parent EXCEPT ![c] = p]
        /\ group' = [group EXCEPT ![c] = group[p]]
        /\ ends' = [ends EXCEPT ![c] = ends[p]]
        /\ Goes(p)
     \/ Jumps(p) /\ UNCHANGED <<life, parent, group, ends>>
  /\ UNCHANGED <<prog, code, cause, struck, chld, reaping, data, listed, kills>>

ExecCall(p) ==
  /\ At(p, "exec") /\ (Goes(p) \/ Jumps(p))
  /\ UNCHANGED <<prog, code, life, parent, group, cause, struck, chld, reaping, ends, data, listed,
                 kills>>

\* Whom waitpid() looks for: a fork() that has failed left -1, which is any child.
Awaited(p) ==
  IF Argument(p) = None \/ life[Argument(p)] = "none" THEN Children(p)
  ELSE Children(p) \intersect {Argument(p)}

\* wait() and waitpid() reap a dead child, or find that there is none to wait for.
WaitCall(p) ==
  /\ At(p, "wait")
  /\ \/ \E c \in Awaited(p) : life[c] = "zombie" /\ life' = [life EXCEPT ![c] = "gone"]
     \/ Awaited(p) = {} /\ UNCHANGED life
  /\ Goes(p)
  /\ UNCHANGED <<prog, code, parent, group, cause, struck, chld, reaping, ends, data, listed,
                 kills>>

\* ch05/ex04.c asks again until ECHILD.
PollCall(p) ==
  /\ At(p, "poll")
  /\ \/ \E c \in Children(p) :
          life[c] = "zombie" /\ life' = [life EXCEPT ![c] = "gone"] /\ UNCHANGED pc
     \/ Children(p) = {} /\ Goes(p) /\ UNCHANGED life
  /\ UNCHANGED <<prog, code, parent, group, cause, struck, chld, reaping, ends, data, listed,
                 kills>>

\* child_handler(): reaps all that are dead; a child that dies meanwhile has it run again.
\* Mutation: it reaps one.
ReapOne ==
  /\ reaping
  /\ \/ \E c \in Children("main") : life[c] = "zombie" /\ life' = [life EXCEPT ![c] = "gone"]
     \/ ~(\E c \in Children("main") : life[c] = "zombie") /\ UNCHANGED life
  /\ reaping' = FALSE
Reap ==
  /\ reaping
  /\ \/ \E c \in Children("main") :
          life[c] = "zombie" /\ life' = [life EXCEPT ![c] = "gone"] /\ UNCHANGED reaping
     \/ /\ ~(\E c \in Children("main") : life[c] = "zombie")
        /\ reaping' = FALSE /\ UNCHANGED life
ChildHandler ==
  /\ Alive("main")
  /\ \/ chld /\ ~reaping /\ chld' = FALSE /\ reaping' = TRUE /\ UNCHANGED life
     \/ Reap /\ UNCHANGED chld
  /\ UNCHANGED <<prog, code, pc, parent, group, cause, struck, ends, data, listed, kills>>

WorkDone(p) ==
  /\ At(p, "work") /\ Goes(p)
  /\ UNCHANGED <<prog, code, life, parent, group, cause, struck, chld, reaping, ends, data, listed,
                 kills>>

SetpgidCall(p) ==
  /\ At(p, "setpgid") /\ group' = [group EXCEPT ![p] = p] /\ Goes(p)
  /\ UNCHANGED <<prog, code, life, parent, cause, struck, chld, reaping, ends, data, listed, kills>>

KillGroupCall(p) ==
  /\ At(p, "killgroup")
  /\ struck' = struck \union {q \in Process : Alive(q) /\ group[q] = group[p]}
  /\ Goes(p)
  /\ UNCHANGED <<prog, code, life, parent, group, cause, chld, reaping, ends, data, listed, kills>>

\* usr1_handler() exits; the status is that of exit(), the cause is the signal.
Usr1Handler(p) ==
  /\ p \in struck /\ Dies(p, "USR1")
  /\ UNCHANGED <<prog, code, pc, group, data, listed, kills>>

\* pipe(), or exit(1).
PipeCall(p) ==
  /\ At(p, "pipe")
  /\ \/ ends' = [ends EXCEPT ![p] = {"r", "w"}] /\ Goes(p)
     \/ pc' = [pc EXCEPT ![p] = Len(code[p]) + 1] /\ UNCHANGED ends
  /\ UNCHANGED <<prog, code, life, parent, group, cause, struck, chld, reaping, data, listed,
                 kills>>

EndCall(p) ==
  /\ \/ At(p, "close") /\ ends' = [ends EXCEPT ![p] = @ \ {Argument(p)}]
     \/ At(p, "dup") /\ ends' = [ends EXCEPT ![p] = @ \union {"1"}]
  /\ Goes(p)
  /\ UNCHANGED <<prog, code, life, parent, group, cause, struck, chld, reaping, data, listed,
                 kills>>

\* write() waits for room, and ends its process where there is no reader.
WriteCall(p) ==
  /\ At(p, "write")
  /\ \/ /\ Readers # {} /\ data < Room
        /\ data' = data + 1 /\ Goes(p)
        /\ UNCHANGED <<life, parent, cause, struck, chld, reaping, ends>>
     \/ Readers = {} /\ Dies(p, "PIPE") /\ UNCHANGED <<pc, data>>
  /\ UNCHANGED <<prog, code, group, listed, kills>>

ListCall(p) ==
  /\ \/ At(p, "more") /\ listed < Output /\ listed' = listed + 1 /\ Goes(p)
     \/ At(p, "more") /\ Jumps(p) /\ UNCHANGED listed
     \/ At(p, "again") /\ Jumps(p) /\ UNCHANGED listed
  /\ UNCHANGED <<prog, code, life, parent, group, cause, struck, chld, reaping, ends, data, kills>>

\* read() waits for data, takes what there is, or finds end-of-file.
ReadCall(p) ==
  /\ \/ At(p, "read") /\ (data > 0 \/ Writers = {}) /\ data' = 0 /\ Goes(p)
     \/ At(p, "readall") /\ data > 0 /\ data' = 0 /\ UNCHANGED pc
     \/ At(p, "readall") /\ data = 0 /\ Writers = {} /\ Goes(p) /\ UNCHANGED data
  /\ UNCHANGED <<prog, code, life, parent, group, cause, struck, chld, reaping, ends, listed,
                 kills>>

Exits(p) ==
  /\ Alive(p) /\ (Ended(p) \/ At(p, "exit"))
  /\ p \notin struck /\ (p = "main" => ~chld /\ ~reaping)
  /\ Dies(p, "exit")
  /\ UNCHANGED <<prog, code, pc, group, data, listed, kills>>

Step(p) ==
  \/ ForkCall(p) \/ ExecCall(p) \/ WaitCall(p) \/ PollCall(p) \/ WorkDone(p) \/ SetpgidCall(p)
  \/ KillGroupCall(p) \/ Usr1Handler(p) \/ PipeCall(p) \/ EndCall(p) \/ WriteCall(p)
  \/ ListCall(p) \/ ReadCall(p) \/ Exits(p)

FamilyNext == ChildHandler \/ \E p \in Process : Step(p) \/ KillChild(p)

Runs == ChildHandler \/ \E p \in Process : Step(p)

\* Processes run; nobody has to kill them.  No family comes back to where it was, so that
\* fairness to all of them is fairness to each.
FamilySpec == FamilyInit /\ [][FamilyNext]_familyVars /\ WF_familyVars(Runs)

------------------------------------------------------------------------------
\* Properties.

\* Every variable stays in its range, only the living hold ends of the pipe, and only a
\* parent that is alive has a zombie.
FamilyTypeOK ==
  /\ \A p \in Process : pc[p] \in 1..(Len(code[p]) + 1)
  /\ life \in [Process -> {"none", "alive", "zombie", "gone"}]
  /\ parent \in [Process -> Process \union {Root}]
  /\ group \in [Process -> {"main", "c2"}]
  /\ cause \in [Process -> {None, "exit", "USR1", "KILL", "PIPE"}]
  /\ struck \subseteq {p \in Process : Alive(p)}
  /\ chld \in BOOLEAN /\ reaping \in BOOLEAN
  /\ \A p \in Process : ends[p] \subseteq {"r", "w", "1"} /\ (ends[p] # {} => Alive(p))
  /\ \A p \in Process : life[p] = "zombie" => parent[p] # Root /\ Alive(parent[p])
  /\ data \in 0..Room /\ listed \in 0..Output /\ kills \in 0..Kills

\* A child that outlives its parent has a reason: ch05/ex02.c does not wait; a second fork()
\* that fails ends the parent; SIGPIPE or somebody has killed the parent; child2 of
\* ch06-2/ex01.c ends by SIGUSR1, and SIGUSR1 reaches nobody beside child2 and child3.
OrphansExplained ==
  /\ \A c \in Process \ {"main"} : life[c] # "none" /\ parent[c] = Root =>
       \/ prog = "ch05_ex02"
       \/ prog \in {"ch05_ex04", "ch06_exercise"} /\ life["c2"] = "none"
       \/ prog = "ch07_ex01" /\ cause["main"] = "PIPE"
       \/ c = "c3" /\ cause["c2"] \in {"USR1", "KILL"}
  /\ \A p \in Process : cause[p] = "USR1" => p \in {"c2", "c3"}

\* The dead are waited for, by their parent or after its end; ch06/exercise.c does it in
\* its handler however close together the children end.
Zombies == {p \in Process : life[p] = "zombie"}
DeadReaped == []<>(Zombies = {})

\* Every process ends, whoever is killed and whatever is in the pipe, but for the loop of
\* ch06/exercise.c.
FamilyEnded ==
  \A p \in Process : Alive(p) => p = "main" /\ prog = "ch06_exercise"
FamilyEnds == []<>FamilyEnded
==============================================================================
