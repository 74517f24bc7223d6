------------------------------ MODULE PosixShm ------------------------------
(***************************************************************************)
(* ch07/posix_shm.c, run in several terminals: each process creates the    *)
(* object /mytest or opens it, maps it, writes the lines of its user into  *)
(* it and shows what is in it, and may unlink the name at its end.         *)
(***************************************************************************)
EXTENDS Integers

CONSTANTS
  Process,    \* the processes, each of them run once
  Text,       \* what users write
  Size        \* Size[t]: the length of text t

\* The object of the name, or a mapped one whose name is gone, is known by the process
\* that has created it.
Nobody == "nobody"

ShmAssumption == Size \in [Text -> Nat \ {0}] /\ Nobody \notin Process

VARIABLES
  name,     \* the object /mytest stands for, or Nobody
  sized,    \* objects whose size has been set
  content,  \* content[o]: the text at the start of the object o, and the one behind it
  map,      \* map[p]: the object p has open
  pc,
  shown     \* shown[p]: what p has shown last

shmVars == <<name, sized, content, map, pc, shown>>

\* The content of an object: a text, and an earlier one whose rest stands behind it.
NoText == "empty"
Contents == [front: Text \union {NoText}, behind: Text \union {NoText}]
Empty == [front |-> NoText, behind |-> NoText]
Length(t) == IF t = NoText THEN 0 ELSE Size[t]

ShmInit ==
  /\ name = Nobody /\ sized = {}
  /\ content = [p \in Process |-> Empty]
  /\ map = [p \in Process |-> Nobody]
  /\ pc = [p \in Process |-> "start"]
  /\ shown = [p \in Process |-> Empty]

------------------------------------------------------------------------------
\* shm_open() with O_CREAT|O_EXCL: the name is taken, or the object is someone's.
Create(p) ==
  /\ pc[p] = "start"
  /\ IF name = Nobody
     THEN /\ name' = p /\ map' = [map EXCEPT ![p] = p]
          /\ pc' = [pc EXCEPT ![p] = "ftruncate"]
     ELSE pc' = [pc EXCEPT ![p] = "open"] /\ UNCHANGED <<name, map>>
  /\ UNCHANGED <<sized, content, shown>>

\* ftruncate() sets the size, or fails, and the name stays.  Mutation: not called.
FtruncateSkipped(p) ==
  /\ pc[p] = "ftruncate"
  /\ pc' = [pc EXCEPT ![p] = "menu"]
  /\ UNCHANGED <<name, sized, content, map, shown>>
Ftruncate(p) ==
  /\ pc[p] = "ftruncate"
  /\ \/ sized' = sized \union {p} /\ pc' = [pc EXCEPT ![p] = "menu"]
     \/ pc' = [pc EXCEPT ![p] = "exit"] /\ UNCHANGED sized
  /\ UNCHANGED <<name, content, map, shown>>

\* shm_open() of the object that was there a moment ago, and mmap().
Open(p) ==
  /\ pc[p] = "open"
  /\ IF name = Nobody
     THEN pc' = [pc EXCEPT ![p] = "exit"] /\ UNCHANGED map
     ELSE pc' = [pc EXCEPT ![p] = "menu"] /\ map' = [map EXCEPT ![p] = name]
  /\ UNCHANGED <<name, sized, content, shown>>

\* Access to a mapping behind the end of its object ends the process with SIGBUS.
Fault(p) ==
  /\ pc[p] = "menu" /\ map[p] \notin sized
  /\ pc' = [pc EXCEPT ![p] = "SIGBUS"]
  /\ UNCHANGED <<name, sized, content, map, shown>>

\* A line is copied without its terminator: the rest of a longer text stays.
Over(c, t) ==
  IF Length(t) >= Length(c.front) /\ Length(t) >= Length(c.behind)
  THEN [front |-> t, behind |-> NoText]
  ELSE [front |-> t, behind |-> IF c.behind = NoText THEN c.front ELSE c.behind]

Write(p) ==
  /\ pc[p] = "menu" /\ map[p] \in sized
  /\ \E t \in Text : content' = [content EXCEPT ![map[p]] = Over(@, t)]
  /\ UNCHANGED <<name, sized, map, pc, shown>>

\* "*"
Show(p) ==
  /\ pc[p] = "menu" /\ map[p] \in sized
  /\ shown' = [shown EXCEPT ![p] = content[map[p]]]
  /\ UNCHANGED <<name, sized, content, map, pc>>

\* "." or end-of-file, munmap() and the question; after "y" the name is unlinked,
\* whatever object it stands for by then.
Quit(p) ==
  /\ pc[p] = "menu"
  /\ pc' = [pc EXCEPT ![p] = "ask"]
  /\ UNCHANGED <<name, sized, content, map, shown>>

Answer(p) ==
  /\ pc[p] = "ask"
  /\ name' \in {name, Nobody}
  /\ pc' = [pc EXCEPT ![p] = "done"]
  /\ UNCHANGED <<sized, content, map, shown>>

Works(p) == Create(p) \/ Ftruncate(p) \/ Open(p) \/ Fault(p)
Chooses(p) == Write(p) \/ Show(p) \/ Quit(p) \/ Answer(p)

ShmNext == \E p \in Process : Works(p) \/ Chooses(p)

ShmSpec == ShmInit /\ [][ShmNext]_shmVars

------------------------------------------------------------------------------
\* Properties.

\* Every variable stays in its range.
ShmTypeOK ==
  /\ name \in Process \union {Nobody} /\ sized \subseteq Process
  /\ content \in [Process -> Contents] /\ shown \in [Process -> Contents]
  /\ map \in [Process -> Process \union {Nobody}]
  /\ pc \in [Process -> {"start", "ftruncate", "open", "menu", "ask",
                         "done", "exit", "SIGBUS"}]

\* A process that only opened the object faults, and never the one that created it; and
\* then the creator is between shm_open() and ftruncate(), or its ftruncate()
\* has failed.  A process whose second shm_open() fails came between a process
\* that had the object and the answer "y".
FailuresExplained ==
  [][\A p \in Process :
       /\ pc[p] # "SIGBUS" /\ pc'[p] = "SIGBUS" =>
            map[p] # p /\ pc[map[p]] \in {"ftruncate", "exit"}
       /\ pc[p] = "open" /\ pc'[p] = "exit" =>
            \E q \in Process \ {p} : pc[q] = "done"]_shmVars

\* "*" shows the present content, and a line is written into the shared memory
\* (posix_shm.c:14-16): what is shown was typed, by this or another user.
ShownWasTyped == \A p \in Process : shown[p].behind = NoText
==============================================================================
