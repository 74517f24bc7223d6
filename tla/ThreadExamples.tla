---------------------------- MODULE ThreadExamples ----------------------------
(***************************************************************************)
(* The thread examples ch08/ex01.c to ex05.c, ex08.c and exercise.c: a     *)
(* counter under a mutex, results of joined and cancelled threads, and a   *)
(* block of memory with a cleanup handler.  A program is the list of calls *)
(* of each of its threads; the module lets one program run.                *)
(***************************************************************************)
EXTENDS Integers, Sequences, FiniteSets

Thread == {"main", "t1", "t2", "t3"}
None == "none"

------------------------------------------------------------------------------
\* The programs.  sleep(), pause(), pthread_join() and, when it writes, printf() are
\* cancellation points.

Call(o, x) == [op |-> o, arg |-> x]
Create(t) == Call("create", t)
CreateBlindly(t) == Call("createblindly", t)  \* the result is ignored
Join(t) == Call("join", t)
Cancel(t) == Call("cancel", t)
Detach(t) == Call("detach", t)
Sleep == Call("sleep", None)
Printf == Call("print", None)
Pause == Call("pause", None)
DisableCancel == Call("disable", None)
Malloc == Call("malloc", None)
Push == Call("push", None)
Pop == Call("pop", None)
Free == Call("free", None)
Lock == Call("lock", None)
Load == Call("load", None)
Store == Call("store", None)
Unlock == Call("unlock", None)
Again(k) == Call("again", k)                  \* back to call k, Loops times in all
Exit(x) == Call("exit", x)                    \* pthread_exit(), or the end of the function

Two(m, t) == [main |-> m, t1 |-> t, t2 |-> <<>>, t3 |-> <<>>]

\* The thread takes the cancellation back before any point at which it could act.
\* Mutation: it prints first.
Ex02PrintsFirst ==
  Two(<<Create("t1"), Sleep, Cancel("t1"), Join("t1")>>,
      <<Printf, DisableCancel, Sleep, Printf, Exit("text")>>)
Ex02 ==
  Two(<<Create("t1"), Sleep, Cancel("t1"), Join("t1")>>,
      <<DisableCancel, Printf, Sleep, Printf, Exit("text")>>)

Ex01 == Two(<<Create("t1"), Join("t1")>>, <<Printf, Sleep, Printf, Exit("text")>>)
Ex03 == Two(<<Create("t1"), Detach("t1"), Pause, Join("t1")>>, <<Printf, Sleep, Exit("text")>>)
Ex04 == Two(<<Create("t1"), Join("t1")>>, <<Printf, Sleep, Exit("text")>>)

Ex05Thread == <<Lock, Load, Store, Unlock, Again(1), Exit(None)>>
Ex05 == [main |-> <<Create("t1"), Create("t2"), Join("t1"), Join("t2")>>,
         t1 |-> Ex05Thread, t2 |-> Ex05Thread, t3 |-> <<>>]

\* Mutation: the block is freed while the handler that frees it is in place.
Ex08FreesFirst == <<Malloc, Printf, Push, Sleep, Free, Printf, Pop, Exit(None)>>
Ex08Thread == <<Malloc, Printf, Push, Sleep, Pop, Free, Printf, Exit(None)>>
Ex08 == Two(<<Create("t1"), Join("t1")>>, Ex08Thread)
Ex08Cleanup == Two(<<Create("t1"), Sleep, Cancel("t1"), Join("t1")>>, Ex08Thread)

ExerciseThread == <<Push, Lock, Load, Store, Printf, Sleep, Unlock, Again(2), Pop, Exit(None)>>
Exercise ==
  [main |-> <<CreateBlindly("t1"), CreateBlindly("t2"), CreateBlindly("t3"),
              Join("t1"), Join("t2"), Join("t3")>>,
   t1 |-> ExerciseThread, t2 |-> ExerciseThread, t3 |-> ExerciseThread]

Code == [ex01 |-> Ex01, ex02 |-> Ex02, ex03 |-> Ex03, ex04 |-> Ex04, ex05 |-> Ex05,
         ex08 |-> Ex08, ex08_cleanup |-> Ex08Cleanup, exercise |-> Exercise]

VARIABLES
  prog,      \* the program that runs, and ...
  code,      \* ... its calls, code[t] those of thread t
  pc,        \* pc[t]: which call of its list thread t is at; 0 before it is created
  loops,     \* loops[t]: rounds of the counter thread t has finished
  temp,      \* temp[t]: the counter as thread t has read it
  count,     \* commonCounter, count
  holder,    \* the thread that holds the mutex, or None
  asked,     \* threads pthread_cancel() was called for
  disabled,  \* threads that have disabled cancellation
  pushed,    \* threads with a cleanup handler in place
  heap,      \* the block of ex08.c: "none", "held", "freed" or, freed again, "twice"
  result,    \* result[t]: what joining t returns: None, "text" or "canceled"
  status     \* "run", "exit" (main returned), "error" (exit after an error) or "crash"

threadVars == <<prog, code, pc, loops, temp, count, holder, asked, disabled, pushed, heap,
                result, status>>

Loops == IF prog = "ex05" THEN 10 ELSE 5

ThreadInit ==
  /\ prog \in DOMAIN Code /\ code = Code[prog]
  /\ pc = [t \in Thread |-> IF t = "main" THEN 1 ELSE 0]
  /\ loops = [t \in Thread |-> 0] /\ temp = [t \in Thread |-> 0] /\ count = 0
  /\ holder = None /\ asked = {} /\ disabled = {} /\ pushed = {}
  /\ heap = "none" /\ result = [t \in Thread |-> None]
  /\ status = "run"

Calls(t) == code[t]
Created(t) == pc[t] # 0
Ended(t) == pc[t] = Len(Calls(t)) + 1
At(t, o) == status = "run" /\ Created(t) /\ ~Ended(t) /\ Calls(t)[pc[t]].op = o
Argument(t) == Calls(t)[pc[t]].arg
Goes(t) == pc' = [pc EXCEPT ![t] = @ + 1]
Freed == IF heap = "held" THEN "freed" ELSE "twice"

------------------------------------------------------------------------------
\* The calls.

\* pthread_create(): when it fails, the programs end but for exercise.c, which goes on
\* with an identifier it never set.
CreateCall(t) ==
  /\ \/ At(t, "create") \/ At(t, "createblindly")
  /\ \/ pc' = [pc EXCEPT ![t] = @ + 1, ![Argument(t)] = 1] /\ UNCHANGED status
     \/ At(t, "create") /\ status' = "error" /\ UNCHANGED pc
     \/ At(t, "createblindly") /\ Goes(t) /\ UNCHANGED status
  /\ UNCHANGED <<prog, code, loops, temp, count, holder, asked, disabled, pushed, heap, result>>

\* pthread_join().  With an identifier that was never set it returns an error or crashes.
\* ex02.c prints what it returns, and PTHREAD_CANCELED is no text: a crash.
JoinCall(t) ==
  /\ At(t, "join")
  /\ Created(Argument(t)) => Ended(Argument(t))
  /\ LET NoText == prog = "ex02" /\ result[Argument(t)] = "canceled"
     IN  \/ ~NoText /\ UNCHANGED status
         \/ (NoText \/ ~Created(Argument(t))) /\ status' = "crash"
  /\ Goes(t)
  /\ UNCHANGED <<prog, code, loops, temp, count, holder, asked, disabled, pushed, heap, result>>

CancelCall(t) ==
  /\ At(t, "cancel")
  /\ asked' = asked \union {Argument(t)}
  /\ Goes(t)
  /\ UNCHANGED <<prog, code, loops, temp, count, holder, disabled, pushed, heap, result, status>>

\* Calls of a thread about itself: pthread_detach(), pthread_setcancelstate(),
\* pthread_cleanup_push() and pop(0), malloc() and free().
OwnCall(t) ==
  /\ \/ At(t, "detach") /\ UNCHANGED <<disabled, pushed, heap>>
     \/ At(t, "disable") /\ disabled' = disabled \union {t} /\ UNCHANGED <<pushed, heap>>
     \/ At(t, "push") /\ pushed' = pushed \union {t} /\ UNCHANGED <<disabled, heap>>
     \/ At(t, "pop") /\ pushed' = pushed \ {t} /\ UNCHANGED <<disabled, heap>>
     \/ At(t, "malloc") /\ heap' = "held" /\ UNCHANGED <<disabled, pushed>>
     \/ At(t, "free") /\ heap' = Freed /\ UNCHANGED <<disabled, pushed>>
  /\ Goes(t)
  /\ UNCHANGED <<prog, code, loops, temp, count, holder, asked, result, status>>

Canceled(t) == t \in asked \ disabled

\* sleep() and printf().  Only printf() may return in a thread that is to be cancelled:
\* when it does not write yet.
SleepCall(t) ==
  /\ \/ At(t, "sleep") /\ ~Canceled(t)
     \/ At(t, "print")
  /\ Goes(t)
  /\ UNCHANGED <<prog, code, loops, temp, count, holder, asked, disabled, pushed, heap, result,
                 status>>

\* A cancellation point acts: the cleanup handler runs, in ex08.c free().
CancelActs(t) ==
  /\ At(t, "sleep") \/ At(t, "print")
  /\ Canceled(t)
  /\ pc' = [pc EXCEPT ![t] = Len(Calls(t)) + 1]
  /\ result' = [result EXCEPT ![t] = "canceled"]
  /\ pushed' = pushed \ {t}
  /\ heap' = IF t \in pushed THEN Freed ELSE heap
  /\ UNCHANGED <<prog, code, loops, temp, count, holder, asked, disabled, status>>

\* Mutation: the mutex is not looked at.
LockTaken(t) ==
  /\ At(t, "lock")
  /\ holder' = t
  /\ Goes(t)
  /\ UNCHANGED <<prog, code, loops, temp, count, asked, disabled, pushed, heap, result, status>>
LockCall(t) ==
  /\ At(t, "lock") /\ holder = None
  /\ holder' = t
  /\ Goes(t)
  /\ UNCHANGED <<prog, code, loops, temp, count, asked, disabled, pushed, heap, result, status>>

\* The counter is read, and later set to one more than what was read.
LoadCounter(t) ==
  /\ At(t, "load")
  /\ temp' = [temp EXCEPT ![t] = count]
  /\ Goes(t)
  /\ UNCHANGED <<prog, code, loops, count, holder, asked, disabled, pushed, heap, result, status>>
StoreCounter(t) ==
  /\ At(t, "store")
  /\ count' = temp[t] + 1
  /\ temp' = [temp EXCEPT ![t] = 0]
  /\ Goes(t)
  /\ UNCHANGED <<prog, code, loops, holder, asked, disabled, pushed, heap, result, status>>

UnlockCall(t) ==
  /\ At(t, "unlock")
  /\ holder' = None
  /\ Goes(t)
  /\ UNCHANGED <<prog, code, loops, temp, count, asked, disabled, pushed, heap, result, status>>

Repeat(t) ==
  /\ At(t, "again")
  /\ loops' = [loops EXCEPT ![t] = @ + 1]
  /\ pc' = [pc EXCEPT ![t] = IF loops[t] + 1 < Loops THEN Argument(t) ELSE @ + 1]
  /\ UNCHANGED <<prog, code, temp, count, holder, asked, disabled, pushed, heap, result, status>>

ExitCall(t) ==
  /\ At(t, "exit")
  /\ result' = [result EXCEPT ![t] = Argument(t)]
  /\ Goes(t)
  /\ UNCHANGED <<prog, code, loops, temp, count, holder, asked, disabled, pushed, heap, status>>

\* The end of main() is that of all threads.
MainReturns ==
  /\ status = "run" /\ Ended("main")
  /\ status' = "exit"
  /\ UNCHANGED <<prog, code, pc, loops, temp, count, holder, asked, disabled, pushed, heap, result>>

Step(t) ==
  \/ CreateCall(t) \/ JoinCall(t) \/ CancelCall(t) \/ OwnCall(t) \/ SleepCall(t)
  \/ CancelActs(t) \/ LockCall(t) \/ LoadCounter(t) \/ StoreCounter(t) \/ UnlockCall(t)
  \/ Repeat(t) \/ ExitCall(t)

ThreadNext == MainReturns \/ \E t \in Thread : Step(t)

\* Threads are scheduled; the others' rounds end, and with them the wait for the mutex.
ThreadSpec ==
  /\ ThreadInit /\ [][ThreadNext]_threadVars
  /\ \A t \in Thread : WF_threadVars(Step(t))
  /\ WF_threadVars(MainReturns)

------------------------------------------------------------------------------
\* Properties.

\* Every variable stays in its range.
ThreadTypeOK ==
  /\ \A t \in Thread : pc[t] \in 0..(Len(Calls(t)) + 1)
  /\ \A t \in Thread : loops[t] \in 0..Loops /\ temp[t] \in 0..(3 * Loops)
  /\ count \in 0..(3 * Loops)
  /\ holder \in Thread \union {None}
  /\ asked \union disabled \union pushed \subseteq Thread
  /\ heap \in {"none", "held", "freed", "twice"}
  /\ result \in [Thread -> {None, "text", "canceled"}]
  /\ status \in {"run", "exit", "error", "crash"}

\* ex05.c and exercise.c: when main returns, no increment of any thread is lost.
CountExact ==
  status = "exit" /\ prog \in {"ex05", "exercise"} =>
    count = Loops * Cardinality({t \in Thread \ {"main"} : Created(t)})

\* ex08.c: the block is never freed twice, wherever the cancellation acts, and not left
\* behind unless that was before the handler was in place.
FreedOnce ==
  /\ heap # "twice"
  /\ status = "exit" /\ prog \in {"ex08", "ex08_cleanup"} /\ heap # "freed" =>
       heap = "held" /\ result["t1"] = "canceled"

\* ex02.c: the cancellation never reaches the thread, and main prints the text of it.
TextIsJoined ==
  prog \in {"ex01", "ex02", "ex04"} /\ status \in {"exit", "crash"} => result["t1"] = "text"

\* Every program ends but ex03.c, whose pause() nothing ends.
ThreadsEnded == prog # "ex03" => status # "run"
ThreadsEnd == []<>ThreadsEnded
==============================================================================
