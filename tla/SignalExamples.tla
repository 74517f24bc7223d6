---------------------------- MODULE SignalExamples ----------------------------
(***************************************************************************)
(* The signal examples: ch06/ex01.c to ex04.c, ch06-2/ex02.c to ex06.c and *)
(* exercise.c, ch08/ex09.c and ex10.c.  A program is the list of its calls *)
(* that concern signals or threads; the module lets one of them run while  *)
(* signals come from outside.  Loops that only print and sleep are Work    *)
(* when they end and Forever when they do not.                             *)
(***************************************************************************)
EXTENDS Integers, Sequences

CONSTANTS Outside,  \* signals that other processes and the terminal send
          MaxSent   \* bound on them

Signal == {"INT", "QUIT", "USR1", "USR2", "TERM", "ALRM"}

SignalAssumption == Outside \subseteq Signal \ {"ALRM"} /\ MaxSent \in Nat

Sig == Outside \union {"ALRM"}  \* those that occur
Thread == {"main", "t1", "t2", "t3"}
None == "none"

------------------------------------------------------------------------------
\* The programs.

Call(o, S, x) == [op |-> o, set |-> S, arg |-> x]
SetMask(S) == Call("setmask", S, None)
Block(S) == Call("block", S, None)
Unblock(S) == Call("unblock", S, None)
Handle(s, S) == Call("handle", S, s)    \* sigaction() with sa_mask S
Default(s) == Call("default", {}, s)
Alarm == Call("alarm", {}, None)
Timer == Call("timer", {}, None)
Pause == Call("pause", {}, None)
Suspend(S) == Call("suspend", S, None)
Sigwait(S) == Call("sigwait", S, None)  \* in a loop without end
Create(t) == Call("create", {}, t)
Join(t) == Call("join", {}, t)
Work == Call("work", {}, None)
Forever == Call("forever", {}, None)

Alone(calls) == [t \in Thread |-> IF t = "main" THEN calls ELSE <<>>]

Ch06Ex01 == Alone(<<SetMask(Sig \ {"INT", "QUIT"}), Forever>>)
Ch06Ex02 == Alone(<<Handle("INT", {"INT"}), Forever>>)
Ch06Ex03 == Alone(<<Handle("INT", {"INT", "QUIT"}), Work, Default("INT"), Forever>>)
Ch06Ex04 == Alone(<<Handle("INT", Sig), Forever>>)
Ch062Ex02 == Alone(<<Block(Sig), Work, Unblock({"INT"}), Forever>>)
Ch062Ex03 == Alone(<<SetMask(Sig), Work>>)
Ch062Ex04 == Alone(<<Block(Sig), Suspend(Sig \ {"INT"})>>)
Ch062Ex05 == Alone(<<Handle("ALRM", Sig), Alarm, Work, Pause>>)  \* not yet in pause()
Ch062Ex06 == Alone(<<Handle("ALRM", Sig), Timer, Forever>>)
Ch062Exercise ==
  Alone(<<Block(Sig \ {"INT", "USR1", "USR2"}),
          Handle("INT", Sig), Handle("USR1", Sig), Handle("USR2", Sig), Forever>>)

\* Two threads, each with a handler and a signal it alone lets through.
\* Mutation: the first lets its signal through before it has a handler.
Ch08Ex09UnblocksFirst ==
  [main |-> <<SetMask(Sig \ {"INT"}), Create("t1"), Create("t2"), Join("t1"), Join("t2")>>,
   t1 |-> <<Unblock({"USR1"}), Handle("USR1", Sig), Work>>,
   t2 |-> <<Handle("USR2", Sig), Unblock({"USR2"}), Work>>,
   t3 |-> <<>>]
Ch08Ex09 ==
  [main |-> <<SetMask(Sig \ {"INT"}), Create("t1"), Create("t2"), Join("t1"), Join("t2")>>,
   t1 |-> <<Handle("USR1", Sig), Unblock({"USR1"}), Work>>,
   t2 |-> <<Handle("USR2", Sig), Unblock({"USR2"}), Work>>,
   t3 |-> <<>>]

\* A thread that waits for the signals everybody blocks, and two that work.
\* Mutation: it waits for one of them only.
Ch08Ex10WaitsForOne ==
  [main |-> <<SetMask(Sig \ {"INT"}), Create("t3"), Create("t1"), Create("t2"),
              Join("t1"), Join("t2"), Join("t3")>>,
   t1 |-> <<Work>>, t2 |-> <<Work>>, t3 |-> <<Sigwait({"USR1"})>>]
Ch08Ex10 ==
  [main |-> <<SetMask(Sig \ {"INT"}), Create("t3"), Create("t1"), Create("t2"),
              Join("t1"), Join("t2"), Join("t3")>>,
   t1 |-> <<Work>>, t2 |-> <<Work>>, t3 |-> <<Sigwait({"USR1", "USR2"})>>]

Code == [ch06_ex01 |-> Ch06Ex01, ch06_ex02 |-> Ch06Ex02, ch06_ex03 |-> Ch06Ex03,
         ch06_ex04 |-> Ch06Ex04, ch06_2_ex02 |-> Ch062Ex02, ch06_2_ex03 |-> Ch062Ex03,
         ch06_2_ex04 |-> Ch062Ex04, ch06_2_ex05 |-> Ch062Ex05, ch06_2_ex06 |-> Ch062Ex06,
         ch06_2_exercise |-> Ch062Exercise, ch08_ex09 |-> Ch08Ex09, ch08_ex10 |-> Ch08Ex10]

VARIABLES
  prog,     \* the program that runs, and ...
  code,     \* ... its calls, code[t] those of thread t
  pc,       \* pc[t]: which call of its list thread t is at; 0 before it is created
  mask,     \* mask[t]: signals thread t blocks
  disp,     \* disp[s]: "default" or "handled", for the process
  saMask,   \* saMask[s]: what its handler blocks while it runs
  once,     \* sa_flags of ch06/ex04.c, never set, hold SA_RESETHAND by chance
  pend,     \* pending signals of the process
  inside,   \* inside[t]: the signal whose handler runs in thread t, or None
  saved,    \* saved[t]: the mask thread t returns to after a handler
  timer,    \* "off", "once" or "interval"
  caught,   \* signals a handler or sigwait() has dealt with
  sent,     \* number of signals sent
  status    \* "run", "exit" or the signal that has killed the process

signalVars == <<prog, code, pc, mask, disp, saMask, once, pend, inside, saved, timer,
                caught, sent, status>>

SignalInit ==
  /\ prog \in DOMAIN Code /\ code = Code[prog]
  /\ pc = [t \in Thread |-> IF t = "main" THEN 1 ELSE 0]
  /\ mask = [t \in Thread |-> {}] /\ saved = [t \in Thread |-> {}]
  /\ disp = [s \in Sig |-> "default"] /\ saMask = [s \in Sig |-> {}]
  /\ once \in BOOLEAN /\ (once => prog = "ch06_ex04")
  /\ pend = {} /\ inside = [t \in Thread |-> None]
  /\ timer = "off" /\ caught = {} /\ sent = 0 /\ status = "run"

Calls(t) == code[t]
Ended(t) == pc[t] = Len(Calls(t)) + 1

------------------------------------------------------------------------------
\* The kernel.

Send ==
  /\ status = "run" /\ sent < MaxSent
  /\ \E s \in Outside : pend' = pend \union {s}
  /\ sent' = sent + 1
  /\ UNCHANGED <<prog, code, pc, mask, disp, saMask, once, inside, saved, timer, caught, status>>

Expire ==
  /\ status = "run" /\ timer # "off"
  /\ pend' = pend \union {"ALRM"}
  /\ timer' = IF timer = "once" THEN "off" ELSE timer
  /\ UNCHANGED <<prog, code, pc, mask, disp, saMask, once, inside, saved, caught, sent, status>>

\* A pending signal goes to any thread that lets it through.  Without a handler it ends
\* the process; with one, the thread runs it under the mask of sigaction().
Deliver(t, s) ==
  /\ status = "run" /\ s \in pend \ mask[t] /\ pc[t] # 0 /\ ~Ended(t)
  /\ pend' = pend \ {s}
  /\ IF disp[s] = "default"
     THEN status' = s /\ UNCHANGED <<mask, inside, saved, disp>>
     ELSE /\ inside' = [inside EXCEPT ![t] = s]
          /\ saved' = [saved EXCEPT ![t] = mask[t]]
          /\ mask' = [mask EXCEPT ![t] = @ \union saMask[s] \union {s}]
          /\ disp' = [disp EXCEPT ![s] = IF once THEN "default" ELSE @]
          /\ UNCHANGED status
  /\ UNCHANGED <<prog, code, pc, saMask, once, timer, caught, sent>>

\* The handler returns, and with it a pause().
Return(t) ==
  /\ status = "run" /\ inside[t] # None
  /\ caught' = caught \union {inside[t]}
  /\ inside' = [inside EXCEPT ![t] = None]
  /\ mask' = [mask EXCEPT ![t] = saved[t]]
  /\ pc' = [pc EXCEPT ![t] = IF Calls(t)[@].op = "pause" THEN @ + 1 ELSE @]
  /\ UNCHANGED <<prog, code, disp, saMask, once, pend, saved, timer, sent, status>>

------------------------------------------------------------------------------
\* The calls.

At(t, o) ==
  status = "run" /\ pc[t] # 0 /\ ~Ended(t) /\ inside[t] = None /\ Calls(t)[pc[t]].op = o
Argument(t) == Calls(t)[pc[t]].arg
Set(t) == Calls(t)[pc[t]].set
Goes(t) == pc' = [pc EXCEPT ![t] = @ + 1]

\* sigprocmask() and pthread_sigmask().
MaskCall(t) ==
  /\ \/ At(t, "setmask") /\ mask' = [mask EXCEPT ![t] = Set(t)]
     \/ At(t, "block") /\ mask' = [mask EXCEPT ![t] = @ \union Set(t)]
     \/ At(t, "unblock") /\ mask' = [mask EXCEPT ![t] = @ \ Set(t)]
  /\ Goes(t)
  /\ UNCHANGED <<prog, code, disp, saMask, once, pend, inside, saved, timer, caught, sent, status>>

\* sigaction() and signal().
HandlerCall(t) ==
  /\ \/ /\ At(t, "handle")
        /\ disp' = [disp EXCEPT ![Argument(t)] = "handled"]
        /\ saMask' = [saMask EXCEPT ![Argument(t)] = Set(t)]
     \/ /\ At(t, "default")
        /\ disp' = [disp EXCEPT ![Argument(t)] = "default"]
        /\ UNCHANGED saMask
  /\ Goes(t)
  /\ UNCHANGED <<prog, code, mask, once, pend, inside, saved, timer, caught, sent, status>>

\* alarm() and setitimer().
TimerCall(t) ==
  /\ \/ At(t, "alarm") /\ timer' = "once"
     \/ At(t, "timer") /\ timer' = "interval"
  /\ Goes(t)
  /\ UNCHANGED <<prog, code, mask, disp, saMask, once, pend, inside, saved, caught, sent, status>>

\* sigsuspend() takes its mask and waits; the only signal let through has no handler.
SuspendCall(t) ==
  /\ At(t, "suspend") /\ mask[t] # Set(t)
  /\ mask' = [mask EXCEPT ![t] = Set(t)]
  /\ UNCHANGED <<prog, code, pc, disp, saMask, once, pend, inside, saved, timer, caught, sent,
                 status>>

\* sigwait() takes a pending signal, and is called again.
SigwaitCall(t) ==
  /\ At(t, "sigwait")
  /\ \E s \in pend \intersect Set(t) : pend' = pend \ {s} /\ caught' = caught \union {s}
  /\ UNCHANGED <<prog, code, pc, mask, disp, saMask, once, inside, saved, timer, sent, status>>

\* pthread_create() gives the thread the mask of its creator, or fails: exit(1).
CreateCall(t) ==
  /\ At(t, "create")
  /\ \/ /\ pc' = [pc EXCEPT ![t] = @ + 1, ![Argument(t)] = 1]
        /\ mask' = [mask EXCEPT ![Argument(t)] = mask[t]]
        /\ UNCHANGED status
     \/ status' = "exit" /\ UNCHANGED <<pc, mask>>
  /\ UNCHANGED <<prog, code, disp, saMask, once, pend, inside, saved, timer, caught, sent>>

JoinCall(t) ==
  /\ At(t, "join") /\ Ended(Argument(t))
  /\ Goes(t)
  /\ UNCHANGED <<prog, code, mask, disp, saMask, once, pend, inside, saved, timer, caught, sent,
                 status>>

WorkDone(t) ==
  /\ At(t, "work")
  /\ Goes(t)
  /\ UNCHANGED <<prog, code, mask, disp, saMask, once, pend, inside, saved, timer, caught, sent,
                 status>>

\* The end of main() is that of the process.
MainReturns ==
  /\ status = "run" /\ Ended("main")
  /\ status' = "exit"
  /\ UNCHANGED <<prog, code, pc, mask, disp, saMask, once, pend, inside, saved, timer, caught,
                 sent>>

Step(t) ==
  \/ MaskCall(t) \/ HandlerCall(t) \/ TimerCall(t) \/ SuspendCall(t) \/ SigwaitCall(t)
  \/ CreateCall(t) \/ JoinCall(t) \/ WorkDone(t) \/ Return(t)
  \/ \E s \in Sig : Deliver(t, s)

SignalNext == Send \/ Expire \/ MainReturns \/ \E t \in Thread : Step(t)

\* Threads run, timers expire and pending signals are delivered to whom they may be;
\* nobody has to send any.
SignalSpec ==
  /\ SignalInit /\ [][SignalNext]_signalVars
  /\ \A t \in Thread : WF_signalVars(Step(t))
  /\ WF_signalVars(Expire) /\ WF_signalVars(MainReturns)

------------------------------------------------------------------------------
\* Properties.

\* Every variable stays in its range, and a thread runs a handler only of a signal that it
\* blocks meanwhile: handlers of one thread never nest.
SignalTypeOK ==
  /\ \A t \in Thread : pc[t] \in 0..(Len(Calls(t)) + 1)
  /\ \A t \in Thread : mask[t] \subseteq Signal /\ saved[t] \subseteq Signal
  /\ disp \in [Sig -> {"default", "handled"}]
  /\ saMask \in [Sig -> SUBSET Signal]
  /\ once \in BOOLEAN /\ pend \subseteq Sig
  /\ \A t \in Thread : inside[t] # None => inside[t] \in mask[t] \ saved[t]
  /\ timer \in {"off", "once", "interval"}
  /\ caught \subseteq Sig /\ sent \in 0..MaxSent
  /\ status \in Sig \union {"run", "exit"}

\* What a program undertakes not to die by, while main is at one of its calls.
Survives ==
  CASE prog = "ch06_ex01" -> {<<Sig \ {"INT", "QUIT"}, 2..2>>}
    [] prog = "ch06_ex02" -> {<<{"INT"}, 2..2>>}
    [] prog = "ch06_ex03" -> {<<{"INT"}, 2..3>>}
    [] prog = "ch06_ex04" -> {<<IF once THEN {} ELSE {"INT"}, 2..2>>}
    [] prog = "ch06_2_ex02" -> {<<Sig, 2..3>>, <<Sig \ {"INT"}, 4..4>>}
    [] prog = "ch06_2_ex03" -> {<<Sig, 2..3>>}
    [] prog = "ch06_2_ex04" -> {<<Sig \ {"INT"}, 2..2>>}
    [] prog = "ch06_2_ex05" -> {<<{"ALRM"}, 1..4>>}
    [] prog = "ch06_2_ex06" -> {<<{"ALRM"}, 1..3>>}
    [] prog = "ch06_2_exercise" -> {<<Sig \ {"INT", "USR1", "USR2"}, 2..5>>, <<Sig, 5..5>>}
    [] prog = "ch08_ex09" -> {<<Sig \ {"INT"}, 2..6>>}
    [] prog = "ch08_ex10" -> {<<Sig \ {"INT"}, 2..8>>}

\* No signal that a program blocks or has a handler for ends it, whenever it comes: not
\* between a thread's letting it through and its handler, not after another handler.  The
\* handler that ch06/ex04.c registers with flags it never sets may be taken back.
OnlyOpenSignalsKill ==
  \A r \in Survives : pc["main"] \in r[2] => status \notin r[1]

Catches ==
  CASE prog \in {"ch06_ex02", "ch06_ex03", "ch06_ex04"} -> {"INT"}
    [] prog \in {"ch06_2_ex05", "ch06_2_ex06"} -> {"ALRM"}
    [] prog = "ch06_2_exercise" -> {"INT", "USR1", "USR2"}
    [] prog \in {"ch08_ex09", "ch08_ex10"} -> {"USR1", "USR2"}
    [] OTHER -> {}

\* A signal a program is there to catch does not stay pending while the program runs,
\* unless the only thread of ch08/ex09.c that lets it through has ended.
SignalsArrive ==
  \A s \in {"INT", "ALRM", "USR1", "USR2"} :
    []<>( s \in Catches /\ s \in pend /\ status = "run"
            => prog = "ch08_ex09" /\ \E t \in {"t1", "t2"} : Ended(t) )

\* ch06-2/ex05.c ends by its alarm, unless the alarm came before pause(): then it waits for
\* a signal that nobody sends.
AlarmEnded ==
  prog = "ch06_2_ex05" => \/ status # "run"
                          \/ pc["main"] = 4 /\ timer = "off" /\ "ALRM" \in caught
AlarmEnds == []<>AlarmEnded

\* ch06-2/exercise.c, line 8: Ctrl+C shows the counts, then the program ends.
CtrlCEnds == []<>(prog = "ch06_2_exercise" /\ "INT" \in caught => status # "run")
==============================================================================
