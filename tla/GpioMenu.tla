------------------------------ MODULE GpioMenu ------------------------------
(***************************************************************************)
(* raspi/main.c with the library libled.so (led.c, wiring.c): a menu that  *)
(* switches an LED and lets a light sensor (CDS) control it.  An LED       *)
(* command is run by a thread that main() joins; the sensor is watched by  *)
(* a detached thread that "OFF" cancels.  All threads get the address of   *)
(* the one buffer main() reads words into.                                 *)
(*                                                                         *)
(* The user types tokens: a number of the menu, a word, or the end of      *)
(* input.  scanf("%d") leaves a word in the input; nothing gets past the   *)
(* end of input.                                                           *)
(***************************************************************************)
EXTENDS Integers, FiniteSets

CONSTANTS MaxCds,   \* bound on the sensor threads created
          MaxTyped  \* bound on the tokens typed

BoundsAssumption == MaxCds \in Nat \ {0} /\ MaxTyped \in Nat

Cds == 1..MaxCds
NoTid == 0

Menu == {"0", "1", "2", "3"}     \* "0" stands for every number without an entry
Word == {"ON", "OFF", "BLINK", "q", "other"}
EndOfInput == "eof"
Token == Menu \cup Word \cup {EndOfInput}
Nothing == ""
Content == Word \cup {"number", Nothing}     \* of buf

VARIABLES
  pc,        \* main(): "menu", "dispatch", "led", "ledword", "join", "cds", "cdsword",
             \* "exited", or "crashed" after something undefined
  menu,      \* the variable of that name
  left,      \* a token typed and refused by scanf("%d"), or Nothing
  typed,     \* number of tokens typed
  buf,       \* the word in buf
  asked,     \* history: a word that begins with "ON" was read into it
  tid2,      \* the thread tid2 names, NoTid for an uninitialised variable
  lpc,       \* the LED thread: "none", "start", "act", "blink", "close" or "done"
  cpc,       \* cpc[k]: the k-th sensor thread: "none", "start", "read", "sense", "lit",
             \* "unlit", "pause", "close", "done" or "cancelled"
  cancel,    \* sensor threads with a pending pthread_cancel()
  handles,   \* dlopen() calls without their dlclose()
  led,       \* the level of the LED pin
  told,      \* history: the last LED command that reached the pin
  cutShort   \* history: a sensor thread was cancelled while the LED was lit for it

mainVars == <<pc, menu, left, typed, buf, asked, tid2>>
threadVars == <<lpc, cpc, cancel>>
libVars == <<handles, led, told, cutShort>>
vars == <<mainVars, threadVars, libVars>>

Init ==
  /\ pc = "menu" /\ left = Nothing /\ typed = 0
  /\ menu \in Menu      \* int menu; has no initial value
  /\ buf = Nothing /\ asked = FALSE
  /\ tid2 = NoTid
  /\ lpc = "none"
  /\ cpc = [k \in Cds |-> "none"]
  /\ cancel = {}
  /\ handles = 0
  /\ led = "low" /\ told = Nothing /\ cutShort = FALSE

------------------------------------------------------------------------------
\* main().

\* The next token: one that is left over, or a newly typed one.
NextToken(t) ==
  \/ left # Nothing /\ t = left /\ UNCHANGED typed
  \/ left = Nothing /\ typed < MaxTyped /\ t \in Token /\ typed' = typed + 1

\* scanf("%d", &menu): a word stays in the input and menu keeps its value.
ScanMenu ==
  /\ pc = "menu"
  /\ \E t \in Token :
       /\ NextToken(t)
       /\ IF t \in Menu THEN menu' = t /\ left' = Nothing
                        ELSE UNCHANGED menu /\ left' = t
  /\ pc' = "dispatch"
  /\ UNCHANGED <<buf, asked, tid2, threadVars>>

Dispatch ==
  /\ pc = "dispatch"
  /\ pc' = IF menu = "1" THEN "led" ELSE IF menu = "2" THEN "cds"
           ELSE IF menu = "3" THEN "exited" ELSE "menu"
  /\ UNCHANGED <<menu, left, typed, buf, asked, tid2, threadVars>>

\* memset(buf) before each word.
ClearBuf ==
  /\ pc \in {"led", "cds"}
  /\ buf' = Nothing
  /\ pc' = IF pc = "led" THEN "ledword" ELSE "cdsword"
  /\ UNCHANGED <<menu, left, typed, asked, tid2, threadVars>>

\* scanf("%s", buf): any token is a word, but the end of input leaves buf empty.
ScanWord(w) ==
  \E t \in Token :
    /\ NextToken(t)
    /\ w = IF t = EndOfInput THEN Nothing ELSE IF t \in Menu THEN "number" ELSE t
    /\ left' = IF t = EndOfInput THEN t ELSE Nothing
    /\ buf' = w /\ asked' = (asked \/ w = "ON")

\* scanf() copies character by character: while a word that only begins with "ON" is
\* copied, buf holds "ON" for a moment.
CopyPrefix ==
  /\ pc \in {"ledword", "cdsword"} /\ buf = Nothing
  /\ NextToken("other")
  /\ left' = "other"
  /\ buf' = "ON" /\ asked' = TRUE
  /\ UNCHANGED <<pc, menu, tid2, threadVars>>

\* pthread_create() fails: exit(-1).
CreateFails == pc' = "exited" /\ UNCHANGED <<tid2, threadVars>>

\* Where the LED branch goes with a new thread.  Mutation: it is not joined.
NotJoined == "led"
AfterCreate == "join"

LedWord ==
  /\ pc = "ledword"
  /\ \E w \in Content :
       /\ ScanWord(w)
       /\ \/ w = "q" /\ pc' = "menu" /\ UNCHANGED <<tid2, threadVars>>
          \/ w # "q" /\ pc' = AfterCreate /\ lpc' = "start" /\ UNCHANGED <<tid2, cpc, cancel>>
          \/ w # "q" /\ CreateFails
  /\ UNCHANGED menu

Join ==
  /\ pc = "join"
  /\ lpc = "done"
  /\ lpc' = "none" /\ pc' = "led"
  /\ UNCHANGED <<menu, left, typed, buf, asked, tid2, cpc, cancel>>

\* pthread_cancel(tid2): of a thread that never was, or of a detached one that has
\* ended, it is undefined; in practice it does nothing or ends the process.
CancelCds ==
  IF tid2 \in Cds /\ cpc[tid2] \notin {"done", "cancelled"}
  THEN pc' = "menu" /\ cancel' = cancel \cup {tid2}
  ELSE pc' \in {"menu", "crashed"} /\ UNCHANGED cancel

NewCds == {k \in Cds : cpc[k] = "none" /\ \A j \in Cds : j < k => cpc[j] # "none"}

CdsWord ==
  /\ pc = "cdsword"
  /\ \E w \in Content :
       /\ ScanWord(w)
       /\ \/ w = "OFF" /\ CancelCds /\ UNCHANGED <<tid2, lpc, cpc>>
          \/ /\ w # "OFF"
             /\ \E k \in NewCds : tid2' = k /\ cpc' = [cpc EXCEPT ![k] = "start"]
             /\ pc' = "menu"
             /\ UNCHANGED <<lpc, cancel>>
          \/ w # "OFF" /\ CreateFails
  /\ UNCHANGED menu

MainGoesOn == (Dispatch \/ ClearBuf \/ Join) /\ UNCHANGED libVars

MainStep ==
  MainGoesOn \/ ((ScanMenu \/ CopyPrefix \/ LedWord \/ CdsWord) /\ UNCHANGED libVars)

------------------------------------------------------------------------------
\* The LED thread.  main() waits for it, so nothing else writes buf.

\* dlopen() and dlsym(); if the library is not there the thread ends at once.
LedOpen ==
  /\ lpc = "start"
  /\ \/ lpc' = "act" /\ handles' = handles + 1
     \/ lpc' = "done" /\ UNCHANGED handles
  /\ UNCHANGED <<led, told>>

\* led_function(): the first entry of lut[] that is called like the argument.
LedAct ==
  /\ lpc = "act"
  /\ IF buf \in {"ON", "OFF", "BLINK"}
     THEN led' = (IF buf = "OFF" THEN "low" ELSE "high") /\ told' = buf
     ELSE UNCHANGED <<led, told>>
  /\ lpc' = IF buf = "BLINK" THEN "blink" ELSE "close"
  /\ UNCHANGED handles

\* led_blink() goes on after delay(500).
LedBlink ==
  /\ lpc = "blink"
  /\ led' = "low"
  /\ lpc' = "close"
  /\ UNCHANGED <<handles, told>>

LedClose ==
  /\ lpc = "close"
  /\ handles' = handles - 1
  /\ lpc' = "done"
  /\ UNCHANGED <<led, told>>

LedStep ==
  /\ LedOpen \/ LedAct \/ LedBlink \/ LedClose
  /\ UNCHANGED <<mainVars, cpc, cancel, cutShort>>

------------------------------------------------------------------------------
\* The sensor threads.

Goto(k, label) == cpc' = [cpc EXCEPT ![k] = label]

CdsOpen(k) ==
  /\ cpc[k] = "start"
  /\ \/ Goto(k, "read") /\ handles' = handles + 1
     \/ Goto(k, "done") /\ UNCHANGED handles
  /\ UNCHANGED <<led, cutShort>>

\* cds_function() compares its argument with "ON", whatever is in buf by now.
\* Mutation: any other word than "OFF" will do.
AnyWord(word) == word # "OFF"
Wanted(word) == word = "ON"

CdsRead(k) ==
  /\ cpc[k] = "read"
  /\ Goto(k, IF Wanted(buf) THEN "sense" ELSE "close")
  /\ UNCHANGED <<handles, led, cutShort>>

\* digitalRead(CDS): the sensor lights the LED for a second, or not.
CdsSense(k) ==
  /\ cpc[k] = "sense"
  /\ \/ led' = "high" /\ Goto(k, "lit")
     \/ UNCHANGED led /\ Goto(k, "pause")
  /\ UNCHANGED <<handles, cutShort>>

\* delay() returns, unless a cancellation is pending.  Mutation: a loop in place of
\* delay(), which is no cancellation point.
Woken(k) == Goto(k, IF cpc[k] = "lit" THEN "unlit" ELSE "sense")

CdsBusyWait(k) ==
  /\ cpc[k] \in {"lit", "pause"}
  /\ Woken(k)
  /\ UNCHANGED <<handles, led, cutShort>>
CdsWake(k) ==
  /\ cpc[k] \in {"lit", "pause"}
  /\ k \notin cancel
  /\ Woken(k)
  /\ UNCHANGED <<handles, led, cutShort>>

CdsDark(k) ==
  /\ cpc[k] = "unlit"
  /\ led' = "low" /\ Goto(k, "pause")
  /\ UNCHANGED <<handles, cutShort>>

CdsClose(k) ==
  /\ cpc[k] = "close"
  /\ handles' = handles - 1
  /\ Goto(k, "done")
  /\ UNCHANGED <<led, cutShort>>

\* Cancellation is deferred to the next delay(), or to the calls in wiringPiSetup()
\* and printf() that may act on it; there is no cleanup handler.
CdsCancelled(k) ==
  /\ k \in cancel /\ cpc[k] \in {"read", "lit", "pause"}
  /\ cutShort' = (cutShort \/ cpc[k] = "lit")
  /\ Goto(k, "cancelled")
  /\ UNCHANGED <<handles, led>>

CdsStep(k) ==
  /\ \/ CdsOpen(k) \/ CdsRead(k) \/ CdsSense(k) \/ CdsWake(k) \/ CdsDark(k)
     \/ CdsClose(k) \/ CdsCancelled(k)
  /\ UNCHANGED <<mainVars, lpc, cancel, told>>

------------------------------------------------------------------------------
Running == pc \notin {"exited", "crashed"}

Next ==
  \/ MainStep
  \/ Running /\ LedStep
  \/ \E k \in Cds : Running /\ CdsStep(k)

Spec == Init /\ [][Next]_vars

\* Every thread is scheduled; the user need not type.
FairSpec ==
  /\ Spec
  /\ WF_vars(MainGoesOn)
  /\ WF_vars(Running /\ LedStep)
  /\ \A k \in Cds : WF_vars(Running /\ CdsStep(k))

------------------------------------------------------------------------------
\* Properties.

\* Every variable stays in its range, and the handles of the library are those of the
\* threads that use it and of those that were cancelled.
LedHolds == lpc \in {"act", "blink", "close"}
CdsHolds == {k \in Cds : cpc[k] \in {"read", "sense", "lit", "unlit", "pause", "close",
                              "cancelled"}}
TypeOK ==
  /\ pc \in {"menu", "dispatch", "led", "ledword", "join", "cds", "cdsword", "exited",
             "crashed"}
  /\ menu \in Menu
  /\ left \in Token \cup {Nothing} /\ buf \in Content
  /\ typed \in 0..MaxTyped
  /\ tid2 \in Cds \cup {NoTid}
  /\ lpc \in {"none", "start", "act", "blink", "close", "done"}
  /\ lpc # "none" => pc = "join"
  /\ cancel \subseteq {k \in Cds : cpc[k] # "none"}
  /\ handles = Cardinality(CdsHolds) + (IF LedHolds THEN 1 ELSE 0)
  /\ led \in {"low", "high"}

\* The LED is on only because the last LED command said so, or for a second because a
\* sensor thread found in buf a word that begins with "ON"; or because "OFF" cancelled
\* the thread in that second.
LedExplained ==
  led = "high" =>
    \/ told = "ON" \/ lpc = "blink"
    \/ asked /\ (cutShort \/ \E k \in Cds : cpc[k] \in {"lit", "unlit"})

\* A sensor thread that is cancelled ends, wherever the cancellation finds it.
CancelEnds ==
  []<>(Running => \A k \in cancel : cpc[k] \in {"done", "cancelled"})
==============================================================================
