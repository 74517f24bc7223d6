--------------------------- MODULE GpioMenuProofs ---------------------------
(***************************************************************************)
(* Proofs about GpioMenu for any number of sensor threads and tokens: the  *)
(* LED is on only for a reason, although all threads read the one buffer,  *)
(* and the handles of the library are those of the threads that use it.    *)
(***************************************************************************)
EXTENDS GpioMenu, FiniteSetTheorems, TLAPS

CdsLabel == {"none", "start", "read", "sense", "lit", "unlit", "pause", "close", "done",
             "cancelled"}

\* The types of the variables, with those that TypeOK leaves open.
Types ==
  /\ pc \in {"menu", "dispatch", "led", "ledword", "join", "cds", "cdsword", "exited",
             "crashed"}
  /\ menu \in Menu
  /\ left \in Token \cup {Nothing} /\ buf \in Content
  /\ typed \in 0..MaxTyped
  /\ tid2 \in Cds \cup {NoTid}
  /\ tid2 \in Cds => cpc[tid2] # "none"
  /\ lpc \in {"none", "start", "act", "blink", "close", "done"}
  /\ lpc # "none" => pc = "join"
  /\ cpc \in [Cds -> CdsLabel]
  /\ \A k \in cancel : k \in Cds /\ cpc[k] # "none"
  /\ led \in {"low", "high"}

\* Who has opened the library and not closed it.
Opened == handles = Cardinality(CdsHolds) + (IF LedHolds THEN 1 ELSE 0)

\* A word that begins with "ON" was read before any thread finds one.
Heard ==
  /\ buf = "ON" => asked
  /\ \A k \in Cds : cpc[k] \in {"sense", "lit", "unlit", "pause"} => asked

IInv == Types /\ Opened /\ Heard /\ LedExplained

------------------------------------------------------------------------------
(* Lemmas. *)

LEMMA HoldsFinite == ASSUME BoundsAssumption
                     PROVE  IsFiniteSet(CdsHolds) /\ Cardinality(CdsHolds) \in Nat
<1>1. IsFiniteSet(Cds) /\ CdsHolds \subseteq Cds
  BY FS_Interval DEF BoundsAssumption, Cds, CdsHolds
<1> QED
  BY <1>1, FS_Subset, FS_CardinalityType

\* A token that is read is one, and counts once.
LEMMA TokenRead ==
  ASSUME BoundsAssumption, Types, NEW t \in Token, NextToken(t)
  PROVE  typed' \in 0..MaxTyped
BY DEF BoundsAssumption, Types, NextToken

\* What scanf("%s") leaves.
LEMMA WordRead ==
  ASSUME BoundsAssumption, Types, Heard, NEW w \in Content, ScanWord(w)
  PROVE  /\ typed' \in 0..MaxTyped
         /\ left' \in Token \cup {Nothing} /\ buf' \in Content
         /\ asked => asked'
         /\ buf' = "ON" => asked'
<1>1. PICK t \in Token : /\ NextToken(t)
                         /\ left' = IF t = EndOfInput THEN t ELSE Nothing
                         /\ buf' = w /\ asked' = (asked \/ w = "ON")
  BY DEF ScanWord
<1> QED
  BY <1>1, TokenRead DEF Types

\* A step of a sensor thread that neither opens nor closes the library.
LEMMA SameHandles ==
  ASSUME Opened, UNCHANGED <<handles, lpc>>, CdsHolds' = CdsHolds
  PROVE  Opened'
BY DEF Opened, LedHolds

------------------------------------------------------------------------------
(* The invariant is inductive. *)

LEMMA InitInv == ASSUME BoundsAssumption PROVE Init => IInv
<1> SUFFICES ASSUME Init PROVE IInv
  OBVIOUS
<1>1. Types
  BY DEF Init, Types, BoundsAssumption, Cds, CdsLabel, Content, Token, NoTid
<1>2. CdsHolds = {}
  BY DEF Init, CdsHolds
<1>3. Opened
  BY <1>2, FS_EmptySet DEF Init, Opened, LedHolds
<1>4. Heard /\ LedExplained
  BY DEF Init, Heard, LedExplained, Nothing
<1> QED
  BY <1>1, <1>3, <1>4 DEF IInv

\* Steps of main() that touch no thread, and a word at most.
LEMMA MainKeepsThreads ==
  ASSUME IInv, UNCHANGED <<cpc, libVars>>,
         lpc' \in {"none", "start"}, lpc \in {"none", "done"},
         asked => asked', buf' = "ON" => asked', Types'
  PROVE  IInv'
<1>1. Opened'
  <2>1. CdsHolds' = CdsHolds /\ handles' = handles
    BY DEF CdsHolds, libVars
  <2>2. ~LedHolds /\ ~LedHolds'
    BY DEF LedHolds
  <2> QED
    BY <2>1, <2>2 DEF IInv, Opened
<1>2. Heard' /\ LedExplained'
  BY DEF IInv, Heard, LedExplained, libVars
<1> QED
  BY <1>1, <1>2 DEF IInv

LEMMA SameThreads ==
  ASSUME IInv, UNCHANGED <<lpc, cpc, libVars>>,
         asked => asked', buf' = "ON" => asked', Types'
  PROVE  IInv'
<1>1. Opened'
  <2>1. CdsHolds' = CdsHolds /\ handles' = handles /\ LedHolds' = LedHolds
    BY DEF CdsHolds, LedHolds, libVars
  <2> QED
    BY <2>1 DEF IInv, Opened
<1>2. Heard' /\ LedExplained'
  BY DEF IInv, Heard, LedExplained, libVars
<1> QED
  BY <1>1, <1>2 DEF IInv

LEMMA MainInv == ASSUME BoundsAssumption, IInv, MainStep PROVE IInv'
<1>0. Types /\ Heard /\ UNCHANGED libVars /\ led' = led
  BY DEF IInv, MainStep, MainGoesOn, libVars
<1>1. CASE ScanMenu
  <2>1. PICK t \in Token :
          /\ NextToken(t)
          /\ IF t \in Menu THEN menu' = t /\ left' = Nothing ELSE UNCHANGED menu /\ left' = t
    BY <1>1 DEF ScanMenu
  <2>2. Types'
    BY <1>0, <1>1, <2>1, TokenRead DEF ScanMenu, Types, threadVars
  <2> QED
    BY <1>0, <1>1, <2>2, SameThreads DEF ScanMenu, Heard, threadVars
<1>2. CASE Dispatch
  <2>1. Types'
    BY <1>0, <1>2 DEF Dispatch, Types, threadVars
  <2> QED
    BY <1>0, <1>2, <2>1, SameThreads DEF Dispatch, Heard, threadVars
<1>3. CASE ClearBuf
  <2>1. Types'
    BY <1>0, <1>3 DEF ClearBuf, Types, Content, threadVars
  <2> QED
    BY <1>0, <1>3, <2>1, SameThreads DEF ClearBuf, Nothing, threadVars
<1>4. CASE CopyPrefix
  <2>1. "other" \in Token /\ "ON" \in Content
    BY DEF Token, Word, Content
  <2>2. Types'
    BY <1>0, <1>4, <2>1, TokenRead DEF CopyPrefix, Types, threadVars
  <2> QED
    BY <1>0, <1>4, <2>2, SameThreads DEF CopyPrefix, threadVars
<1>5. CASE Join
  <2>1. Types'
    BY <1>0, <1>5 DEF Join, Types
  <2> QED
    BY <1>0, <1>5, <2>1, MainKeepsThreads, Zenon DEF Join, Heard
<1>6. CASE LedWord
  <2>1. PICK w \in Content :
          /\ ScanWord(w)
          /\ \/ w = "q" /\ pc' = "menu" /\ UNCHANGED <<tid2, threadVars>>
             \/ w # "q" /\ pc' = AfterCreate /\ lpc' = "start" /\ UNCHANGED <<tid2, cpc, cancel>>
             \/ w # "q" /\ CreateFails
    BY <1>6 DEF LedWord
  <2>2. /\ typed' \in 0..MaxTyped
        /\ left' \in Token \cup {Nothing} /\ buf' \in Content
        /\ asked => asked'
        /\ buf' = "ON" => asked'
    BY <1>0, <2>1, WordRead
  <2>3. pc = "ledword" /\ lpc = "none" /\ UNCHANGED <<menu, tid2, cpc, cancel>>
    BY <1>0, <1>6, <2>1 DEF LedWord, Types, CreateFails, threadVars
  <2>4. \/ pc' \in {"menu", "exited"} /\ lpc' = "none"
        \/ pc' = "join" /\ lpc' = "start"
    BY <2>1, <2>3 DEF AfterCreate, CreateFails, threadVars
  <2>5. Types'
    BY <1>0, <2>2, <2>3, <2>4 DEF Types
  <2> QED
    BY <1>0, <2>2, <2>3, <2>4, <2>5, MainKeepsThreads
<1>7. CASE CdsWord
  <2>1. PICK w \in Content :
          /\ ScanWord(w)
          /\ \/ w = "OFF" /\ CancelCds /\ UNCHANGED <<tid2, lpc, cpc>>
             \/ /\ w # "OFF"
                /\ \E k \in NewCds : tid2' = k /\ cpc' = [cpc EXCEPT ![k] = "start"]
                /\ pc' = "menu"
                /\ UNCHANGED <<lpc, cancel>>
             \/ w # "OFF" /\ CreateFails
    BY <1>7 DEF CdsWord
  <2>2. /\ typed' \in 0..MaxTyped
        /\ left' \in Token \cup {Nothing} /\ buf' \in Content
        /\ asked => asked'
        /\ buf' = "ON" => asked'
    BY <1>0, <2>1, WordRead
  <2>3. pc = "cdsword" /\ lpc = "none" /\ lpc' = "none" /\ UNCHANGED menu
    BY <1>0, <1>7, <2>1 DEF CdsWord, Types, CreateFails, threadVars
  <2>4. CASE w = "OFF" /\ CancelCds /\ UNCHANGED <<tid2, lpc, cpc>>
    <3>1. pc' \in {"menu", "crashed"}
      BY <2>4 DEF CancelCds
    <3>2. cancel' = cancel \/ (tid2 \in Cds /\ cpc[tid2] # "none" /\ cancel' = cancel \cup {tid2})
      BY <1>0, <2>4 DEF CancelCds, Types
    <3>3. \A j \in cancel' : j \in Cds /\ cpc'[j] # "none"
      BY <1>0, <2>4, <3>2 DEF Types
    <3>4. Types'
      BY <1>0, <2>2, <2>3, <2>4, <3>1, <3>3 DEF Types
    <3> QED
      BY <1>0, <2>2, <2>3, <2>4, <3>4, SameThreads
  <2>5. CASE /\ \E k \in NewCds : tid2' = k /\ cpc' = [cpc EXCEPT ![k] = "start"]
             /\ pc' = "menu" /\ UNCHANGED <<lpc, cancel>>
    <3>1. PICK k \in Cds : /\ cpc[k] = "none" /\ tid2' = k
                           /\ cpc' = [cpc EXCEPT ![k] = "start"]
      BY <2>5 DEF NewCds
    <3>2. /\ cpc' \in [Cds -> CdsLabel]
          /\ cpc'[k] = "start" /\ \A j \in Cds : j # k => cpc'[j] = cpc[j]
      BY <1>0, <3>1 DEF Types, CdsLabel
    <3>3. \A j \in cancel' : j \in Cds /\ cpc'[j] # "none"
      BY <1>0, <2>5, <3>2 DEF Types
    <3>4. Types'
      BY <1>0, <2>2, <2>3, <2>5, <3>1, <3>2, <3>3 DEF Types
    <3>5. CdsHolds' = CdsHolds
      BY <3>1, <3>2 DEF CdsHolds
    <3>6. Opened'
      BY <1>0, <2>3, <3>5, SameHandles DEF IInv, libVars
    <3>7. Heard' /\ LedExplained'
      BY <1>0, <2>2, <2>3, <3>1, <3>2 DEF IInv, Heard, LedExplained, libVars
    <3> QED
      BY <3>4, <3>6, <3>7 DEF IInv
  <2>6. CASE CreateFails
    <3>1. Types'
      BY <1>0, <2>2, <2>3, <2>6 DEF Types, CreateFails, threadVars
    <3> QED
      BY <1>0, <2>2, <2>6, <3>1, SameThreads DEF CreateFails, threadVars
  <2> QED
    BY <2>1, <2>4, <2>5, <2>6
<1> QED
  BY <1>1, <1>2, <1>3, <1>4, <1>5, <1>6, <1>7 DEF MainStep, MainGoesOn

LEMMA LedInv == ASSUME BoundsAssumption, IInv, LedStep PROVE IInv'
<1>1. Types /\ Opened /\ Heard /\ LedExplained
      /\ UNCHANGED <<mainVars, cpc, cancel, cutShort>>
  BY DEF IInv, LedStep
<1>2. CdsHolds' = CdsHolds
  BY <1>1 DEF CdsHolds
<1>3. Cardinality(CdsHolds) \in Nat
  BY HoldsFinite
<1>4. Types' /\ Opened'
  <2>1. CASE LedOpen
    BY <1>1, <1>2, <1>3, <2>1 DEF LedOpen, Types, Opened, LedHolds, mainVars
  <2>2. CASE LedAct
    BY <1>1, <1>2, <1>3, <2>2 DEF LedAct, Types, Opened, LedHolds, mainVars
  <2>3. CASE LedBlink
    BY <1>1, <1>2, <1>3, <2>3 DEF LedBlink, Types, Opened, LedHolds, mainVars
  <2>4. CASE LedClose
    BY <1>1, <1>2, <1>3, <2>4 DEF LedClose, Types, Opened, LedHolds, mainVars
  <2> QED
    BY <2>1, <2>2, <2>3, <2>4 DEF LedStep
<1>5. Heard'
  BY <1>1 DEF Heard, mainVars
<1>6. LedExplained'
  BY <1>1 DEF LedExplained, mainVars, LedStep, LedOpen, LedAct, LedBlink, LedClose
<1> QED
  BY <1>4, <1>5, <1>6 DEF IInv

LEMMA GotoEffect ==
  ASSUME Types, NEW k \in Cds, NEW label \in CdsLabel \ {"none"}, Goto(k, label)
  PROVE  /\ cpc' \in [Cds -> CdsLabel]
         /\ cpc'[k] = label /\ \A j \in Cds : j # k => cpc'[j] = cpc[j]
         /\ \A j \in Cds : cpc[j] # "none" => cpc'[j] # "none"
BY DEF Types, Goto

LEMMA CdsInv == ASSUME BoundsAssumption, IInv, NEW k \in Cds, CdsStep(k) PROVE IInv'
<1>1. Types /\ Opened /\ Heard /\ LedExplained
      /\ UNCHANGED <<mainVars, lpc, cancel, told>>
  BY DEF IInv, CdsStep
<1>2. cpc[k] # "none"
  BY <1>1 DEF CdsStep, CdsOpen, CdsRead, CdsSense, CdsWake, CdsDark, CdsClose, CdsCancelled,
              Types
<1>3. PICK label \in CdsLabel \ {"none"} : Goto(k, label)
  BY DEF CdsStep, CdsOpen, CdsRead, CdsSense, CdsWake, CdsDark, CdsClose, CdsCancelled,
         Woken, CdsLabel
<1>4. /\ cpc' \in [Cds -> CdsLabel]
      /\ cpc'[k] = label /\ \A j \in Cds : j # k => cpc'[j] = cpc[j]
      /\ \A j \in Cds : cpc[j] # "none" => cpc'[j] # "none"
  BY <1>1, <1>3, GotoEffect
<1>5. led' \in {"low", "high"}
  BY <1>1 DEF CdsStep, CdsOpen, CdsRead, CdsSense, CdsWake, CdsDark, CdsClose, CdsCancelled,
              Types
<1>6. Types'
  BY <1>1, <1>4, <1>5 DEF Types, mainVars
<1>7. Opened'
  <2>1. CASE CdsOpen(k) /\ handles' = handles + 1 /\ Goto(k, "read")
    <3>1. k \notin CdsHolds /\ CdsHolds' = CdsHolds \cup {k}
      BY <1>1, <1>4, <2>1 DEF CdsOpen, CdsHolds, Goto, Types
    <3>2. Cardinality(CdsHolds') = Cardinality(CdsHolds) + 1
      BY <3>1, HoldsFinite, FS_AddElement
    <3> QED
      BY <1>1, <2>1, <3>2, HoldsFinite DEF Opened, LedHolds
  <2>2. CASE CdsClose(k)
    <3>1. k \in CdsHolds /\ CdsHolds' = CdsHolds \ {k}
      BY <1>1, <1>4, <2>2 DEF CdsClose, CdsHolds, Goto, Types
    <3>2. Cardinality(CdsHolds') = Cardinality(CdsHolds) - 1
      BY <3>1, HoldsFinite, FS_RemoveElement
    <3> QED
      BY <1>1, <2>2, <3>2, HoldsFinite DEF Opened, LedHolds, CdsClose
  <2>3. CASE \/ CdsOpen(k) /\ handles' = handles /\ Goto(k, "done")
             \/ CdsRead(k) \/ CdsSense(k) \/ CdsWake(k) \/ CdsDark(k) \/ CdsCancelled(k)
    <3>1. handles' = handles /\ (k \in CdsHolds <=> k \in CdsHolds')
      BY <1>1, <1>4, <2>3 DEF CdsOpen, CdsRead, CdsSense, CdsWake, CdsDark, CdsCancelled,
                              Woken, Goto, Types, CdsHolds
    <3>2. CdsHolds' = CdsHolds
      BY <1>4, <3>1 DEF CdsHolds
    <3> QED
      BY <1>1, <3>1, <3>2, SameHandles
  <2> QED
    BY <2>1, <2>2, <2>3 DEF CdsStep, CdsOpen
\* Only a thread that has found "ON" goes on to the sensor.
<1>8. Heard'
  <2>1. cpc'[k] \in {"sense", "lit", "unlit", "pause"} => asked
    BY <1>1, <1>4 DEF CdsStep, CdsOpen, CdsRead, CdsSense, CdsWake, CdsDark, CdsClose,
                      CdsCancelled, Woken, Goto, Wanted, Heard, Types
  <2> QED
    BY <1>1, <1>4, <2>1 DEF Heard, mainVars
<1>9. LedExplained'
  <2>1. CASE CdsOpen(k) \/ CdsRead(k) \/ CdsClose(k)
    <3>1. cpc[k] \notin {"lit", "unlit"} /\ UNCHANGED <<led, cutShort>>
      BY <2>1 DEF CdsOpen, CdsRead, CdsClose
    <3> QED
      BY <1>1, <1>4, <3>1 DEF LedExplained, mainVars
  <2>2. CASE CdsSense(k)
    <3>1. CASE led' = "high" /\ Goto(k, "lit")
      <4>1. asked' /\ cpc'[k] = "lit"
        BY <1>1, <1>4, <2>2, <3>1 DEF CdsSense, Heard, Goto, Types, mainVars
      <4> QED
        BY <4>1 DEF LedExplained
    <3>2. CASE led' = led
      BY <1>1, <1>4, <2>2, <3>2 DEF CdsSense, LedExplained, mainVars
    <3> QED
      BY <2>2, <3>1, <3>2 DEF CdsSense
  <2>3. CASE CdsWake(k)
    <3>1. UNCHANGED <<led, cutShort>> /\ (cpc[k] = "lit" => cpc'[k] = "unlit")
          /\ cpc[k] # "unlit"
      BY <1>1, <2>3 DEF CdsWake, Woken, Goto, Types
    <3> QED
      BY <1>1, <1>4, <3>1 DEF LedExplained, mainVars
  <2>4. CASE CdsDark(k)
    BY <2>4 DEF CdsDark, LedExplained
  <2>5. CASE CdsCancelled(k)
    <3>1. led' = led /\ cutShort' = (cutShort \/ cpc[k] = "lit") /\ cpc[k] # "unlit"
      BY <2>5 DEF CdsCancelled
    <3> QED
      BY <1>1, <1>4, <3>1 DEF LedExplained, mainVars
  <2> QED
    BY <2>1, <2>2, <2>3, <2>4, <2>5 DEF CdsStep
<1> QED
  BY <1>6, <1>7, <1>8, <1>9 DEF IInv

LEMMA NextInv == ASSUME BoundsAssumption PROVE IInv /\ [Next]_vars => IInv'
<1> SUFFICES ASSUME IInv, [Next]_vars PROVE IInv'
  OBVIOUS
<1>1. CASE MainStep
  BY <1>1, MainInv
<1>2. CASE LedStep
  BY <1>2, LedInv
<1>3. CASE \E k \in Cds : CdsStep(k)
  BY <1>3, CdsInv
<1>4. CASE UNCHANGED vars
  BY <1>4 DEF vars, mainVars, threadVars, libVars, IInv, Types, Opened, Heard, LedExplained,
              CdsHolds, LedHolds
<1> QED
  BY <1>1, <1>2, <1>3, <1>4 DEF Next

LEMMA Invariance == ASSUME BoundsAssumption PROVE Spec => []IInv
<1>1. Init => IInv
  BY InitInv
<1>2. IInv /\ [Next]_vars => IInv'
  BY NextInv
<1> QED
  BY <1>1, <1>2, PTL DEF Spec

------------------------------------------------------------------------------
\* The variables stay in their ranges, and what the library counts as opened is what LED
\* and sensor threads use, or were cancelled with.
THEOREM TypeCorrect == ASSUME BoundsAssumption PROVE Spec => []TypeOK
<1>1. IInv => TypeOK
  BY DEF IInv, Types, Opened, TypeOK
<1> QED
  BY <1>1, Invariance, PTL

\* When the LED is on, the last command said so, or it blinks, or a word that begins with
\* "ON" was typed and a sensor thread that read it is in its lit second or was cancelled in
\* one.
THEOREM LedForReason == ASSUME BoundsAssumption PROVE Spec => []LedExplained
<1>1. IInv => LedExplained
  BY DEF IInv
<1> QED
  BY <1>1, Invariance, PTL
==============================================================================
