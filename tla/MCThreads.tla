------------------------------ MODULE MCThreads ------------------------------
(***************************************************************************)
(* Model-checking instance of the programs that start threads for what     *)
(* clients or a user ask: ThreadServers and GpioMenu.  A behaviour is a    *)
(* run of one of them; the other is never started.  See MCThreads.cfg.     *)
(***************************************************************************)
EXTENDS ThreadServers

CONSTANTS MaxCds, MaxTyped  \* GpioMenu

VARIABLES
  family,  \* what runs: "servers" or "gpio"
  pc, menu, left, typed, buf, askedG, tid2, lpc, cpc, cancel, handles, ledG, told, cutShort

Gpio == INSTANCE GpioMenu WITH asked <- askedG, led <- ledG

ASSUME GpioAssumption == Gpio!BoundsAssumption

gpioV == <<pc, menu, left, typed, buf, askedG, tid2, lpc, cpc, cancel, handles, ledG, told,
           cutShort>>

ThreadsInit ==
  /\ family \in {"servers", "gpio"} /\ Init /\ Gpio!Init
  \* Programs that do not run have one initial state.
  /\ family # "servers" => program = "greeting" /\ \A l \in FdLimits : limit <= l
  /\ family # "gpio" => menu = "0"

ThreadsNext ==
  \/ family = "servers" /\ Next /\ UNCHANGED <<family, gpioV>>
  \/ family = "gpio" /\ Gpio!Next /\ UNCHANGED <<family, vars>>

\* What runs is scheduled, as the module of each says.
ThreadsSpec ==
  /\ ThreadsInit /\ [][ThreadsNext]_<<family, vars, gpioV>>
  /\ WF_vars(family = "servers" /\ MainStep)
  /\ \A t \in Thread : WF_vars(family = "servers" /\ ThreadStep(t))
  /\ WF_gpioV(family = "gpio" /\ Gpio!MainGoesOn)
  /\ WF_gpioV(family = "gpio" /\ Gpio!Running /\ Gpio!LedStep)
  /\ \A k \in Gpio!Cds : WF_gpioV(family = "gpio" /\ Gpio!Running /\ Gpio!CdsStep(k))

\* Every variable of every program stays in its range.
ThreadsTypeOK == TypeOK /\ Gpio!TypeOK

\* The LED is on only for a reason: a client, a command or a word that begins with "ON".
LedReason == LedAsked /\ Gpio!LedExplained

\* A sensor thread that is cancelled ends.
CancelEnds == Gpio!CancelEnds
==============================================================================
