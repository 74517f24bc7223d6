------------------------------ MODULE MCMessages ------------------------------
(***************************************************************************)
(* Model-checking instance of MsgServer and ChatPair.  A behaviour is a run*)
(* of the log server or of one chat pair.  See MCMessages.cfg.             *)
(***************************************************************************)
EXTENDS MsgServer

CONSTANTS MaxLines, Window  \* ChatPair

VARIABLES
  program,  \* what runs: "log" or "pair"
  api, kind, pc, typed, stdin, ahead, feof, buffer, wire, said, shown, reset

pairVars == <<api, kind, pc, typed, stdin, ahead, feof, buffer, wire, said, shown, reset>>

Pair == INSTANCE ChatPair

ASSUME PairAssumption == Pair!BoundsAssumption

MessagesInit ==
  /\ program \in {"log", "pair"} /\ Init /\ Pair!Init
  \* A pair that does not run has one initial state.
  /\ program # "pair" => /\ api = "select"
                         /\ \A e \in Pair!Side : kind[e] = "pipe" /\ buffer[e] = "empty"

MessagesNext ==
  \/ program = "log" /\ Next /\ UNCHANGED <<program, pairVars>>
  \/ program = "pair" /\ Pair!Next /\ UNCHANGED <<program, vars>>

\* What runs is scheduled, as the module of each says.
MessagesSpec ==
  /\ MessagesInit /\ [][MessagesNext]_<<program, vars, pairVars>>
  /\ WF_vars(program = "log" /\ MainProgress)
  /\ SF_vars(program = "log" /\ EnqueueLock)
  /\ WF_vars(program = "log" /\ CollectorDoes(CollectorProgress))
  /\ SF_vars(program = "log" /\ CollectorDoes(CollectLock \/ CollectRelock))
  /\ WF_pairVars(program = "pair" /\ Pair!Listen)
  /\ WF_pairVars(program = "pair" /\ Pair!ConnectTo)
  /\ WF_pairVars(program = "pair" /\ Pair!Accept)
  /\ \A e \in Pair!Side : /\ WF_pairVars(program = "pair" /\ Pair!Chatting(e))
                          /\ WF_pairVars(program = "pair" /\ Pair!ResetArrives(e))

\* The log server: whatever arrives is received, and whatever is accepted is logged.
ArrivalsLogged == AcceptedIsLogged /\ SocketsDrained

\* Every variable of the chat pairs stays in its range.
PairTypeOK == Pair!TypeOK

\* The chat pairs: a side says what was typed on it, and the other shows what it said.
SaidWasTyped == Pair!SaidWasTyped

\* The chat pairs: nothing said before the end is lost.
CutLosesNothing == Pair!CutLosesNothing

\* The chat pairs: when one side has gone the other goes too.
BothLeave == Pair!BothLeave
==============================================================================
