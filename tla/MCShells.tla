------------------------------ MODULE MCShells ------------------------------
(***************************************************************************)
(* Model-checking instance of the two shells, MiniShell and PipeShell, and *)
(* of Families.  A behaviour is a session with one of the shells or a run  *)
(* of one family; the others stay where they start.  See MCShells.cfg.     *)
(***************************************************************************)
EXTENDS MiniShell

CONSTANTS PipeLines, MaxCtrlC,  \* PipeShell
          Kills, Room, Output   \* Families

VARIABLES shell,      \* what runs: "lab", "lab2" or "family"
          pc2, lines, child, writer, data2, sigchld2, ctrlC, struck,
          prog, code, pc3, life, parent, group, cause, struck3, chld, reaping, ends, data3,
          listed, kills

pipeVars == <<pc2, lines, child, writer, data2, sigchld2, ctrlC, struck>>
familyV == <<prog, code, pc3, life, parent, group, cause, struck3, chld, reaping, ends, data3,
             listed, kills>>

Lab2 == INSTANCE PipeShell
          WITH Lines <- PipeLines, pc <- pc2, data <- data2, sigchld <- sigchld2

Family == INSTANCE Families WITH pc <- pc3, struck <- struck3, data <- data3

ASSUME ShellsAssumption == Lab2!PipeAssumption /\ Family!FamilyAssumption

\* lab: each operator alone, combined with the others, misplaced, and with every
\* reason for a command not to run.
LabLines ==
  { <<"ok">>, <<"ok&">>, <<"exit">>, <<"cd", "|", "ok">>,
    <<"flood", "|", "sink">>, <<"flood", "|", "ok">>, <<"flood", ">", "f", "|", "sink">>,
    <<"ok", "|", "sink", "<", "f">>, <<"ok", "|", "sink", "&">>,
    <<"ok", ">", "f", ">", "f">>, <<"ok", ">">>, <<"sink", "<">>,
    <<">", "f">>, <<"ok", "|">>, <<"ok", "|", "cd", "|", "sink">>,
    <<"ok", "&&", "ok">>, <<"ok", "|", "fail", "&&", "ok">>,
    <<"ok", "&&", "cd", "&&", "ok">> }

\* lab2: single commands, pipes with a side missing, not executable, silent or flooding,
\* redirections, and both operators in a line.
Lab2Lines ==
  { <<>>, <<"cd">>, <<"&">>, <<"ok">>, <<"long">>, <<"long", "&">>,
    <<"ok", "|", "sink">>, <<"flood", "|", "sink">>, <<"flood", "|", "ok">>,
    <<"flood", "|", "no">>, <<"|", "sink">>, <<"flood", "|", "ok", "&">>,
    <<"ok", ">", "file">>, <<"flood", ">", "file", "|", "sink">> }

ShellsInit ==
  /\ shell \in {"lab", "lab2", "family"} /\ Init /\ Lab2!Init /\ Family!FamilyInit
  /\ shell # "family" => prog = "ch05_ex02"

ShellsNext ==
  \/ shell = "lab" /\ Next /\ UNCHANGED <<shell, pipeVars, familyV>>
  \/ shell = "lab2" /\ Lab2!Next /\ UNCHANGED <<shell, vars, familyV>>
  \/ shell = "family" /\ Family!FamilyNext /\ UNCHANGED <<shell, vars, pipeVars>>

ShellsSpec ==
  /\ ShellsInit /\ [][ShellsNext]_<<shell, vars, pipeVars, familyV>>
  /\ Fairness /\ Lab2!Fairness
  /\ WF_familyV(shell = "family" /\ Family!Runs)

\* Every variable of the shells and the families stays in its range.
ShellsTypeOK == TypeOK /\ Lab2!TypeOK /\ Family!FamilyTypeOK

\* At the prompt every foreground line is done, all its commands waited for.
ForegroundOver == ForegroundFinished /\ Lab2!ForegroundDone

\* lab, and the families: the dead do not stay zombies.
AllReaped == ZombiesReaped /\ Family!DeadReaped

\* The families: children do not outlive their parent, nor do signals leave their group.
OrphansExplained == Family!OrphansExplained

\* A line comes back to the prompt, with the exceptions either module names.
PromptComesBack == PromptReturns /\ Lab2!PromptReturns

\* lab2: Ctrl+C frees the prompt from whatever the line runs, and the writer of a pipe
\* ends once its reader has.  The processes of the families end.
NobodyStuck ==
  /\ Lab2!CtrlCFreesPrompt /\ Lab2!WriterEnds
  /\ []<>(shell = "family" => Family!FamilyEnded)
==============================================================================
