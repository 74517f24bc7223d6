\* Two lines in each shell, so that a background line overlaps the next one.  Families: one
\* child killed; an "ls" whose third write waits for the room of the second.
CONSTANTS
  Lines <- LabLines
  PipeLines <- Lab2Lines
  MaxLines = 2
  MaxProcs = 6
  PipeSize = 1
  FloodSize = 2
  MaxCtrlC = 1
  Kills = 1
  Room = 1
  Output = 3
SPECIFICATION ShellsSpec
INVARIANTS ShellsTypeOK DescriptorsAccounted ForegroundOver OrphansExplained
PROPERTIES AllReaped PromptComesBack NobodyStuck
\* A shell ends with "exit", crashes, or waits for ever for a user who types nothing.
CHECK_DEADLOCK FALSE
