SPECIFICATION PathSpec
CONSTANTS
  Urgent = {h1}
  Routine = {l1}
  NoCmd = NoCmd
  Cmds <- MCCmds
  Priority <- MCPriority
  Levels = 2
  Cap = 1
  Buffer = 1
  Large = {l1}
INVARIANTS
  AnswerMatchesCommand
CHECK_DEADLOCK FALSE
