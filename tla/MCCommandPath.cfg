SPECIFICATION FairPathSpec
CONSTANTS
  Urgent = {h1}
  Routine = {l1, l2}
  NoCmd = NoCmd
  Cmds <- MCCmds
  Priority <- MCPriority
  Levels = 2
  Cap = 1
  Buffer = 1
  Large = {l1}
INVARIANTS
  DueNotOvertaken
  ArrivalOrder
  AnswersShift
  PerformedOnceInOrder
PROPERTIES
  EveryCallAnswered
  WrittenIsPerformed
CHECK_DEADLOCK FALSE
