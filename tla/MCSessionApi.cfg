SPECIFICATION Spec
CONSTANTS
  None = None
  Byte = 4
  RamBase = 16
  RamSize = 4
  Clients = {"c1", "c2"}
  Sessions = {"s1"}
  PrincipalOf <- MCPrincipalOf
  First <- MCFirst
  Invitations <- MCInvitations
  Requests <- MCRequests
  MaxLate = 1
  MaxBacklog = 2
  MaxOrphans = 1
INVARIANTS
  ReadBack
  LogTellsPress
  NoSayNoEffect
CHECK_DEADLOCK FALSE
