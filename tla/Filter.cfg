\* Addresses used up one by one, with as few as possible in a filter.
CONSTANTS
  first = first second = second third = third fourth = fourth sweep = sweep
  Tx <- MCTx
  Pays <- MCPays
  Spends <- MCSpends
  Chain <- MCChain
  Unmined = {sweep}
  Gap = 1 Spare = 1 Recent = 1 MaxInv = 2 Far = 1 Week = 0
  KeepsAnnounced = TRUE
  DegradedAtEnd = {TRUE, FALSE}
  None = None
  FirstMined = 3
  MaxLosses = 1
  MaxRebuilds = 1
CHECK_DEADLOCK FALSE
SPECIFICATION SpecLive
INVARIANTS FilterInv PaymentsKept
PROPERTIES SyncCompletes
