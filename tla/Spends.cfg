\* The tip, announced in between, spends what a later block pays to the wallet.
CONSTANTS
  first = first second = second third = third fourth = fourth sweep = sweep
  Tx <- MCTx
  Pays <- MCPays
  Spends <- MCSpends
  Chain <- MCTipChain
  Unmined = {}
  Gap = 1 Spare = 3 Recent = 1 MaxInv = 2 Far = 1 Week = 0
  KeepsAnnounced = TRUE
  DegradedAtEnd = {FALSE}
  None = None
  FirstMined = 5
  MaxLosses = 0
  MaxRebuilds = 1
CHECK_DEADLOCK FALSE
SPECIFICATION Spec
INVARIANTS SpendsKept
