\* A transaction that no peer has any more is removed, and is in the list of published ones.
CONSTANTS
  pay = pay child = child a = a x = x y = y
  Tx <- MCTx
  Peer <- MCPeer
  Call <- MCCall
  None = None
  Parents <- MCParents
  MaxConnectCount = 1
  Subject <- MCSubject
  Copies <- MCCopies
  Minable <- OnePayment
CHECK_DEADLOCK FALSE
SPECIFICATION Spec
INVARIANTS PublishedLive
