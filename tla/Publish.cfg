\* A payment and one that spends its change, published while one peer connects, asks, relays and is lost.
CONSTANTS
  pay = pay child = child a = a x = x y = y
  Tx <- MCTx
  Peer <- MCPeer
  Call <- MCCall
  None = None
  Parents <- MCParents
  MaxConnectCount = 1
  Subject <- MCSubject
  Copies <- MCCopies
  Minable <- OnePayment
CHECK_DEADLOCK FALSE
SPECIFICATION SpecLive
INVARIANTS PublishInv PointersLive PendingWatched
PROPERTIES Answers
