\* Two peer threads: every order of relayed blocks over a fork, and filter updates.
CONSTANTS
  g = g a1 = a1 a2 = a2 a3 = a3 a4 = a4 a5 = a5 a6 = a6 a7 = a7 a8 = a8 a9 = a9
  b4 = b4 b5 = b5 b6 = b6 c2 = c2 c3 = c3
  t1 = t1 t2 = t2 t3 = t3
  Block <- LongTree
  Genesis = g
  Parent <- MCParent
  Height <- MCHeight
  Interval = 3
  Checkpoint = {g}
  Start = g
  Old = {}
  Tx <- MCTx
  TxIn <- MCTxIn
  Unconfirmed = 99
  Peer = {p1, p2}
  ReportedHeight = {9}
  RelayDepth = 2
  NoPeer = NoPeer
  NoBlock = NoBlock
CHECK_DEADLOCK FALSE
SPECIFICATION Spec
INVARIANTS IInv
PROPERTIES NoNullBlock FollowsBestChain
