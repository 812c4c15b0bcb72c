\* One connection, any message at any time.
CONSTANTS
  own = own their = their full = full half = half
  Tx <- MCTx
  Block <- MCBlock
  Matched <- MCMatched
  Published = {own}
  MaxGetdataHashes = 2
  None = None
  MaxAsked = 2
  MaxEvents = 3
  MaxInv = 1
CHECK_DEADLOCK FALSE
SPECIFICATION SpecLive
INVARIANTS PeerInv BlockComplete
PROPERTIES CallsBack WaitsEnd
