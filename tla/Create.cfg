CONSTANTS
  TX_MAX_SIZE = 300
  UtxoAmounts = {30007}
  MaxUtxos = 2
  Asked <- MCAsked
  FeeFilters <- MCFilters
  MaxFees = 0
SPECIFICATION CoinSpec
CHECK_DEADLOCK FALSE
PROPERTIES CallReturns
