\* The payment protocol, merkle blocks, coins and fees, transactions and their
\* signatures, addresses and phrases, the loop that counts the balance, and the hash table.
CONSTANTS
  None = None
  Keys <- MCKeys
  Transactions <- MCTransactions
  EnumSize = 8
  MaxHops = 3
  Wires <- MCWires
  Makes <- MCMakes
  Changes <- MCChanges
  MaxTx = 7
  Wrong <- MCWrong
  Base = 2
  WorkLen = 6
  MaxSize = 4
  MaxTarget = 2
  Drift = 1
  TX_MAX_SIZE = 450
  UtxoAmounts = {30000, 61370}
  MaxUtxos = 3
  Asked <- MCAsked
  FeeFilters <- MCFilters
  MaxFees = 1
  Order <- MCOrder
  HMAC <- MCHMAC
  BIP32_HARD = 100
  TxIns <- MCTxIns
  TxOuts <- MCTxOuts
  Wallets <- MCWallets
  ForkIds = {0, 64}
  ScriptSig <- MCScriptSig
  MaxSends = 3
  SHA256 <- MCSum
  SHA256_2 <- MCSum
  Prefix <- MCPrefix
  Programs <- MCPrograms
  Payloads <- MCPayloads
  Entropies <- MCEntropies
  Typos <- MCTypos
  rcv = rcv spend = spend again = again child = child coin = coin
  Tx <- MCTx
  Outputs <- MCOutputs
  Inputs <- MCInputs
  Delayed = {spend}
  LockHeight <- MCLocks
  Internal = Internal External = External
  Chains <- MCChains
  Elsewhere = Elsewhere
  Unconfirmed = 99
  Item <- MCItem
  Key <- MCKey
  Hash <- MCHash
  NULL = NULL
  Sizes <- MCSizes
  Capacities = {0, 3}
  MaxCount = 5
SPECIFICATION DataSpec
CHECK_DEADLOCK FALSE
INVARIANTS  SignedAndSealed
  
INVARIANTS FeeExact AsAsked MaxSendable
INVARIANTS SpendsAsMade ReadBack
INVARIANTS LoopInv
INVARIANTS Intersected ProbesEnd
 
