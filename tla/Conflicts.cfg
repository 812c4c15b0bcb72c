\* Double spends registered, confirmed, reorganized away and removed in every order;
\* or a replaceable payment and its child.
CONSTANTS
  rcv = rcv spend = spend again = again child = child other = other
  alien = alien bump = bump late = late coin = coin
  Tx <- Either
  Outputs <- MCOutputs
  Inputs <- MCInputs
  Delayed = {bump}
  LockHeight <- NoLocks
  Internal = Internal External = External
  Chains <- MCChains
  Elsewhere = Elsewhere
  Unconfirmed = 99
  GapLimit <- MCGapLimit
  FilterGap = 1
  MaxHeight = 2
SPECIFICATION SpecApart
INVARIANTS WellFormed ConflictsResolved UtxosExact ReloadsBalance PendingExact
PROPERTIES RemovedWithDependents 
