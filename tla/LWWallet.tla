------------------------------ MODULE LWWallet ------------------------------
(***************************************************************************)
(* The wallet of LWWallet.c: the transactions it has registered, in order, *)
(* the balance computed from them, and its two chains of addresses.  Each  *)
(* call runs under wallet->lock; LWWalletRemoveTransaction calls itself    *)
(* with the lock released, so that other calls come in between.            *)
(*                                                                         *)
(* The peer manager calls it as transactions and blocks arrive.  mined is  *)
(* the best chain of the network as the manager has told it to the wallet. *)
(***************************************************************************)
EXTENDS LWLedger, Functions, SequencesExt

CONSTANTS
  Internal, External,  \* SEQUENCE_INTERNAL_CHAIN, SEQUENCE_EXTERNAL_CHAIN
  GapLimit,            \* [Chains -> Nat], SEQUENCE_GAP_LIMIT_...
  FilterGap,           \* how many more addresses a bloom filter gets, 100
  MaxHeight            \* bound on the best chain

ASSUME WalletAssumption ==
  /\ Chains = {Internal, External} /\ Internal # External
  /\ GapLimit \in [Chains -> Nat \ {0}]
  /\ FilterGap \in Nat /\ MaxHeight \in Nat /\ MaxHeight < Unconfirmed

VARIABLES
  transactions,  \* wallet->transactions
  allTx,         \* wallet->allTx, with unconfirmed transactions of others
  height,        \* tx->blockHeight, of those in allTx
  blockHeight,   \* wallet->blockHeight
  ledger,        \* what _LWWalletUpdateBalance last computed
  generated,     \* the lengths of internalChain and externalChain
  removing,      \* the call stack of LWWalletRemoveTransaction, innermost first
  mined          \* the transactions of each block of the best chain, in order

vars == <<transactions, allTx, height, blockHeight, ledger, generated, removing, mined>>

Listed == ToSet(transactions)

WalletTypeOK ==
  /\ transactions \in Seq(Tx) /\ IsInjective(transactions)
  /\ allTx \in SUBSET Tx /\ Listed \subseteq allTx
  /\ height \in [Tx -> (1 .. MaxHeight) \cup {Unconfirmed}]
  /\ blockHeight \in Nat
  /\ ledger.invalidTx \cup ledger.pendingTx \subseteq Listed
  /\ ledger.balance = Amount(ledger.utxos)
  /\ Len(ledger.balanceHist) = Len(transactions)
  /\ generated \in [Chains -> Nat]
  /\ removing \in Seq(Tx)
  /\ mined \in Seq(Seq(Tx))

-----------------------------------------------------------------------------
(* The addresses.                                                            *)

\* the addresses of chains of these lengths: wallet->allAddrs
AllAddrs(lengths) == UNION {{c} \X (0 .. lengths[c] - 1) : c \in Chains}

\* what follows the last used address of the first n of a chain
FirstUnused(c, n, used) == Max({i + 1 : i \in {k \in 0 .. n - 1 : <<c, k>> \in used}} \cup {0})

\* LWWalletUnusedAddrs: how long it makes the chain c of n addresses
UnusedAddrs(c, n, used, gapLimit) ==
  LET indexes == {a[2] : a \in {x \in used \ {Elsewhere} : x[1] = c}}
      top == n + gapLimit + Max(indexes \cup {0}) + 1
  IN  Min({k \in n .. top : FirstUnused(c, k, used) + gapLimit <= k})

\* MUTANT: one address less
WithGapShort(lengths, used) ==
  [c \in Chains |-> UnusedAddrs(c, lengths[c], used, GapLimit[c] - 1)]

\* for both chains, with the gap limits
WithGap(lengths, used) ==
  [c \in Chains |-> UnusedAddrs(c, lengths[c], used, GapLimit[c])]

-----------------------------------------------------------------------------
(* The order of wallet->transactions.                                        *)

\* _txChainIndex, -1 standing for SIZE_MAX
ChainIndex(t, c, lengths) ==
  Max({AddressOf(o)[2] : o \in Own(t, {c} \X (0 .. lengths[c] - 1))} \cup {-1})

\* _LWWalletTxIsAscending: t is above u, or one of its inputs leads back to u
\* or to one above it
TxIsAscending(t, u, all, heights) ==
  LET leads[a \in Tx] ==
        \/ u \in Parents(a)
        \/ /\ a \notin Parents(u)
           /\ \E p \in Parents(a) \cap all :
                heights[p] > heights[u] \/ (heights[p] = heights[u] /\ leads[p])
  IN  heights[t] > heights[u] \/ (heights[t] = heights[u] /\ leads[t])

\* _LWWalletTxCompare(t, u) > 0
ComesAfter(t, u, all, heights, lengths) ==
  \/ TxIsAscending(t, u, all, heights)
  \/ /\ ~ TxIsAscending(u, t, all, heights)
     /\ LET c == IF ChainIndex(t, Internal, lengths) >= 0 THEN Internal ELSE External
        IN  /\ ChainIndex(u, c, lengths) >= 0
            /\ ChainIndex(t, c, lengths) > ChainIndex(u, c, lengths)

\* _LWWalletInsertTx: t goes after the last one that does not come after it
InsertTx(list, t, all, heights, lengths) ==
  LET before == {i \in DOMAIN list : ~ ComesAfter(list[i], t, all, heights, lengths)}
  IN  InsertAt(list, Max(before \cup {0}) + 1, t)

\* _LWWalletUpdateBalance
UpdateBalance(list, heights, tip, lengths) ==
  LET upTo[k \in 0 .. Len(list)] ==
        IF k = 0 THEN Cleared
        ELSE Counted(upTo[k - 1], list[k], heights[list[k]], tip, AllAddrs(lengths))
  IN  upTo[Len(list)]

-----------------------------------------------------------------------------
(* LWWalletRegisterTransaction.  A transaction already in allTx changes      *)
(* nothing.                                                                  *)

RegisterTransaction(t) ==
  LET list == InsertTx(transactions, t, allTx \cup {t}, height, generated) IN
  /\ t \notin allTx
  /\ allTx' = allTx \cup {t}
  /\ IF ContainsTx(t, allTx, AllAddrs(generated))
     THEN /\ transactions' = list
          /\ ledger' = UpdateBalance(list, height, blockHeight, generated)
          /\ generated' = WithGap(generated, ledger'.usedAddrs)
     ELSE UNCHANGED <<transactions, ledger, generated>>
  /\ UNCHANGED <<height, blockHeight, removing, mined>>

-----------------------------------------------------------------------------
(* LWWalletUpdateTransactions and LWWalletSetTxUnconfirmedAfter.             *)

\* a transaction that is freed and comes again is an object of its own
Freed(heights, t) == [heights EXCEPT ![t] = Unconfirmed]

\* MUTANT: an invalid one only
OutOfDateInvalid(t) == t \in ledger.invalidTx

\* nothing is computed again for a transaction that counted already
OutOfDate(t) == t \in ledger.pendingTx \cup ledger.invalidTx

\* MUTANT: the transaction keeps its place
UpdateTxInPlace(w, t, h) ==
  IF t \notin w.allTx THEN w
  ELSE [w EXCEPT !.height = [@ EXCEPT ![t] = h],
                 !.needsUpdate = @ \/ OutOfDate(t)]

\* one hash of the list; of a confirmed transaction told again the timestamp is
\* the same too, of an unconfirmed one it is new
UpdateTx(w, t, h) ==
  LET heights == [w.height EXCEPT ![t] = h] IN
  IF t \notin w.allTx \/ (w.height[t] = h /\ h # Unconfirmed) THEN w
  ELSE IF ContainsTx(t, w.allTx, AllAddrs(generated))
       THEN [w EXCEPT
               !.height = heights,
               !.transactions = IF Contains(@, t)
                                THEN InsertTx(RemoveFirst(@, t), t, w.allTx, heights, generated)
                                ELSE @,
               !.needsUpdate = @ \/ OutOfDate(t)]
       ELSE IF h # Unconfirmed THEN [w EXCEPT !.allTx = @ \ {t}, !.height = Freed(@, t)] ELSE w

UpdateTransactions(hashes, h) ==
  LET tip == IF h > blockHeight THEN h ELSE blockHeight
      upTo[k \in 0 .. Len(hashes)] ==
        IF k = 0 THEN [transactions |-> transactions, allTx |-> allTx, height |-> height,
                       needsUpdate |-> FALSE]
        ELSE UpdateTx(upTo[k - 1], hashes[k], h)
      w == upTo[Len(hashes)] IN
  /\ transactions' = w.transactions
  /\ allTx' = w.allTx
  /\ height' = w.height
  /\ blockHeight' = tip
  /\ ledger' = IF w.needsUpdate
               THEN UpdateBalance(w.transactions, w.height, tip, generated) ELSE ledger
  /\ UNCHANGED <<generated, removing>>

\* the transactions at the end of the list that are above h
Above(h) ==
  {transactions[i] : i \in {k \in DOMAIN transactions :
                              \A j \in k .. Len(transactions) : height[transactions[j]] > h}}

SetTxUnconfirmedAfter(h) ==
  LET heights == [t \in Tx |-> IF t \in Above(h) THEN Unconfirmed ELSE height[t]] IN
  /\ height' = heights
  /\ blockHeight' = h
  /\ ledger' = IF Above(h) = {} THEN ledger
               ELSE UpdateBalance(transactions, heights, h, generated)
  /\ UNCHANGED <<transactions, allTx, generated, removing>>

-----------------------------------------------------------------------------
(* LWWalletRemoveTransaction.  The lock is held in each of its three steps   *)
(* and released between them.                                                *)

\* the manager does so when no peer knows of t any more
RemoveTransaction(t) ==
  /\ removing = <<>>
  /\ t \in Listed
  /\ height[t] = Unconfirmed
  /\ removing' = <<t>>
  /\ UNCHANGED <<transactions, allTx, height, blockHeight, ledger, generated, mined>>

\* those of the list after the first n that spend from t, in their order
SpendersAfter(n, t) ==
  LET upTo[k \in 0 .. Len(transactions)] ==
        IF k = 0 THEN <<>>
        ELSE IF k > n /\ transactions[k] # t /\ t \in Parents(transactions[k])
             THEN Append(upTo[k - 1], transactions[k]) ELSE upTo[k - 1]
  IN  upTo[Len(transactions)]

\* MUTANT: a transaction at the same height is not looked at
DependentsAbove(t) ==
  SpendersAfter(Max({i \in DOMAIN transactions : height[transactions[i]] <= height[t]} \cup {0}), t)

\* "find dependent transactions", from the end of the list down to the first
\* one that is below t
Dependents(t) ==
  SpendersAfter(Max({i \in DOMAIN transactions : height[transactions[i]] < height[t]} \cup {0}), t)

\* it was removed by somebody else
RemoveNothing ==
  /\ removing # <<>>
  /\ Head(removing) \notin allTx
  /\ removing' = Tail(removing)
  /\ UNCHANGED <<transactions, allTx, height, blockHeight, ledger, generated, mined>>

RemoveDependents ==
  /\ removing # <<>>
  /\ Head(removing) \in allTx
  /\ Dependents(Head(removing)) # <<>>
  /\ removing' = Dependents(Head(removing)) \o removing
  /\ UNCHANGED <<transactions, allTx, height, blockHeight, ledger, generated, mined>>

RemoveOne ==
  LET t == Head(removing) IN
  /\ removing # <<>>
  /\ t \in allTx
  /\ Dependents(t) = <<>>
  /\ removing' = Tail(removing)
  /\ allTx' = allTx \ {t}
  /\ transactions' = RemoveFirst(transactions, t)
  /\ height' = Freed(height, t)
  /\ ledger' = UpdateBalance(transactions', height, blockHeight, generated)
  /\ UNCHANGED <<blockHeight, generated, mined>>

-----------------------------------------------------------------------------
(* Addresses asked for, and the wallet loaded from the application's store.  *)

\* LWWalletReceiveAddress
ReceiveAddress ==
  /\ generated' = [generated EXCEPT ![External] =
                     UnusedAddrs(External, @, ledger.usedAddrs, 1)]
  /\ UNCHANGED <<transactions, allTx, height, blockHeight, ledger, removing, mined>>

\* _LWPeerManagerLoadBloomFilter
FilterAddrs ==
  /\ generated' = [c \in Chains |->
                     UnusedAddrs(c, generated[c], ledger.usedAddrs, GapLimit[c] + FilterGap)]
  /\ UNCHANGED <<transactions, allTx, height, blockHeight, ledger, removing, mined>>

NoAddrs == [c \in Chains |-> 0]

UsedBy(S) == UNION {{AddressOf(o) : o \in Outpoint(t)} : t \in S}

\* LWWalletNew: the list and the lengths of the chains it starts with
Inserted(order) ==
  LET upTo[k \in 0 .. Len(order)] ==
        IF k = 0 THEN <<>>
        ELSE InsertTx(upTo[k - 1], order[k], FirstOf(order, k), height, NoAddrs)
  IN  upTo[Len(order)]

Reloaded(S) == WithGap(NoAddrs, UsedBy(S))

\* The store has what txAdded, txUpdated and txDeleted told, in any order.  Not
\* followed: LWWalletNew gives no wallet when the first one is not its own.
Restart ==
  \E order \in SetToSeqs(Listed) :
    /\ order # <<>> => ContainsTx(order[1], Listed, AllAddrs(Reloaded(Listed)))
    /\ transactions' = Inserted(order)
    /\ allTx' = Listed
    /\ height' = [t \in Tx |-> IF t \in Listed THEN height[t] ELSE Unconfirmed]
    /\ blockHeight' = 0
    /\ generated' = Reloaded(Listed)
    /\ ledger' = UpdateBalance(transactions', height', 0, generated')
    /\ removing' = <<>>
    /\ UNCHANGED mined

-----------------------------------------------------------------------------
(* What the peer manager tells the wallet of the best chain, with            *)
(* manager->lock held, as it is while the manager removes a transaction.  No *)
(* transaction of a chain conflicts with another or comes before one that it *)
(* spends.                                                                   *)

MinedUpTo(h) == UNION {ToSet(mined[g]) : g \in 1 .. h}
Mined == MinedUpTo(Len(mined))

\* at most two of them in a block
Batches == {<<>>} \cup {<<t>> : t \in Tx} \cup {s \in Tx \X Tx : s[1] # s[2]}

Fits(batch) ==
  \A i \in DOMAIN batch :
    LET before == Mined \cup FirstOf(batch, i - 1) IN
    /\ \A u \in before : u # batch[i] /\ Inputs[u] \cap Inputs[batch[i]] = {}
    /\ Parents(batch[i]) \cap Tx \subseteq before

\* the peer relayed the transactions of a merkleblock before the block was
\* handed on; those of others may have been dropped
Relayed(batch) ==
  \A t \in ToSet(batch) : t \in allTx \/ ~ ContainsTx(t, allTx, AllAddrs(generated))

\* the block after the tip, with the transactions it matches
BlockMined ==
  /\ removing = <<>>
  /\ Len(mined) < MaxHeight
  /\ \E batch \in Batches :
       /\ Fits(batch)
       /\ Relayed(batch)
       /\ mined' = Append(mined, batch)
       /\ UpdateTransactions(batch, Len(mined) + 1)

\* a block relayed again, as in a rescan
BlockAgain ==
  /\ removing = <<>>
  /\ \E h \in DOMAIN mined : UpdateTransactions(mined[h], h)
  /\ UNCHANGED mined

\* the blocks of the new branch follow one by one
Reorganized ==
  /\ removing = <<>>
  /\ \E h \in 0 .. Len(mined) - 1 :
       /\ mined' = SubSeq(mined, 1, h)
       /\ SetTxUnconfirmedAfter(h)

\* enough peers relayed an unconfirmed transaction, or one rejected it
Verified ==
  /\ removing = <<>>
  /\ \E t \in allTx : height[t] = Unconfirmed /\ UpdateTransactions(<<t>>, Unconfirmed)
  /\ UNCHANGED mined

-----------------------------------------------------------------------------
Init ==
  /\ transactions = <<>>
  /\ allTx = {}
  /\ height = [t \in Tx |-> Unconfirmed]
  /\ blockHeight = 0
  /\ ledger = Cleared
  /\ generated = Reloaded({})
  /\ removing = <<>>
  /\ mined = <<>>

Next ==
  \/ \E t \in Tx : RegisterTransaction(t) \/ RemoveTransaction(t)
  \/ RemoveNothing \/ RemoveDependents \/ RemoveOne
  \/ BlockMined \/ BlockAgain \/ Reorganized \/ Verified
  \/ ReceiveAddress \/ FilterAddrs
  \/ Restart

Spec == Init /\ [][Next]_vars

-----------------------------------------------------------------------------
(* Properties.                                                               *)

\* The list is sorted by height: the loops that look for what is unconfirmed,
\* for what a reorganisation takes back and for dependent transactions start at
\* its end and stop at the first transaction that is too low.
HeightSorted ==
  \A i, j \in DOMAIN transactions :
    i < j => height[transactions[i]] <= height[transactions[j]]

\* Of two registered transactions that spend the same output one is invalid,
\* through confirmations, reorganisations and removals of either.
OneSpender ==
  \A t, u \in Listed :
    (t # u /\ Inputs[t] \cap Inputs[u] # {}) => {t, u} \cap ledger.invalidTx # {}

\* No transaction is taken for invalid without a reason that still stands: it is
\* unconfirmed, and a registered one spends the same output or an input is
\* invalid.
InvalidForCause ==
  \A t \in ledger.invalidTx : height[t] = Unconfirmed /\
    \/ \E u \in Listed \ ledger.invalidTx : u # t /\ Inputs[t] \cap Inputs[u] # {}
    \/ Parents(t) \cap ledger.invalidTx # {}

\* The list, the heights and what was computed from them have their types, and the list stays
\* sorted, whichever transactions are registered, confirmed, taken back and removed.
WellFormed == WalletTypeOK /\ HeightSorted

\* A double spend leaves one of the two and takes no innocent one with it (the first comment in the
\* loop of _LWWalletUpdateBalance).
ConflictsResolved == OneSpender /\ InvalidForCause

\* The unspent outputs are those of the transactions that count which no
\* registered transaction but an invalid one spends, whatever the order in
\* which they were registered and confirmed, as long as none is pending.
UtxosExact ==
  ledger.pendingTx = {} => ledger.utxos =
    (UNION {Own(t, AllAddrs(generated)) : t \in Listed \ (ledger.invalidTx \cup ledger.pendingTx)})
    \ (UNION {Inputs[t] : t \in Listed \ ledger.invalidTx})

\* What the wallet knows of, and what is mined, pays to nobody else but to
\* addresses that the wallet has, and still has after a restart.
PaysNear(t, lengths) ==
  \A o \in Outpoint(t) : AddressOf(o) \in AllAddrs(lengths) \cup {Elsewhere}

NearStep == \A t \in allTx' \cup Mined' : PaysNear(t, generated) /\ PaysNear(t, generated')

\* A restart takes no address from the wallet that is paid to, although LWWalletNew
\* generates the addresses anew from those that stored transactions use: Next does not
\* demand of the network that it keeps to the gap limits.  The theorems take it as a premise.
PaymentsNear == [][NearStep]_vars

\* A transaction that can still be replaced, or that spends from one, is pending
\* for as long as it is unconfirmed and no longer, and gives nothing to spend.
PendingExact ==
  /\ ledger.pendingTx =
       {t \in Listed \ ledger.invalidTx :
          height[t] = Unconfirmed /\ (t \in Delayed \/ Parents(t) \cap ledger.pendingTx # {})}
  /\ \A o \in ledger.utxos : o.hash \in Listed \ (ledger.pendingTx \cup ledger.invalidTx)

\* The application can stop at any time and gets the same balance from the
\* transactions it stored, in whatever order it stored them, unless two of them
\* spend the same output or one is pending.
ReloadsBalance ==
  ledger.pendingTx = {} /\ (\A t, u \in Listed : t # u => Inputs[t] \cap Inputs[u] = {}) =>
    \A order \in SetToSeqs(Listed) :
      ledger.balance = UpdateBalance(Inserted(order), height, 0, Reloaded(Listed)).balance

\* No transaction goes while one that spends its outputs stays in the list.
RemovedWithDependents ==
  [][\A t \in Listed \ ToSet(transactions') : \A u \in ToSet(transactions') : t \notin Parents(u)]_vars

\* No output is listed as unspent when a transaction that is not invalid spends it.
UtxosUnspent ==
  \A t \in Listed \ ledger.invalidTx : Inputs[t] \cap ledger.utxos = {}

\* Every transaction known that pays to the wallet or spends from it is in the list.
WalletTxListed ==
  \A t \in allTx : ContainsTx(t, allTx, AllAddrs(generated)) => t \in Listed

\* What is locked until a height that is not reached cannot be spent from.
LockedIsPending ==
  \A t \in Listed \ ledger.invalidTx :
    (height[t] = Unconfirmed /\ LockHeight[t] > MaxHeight + 1) => t \in ledger.pendingTx
=============================================================================
