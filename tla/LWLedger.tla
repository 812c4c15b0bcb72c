------------------------------ MODULE LWLedger ------------------------------
(***************************************************************************)
(* The transactions an SPV wallet may meet, and how LWWallet.c computes a  *)
(* balance from those it has registered (_LWWalletUpdateBalance): one pass *)
(* over the registered transactions in their order, each one found to be   *)
(* invalid, pending, or counted.                                           *)
(***************************************************************************)
EXTENDS Integers, FiniteSets, FiniteSetsExt, Sequences

CONSTANTS
  Tx,           \* the transactions, each one standing for its txHash
  Outputs,      \* [Tx -> Seq([addr : Address, amount : Nat])]
  Inputs,       \* [Tx -> the outpoints it spends], some of transactions not in Tx
  Delayed,      \* too big, with a dust output, replaceable, or locked until a time
  LockHeight,   \* [Tx -> Nat], lockTime, when it is a height and an input enables it
  Chains,       \* the two chains of addresses, internal and external
  Elsewhere,    \* an address of somebody else
  Unconfirmed   \* TX_UNCONFIRMED, above every height

Address == (Chains \X Nat) \cup {Elsewhere}

\* LWUTXO: output n of a transaction
Outpoint(t) == {[hash |-> t, n |-> n] : n \in DOMAIN Outputs[t]}

Parents(t) == {o.hash : o \in Inputs[t]}

ASSUME LedgerAssumption ==
  /\ Outputs \in [Tx -> Seq([addr : Address, amount : Nat])]
  /\ DOMAIN Inputs = Tx
  /\ \A t \in Tx : /\ \A o \in Inputs[t] : o.n \in Nat
                   /\ t \notin Parents(t)
  /\ Delayed \subseteq Tx
  /\ LockHeight \in [Tx -> Nat]
  /\ Elsewhere \notin Chains \X Nat
  /\ Unconfirmed \in Nat

AddressOf(o) == Outputs[o.hash][o.n].addr
Amount(S) == MapThenSumSet(LAMBDA o : Outputs[o.hash][o.n].amount, S)

\* the outputs of t that pay to one of the addresses of the wallet
Own(t, addrs) == {o \in Outpoint(t) : AddressOf(o) \in addrs}

\* _LWWalletContainsTx, all being wallet->allTx
ContainsTx(t, all, addrs) ==
  \/ Own(t, addrs) # {}
  \/ \E o \in Inputs[t] : o.hash \in all /\ o \in Own(o.hash, addrs)

-----------------------------------------------------------------------------
Cleared ==
  [utxos |-> {}, spentOutputs |-> {}, invalidTx |-> {}, pendingTx |-> {},
   usedAddrs |-> {}, balance |-> 0, balanceHist |-> <<>>,
   totalSent |-> 0, totalReceived |-> 0]

\* MUTANT: only the transactions the inputs are of are looked at
IsInvalidParent(w, t) == Parents(t) \cap w.invalidTx # {}

\* "check if any inputs are invalid or already spent"
IsInvalid(w, t) ==
  \/ Inputs[t] \cap w.spentOutputs # {}
  \/ Parents(t) \cap w.invalidTx # {}

\* "check if tx is pending", once its inputs are in spentOutputs
IsPending(w, t, blockHeight) ==
  \/ t \in Delayed
  \/ LockHeight[t] > blockHeight + 1
  \/ Parents(t) \cap w.pendingTx # {}

Skipped(w, set, t) ==
  [w EXCEPT ![set] = @ \cup {t}, !.balanceHist = Append(@, w.balance)]

Spend(w, t) == [w EXCEPT !.spentOutputs = @ \cup Inputs[t]]

\* MUTANT: only the new outputs are checked against the spent output set
AddOutputsInOrder(w, t, addrs) ==
  LET added == w.utxos \cup (Own(t, addrs) \ w.spentOutputs) IN
  [w EXCEPT !.usedAddrs = @ \cup {AddressOf(o) : o \in Outpoint(t)},
            !.utxos = added, !.balance = Amount(added), !.balanceHist = Append(@, Amount(added))]

\* MUTANT: only the inputs of this transaction are taken out
AddOutputsUnsorted(w, t, addrs) ==
  LET added == (w.utxos \cup Own(t, addrs)) \ Inputs[t] IN
  [w EXCEPT !.usedAddrs = @ \cup {AddressOf(o) : o \in Outpoint(t)},
            !.utxos = added, !.balance = Amount(added), !.balanceHist = Append(@, Amount(added))]

\* "add outputs to UTXO set", and "check the entire UTXO set against the entire
\* spent output set"
AddOutputs(w, t, addrs) ==
  LET added == w.utxos \cup Own(t, addrs)
      balance == w.balance + Amount(Own(t, addrs)) - Amount(added \cap w.spentOutputs) IN
  [w EXCEPT
     !.usedAddrs = @ \cup {AddressOf(o) : o \in Outpoint(t)},
     !.utxos = added \ w.spentOutputs,
     !.balance = balance,
     !.totalReceived = IF balance > w.balance THEN @ + (balance - w.balance) ELSE @,
     !.totalSent = IF balance < w.balance THEN @ + (w.balance - balance) ELSE @,
     !.balanceHist = Append(@, balance)]

\* MUTANT: it goes on with an invalid transaction
CountedAnyway(w, t, h, blockHeight, addrs) ==
  LET v == IF h = Unconfirmed /\ IsInvalid(w, t) THEN Skipped(w, "invalidTx", t) ELSE w
  IN  IF h = Unconfirmed /\ IsPending(v, t, blockHeight)
      THEN Skipped(Spend(v, t), "pendingTx", t)
      ELSE AddOutputs(Spend(v, t), t, addrs)

\* the body of the loop in _LWWalletUpdateBalance, for t at blockHeight h
Counted(w, t, h, blockHeight, addrs) ==
  IF h = Unconfirmed /\ IsInvalid(w, t) THEN Skipped(w, "invalidTx", t)
  ELSE IF h = Unconfirmed /\ IsPending(w, t, blockHeight)
       THEN Skipped(Spend(w, t), "pendingTx", t)
       ELSE AddOutputs(Spend(w, t), t, addrs)

-----------------------------------------------------------------------------
(* What w is to be once the first n of a list are counted.                   *)

FirstOf(list, n) == {list[k] : k \in 1 .. n}

\* "true if no previous wallet transaction spends any of the given transaction's
\* inputs, and no inputs are invalid" (LWWalletTransactionIsValid): exactly the
\* unconfirmed ones of which that is not true are in invalidTx.
InvalidOf(w, list, n, heights) ==
  \A k \in 1 .. n :
    list[k] \in w.invalidTx <=>
      /\ heights[list[k]] = Unconfirmed
      /\ \E j \in 1 .. k - 1 :
           \/ /\ list[j] \notin w.invalidTx
              /\ Inputs[list[j]] \cap Inputs[list[k]] # {}
           \/ list[j] \in w.invalidTx \cap Parents(list[k])

\* The outputs spent are those that the transactions that are not invalid spend.
SpentOf(w, list, n) ==
  w.spentOutputs = UNION {Inputs[t] : t \in FirstOf(list, n) \ w.invalidTx}

\* No output of the wallet gets lost, and none that is spent stays unless the
\* transaction that spends it is pending.
UnspentOf(w, list, n, addrs) ==
  LET own == UNION {Own(t, addrs) : t \in FirstOf(list, n) \ (w.invalidTx \cup w.pendingTx)} IN
  /\ w.utxos \subseteq own
  /\ own \ w.spentOutputs \subseteq w.utxos
  /\ \A o \in w.utxos \cap w.spentOutputs : \E t \in w.pendingTx : o \in Inputs[t]
=============================================================================
