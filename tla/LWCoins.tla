------------------------------ MODULE LWCoins ------------------------------
(* LWWalletCreateTxForOutputs: which of the wallet's outputs a transaction *)
(* spends, the fee and the change. It reads the minimum amount under a     *)
(* lock of its own, chooses under a second one, and when the transaction   *)
(* gets too large calls itself for less, with the lock released; other     *)
(* threads change the wallet and the fee in between.                       *)
(*                                                                         *)
(* The wallet's balance is the sum of its utxos, each of which is an       *)
(* output of a transaction that it has (LWWallet's UtxosExact), so that    *)
(* the loop spends them one by one from the first. At most 251 outputs are *)
(* asked for: the change makes the count of 252 two bytes longer, which    *)
(* nothing reserves.                                                       *)
EXTENDS Integers, Sequences, SequencesExt, FiniteSets

CONSTANTS
    TX_MAX_SIZE,
    UtxoAmounts,    \* amounts that are received
    MaxUtxos,       \* bound: outputs in the wallet
    Asked,          \* what is asked for: sequences of outputs [amount, scriptLen]
    FeeFilters,     \* what the connected peers ask for, in the order of connectedPeers
    MaxFees         \* bound: how often that raises the fee

TX_FEE_PER_KB == 1000
TX_OUTPUT_SIZE == 34
TX_INPUT_SIZE == 148
TX_MIN_OUTPUT_AMOUNT == (TX_FEE_PER_KB * 3 * (TX_OUTPUT_SIZE + TX_INPUT_SIZE)) \div 1000
DEFAULT_FEE_PER_KB == (5000 * 1000 + 99) \div 100
MIN_FEE_PER_KB == (TX_FEE_PER_KB * 1000 + 190) \div 191
MAX_FEE_PER_KB == (1000100 * 1000 + 190) \div 191

ASSUME CoinAssumption ==
    /\ TX_MAX_SIZE \in Nat /\ MaxUtxos \in Nat /\ MaxFees \in Nat
    /\ UtxoAmounts \subseteq Nat
    /\ \A outs \in Asked :
        outs \in Seq([amount : Nat \ {0}, scriptLen : Nat]) /\ Len(outs) \in 1 .. 251

VARIABLES
    utxos,          \* the amounts of wallet->utxos, in their order
    feePerKb,
    call,           \* the innermost call: its step, outputs and minAmount, what was
                    \* asked of the first one, and whether the wallet changed since
    tx,             \* what the last call returned
    filters         \* the fee filters that raised the fee

coinVars == <<utxos, feePerKb, call, tx, filters>>

NoTx == [made |-> FALSE]
NoCall == [step |-> "idle"]

Total(amounts) == FoldLeft(+, 0, amounts)
Paid(outs) == Total([o \in DOMAIN outs |-> outs[o].amount])

\* Of numbers below 2^32.
LWVarIntSize(n) == IF n < 253 THEN 1 ELSE IF n < 65536 THEN 3 ELSE 5

LWTransactionSize(inCount, outs) ==
    8 + LWVarIntSize(inCount) + LWVarIntSize(Len(outs)) + TX_INPUT_SIZE * inCount
      + Total([o \in DOMAIN outs |-> 8 + LWVarIntSize(outs[o].scriptLen) + outs[o].scriptLen])

_txFee(rate, size) ==
    LET standardFee == ((size + 999) \div 1000) * TX_FEE_PER_KB
        fee == (((size * rate) \div 1000 + 99) \div 100) * 100
    IN  IF fee > standardFee THEN fee ELSE standardFee

LWWalletMinOutputAmount ==
    LET amount == (TX_MIN_OUTPUT_AMOUNT * feePerKb + MIN_FEE_PER_KB - 1) \div MIN_FEE_PER_KB
    IN  IF amount > TX_MIN_OUTPUT_AMOUNT THEN amount ELSE TX_MIN_OUTPUT_AMOUNT

\* MUTANT: room for one output only.
MaxOneOutput ==
    LET txSize == 8 + LWVarIntSize(Len(utxos)) + TX_INPUT_SIZE * Len(utxos) + 1 + TX_OUTPUT_SIZE
        fee == _txFee(feePerKb, txSize)
    IN  IF Total(utxos) > fee THEN Total(utxos) - fee ELSE 0

LWWalletMaxOutputAmount ==
    LET txSize == 8 + LWVarIntSize(Len(utxos)) + TX_INPUT_SIZE * Len(utxos) + 1 + TX_OUTPUT_SIZE * 2
        fee == _txFee(feePerKb, txSize)
    IN  IF Total(utxos) > fee THEN Total(utxos) - fee ELSE 0

(***************************************************************************)
(* The loop over the utxos, for outs and the first k of them.              *)
(***************************************************************************)
Balance(k) == Total(SubSeq(utxos, 1, k))

\* With room for the change; once there is an input, the fee rounds off what
\* remains in the wallet.
\* MUTANT: no room for the change.
FeeTight(outs, k) == _txFee(feePerKb, LWTransactionSize(k, outs))

FeeAmount(outs, k) ==
    LET fee == _txFee(feePerKb, LWTransactionSize(k, outs) + TX_OUTPUT_SIZE)
        left == Total(utxos) - (Paid(outs) + fee)
    IN  IF k > 0 /\ left > 0 THEN fee + (left % 100) ELSE fee

TooLarge(outs, k) == LWTransactionSize(k, outs) + TX_OUTPUT_SIZE > TX_MAX_SIZE

\* What is left over, negative if there is not enough.
Over(outs, k) == Balance(k) - (Paid(outs) + FeeAmount(outs, k))

Enough(outs, min, k) == Over(outs, k) = 0 \/ Over(outs, k) >= min

\* The input at which the loop ends.
StopsAt(outs, min) ==
    LET ends == {k \in DOMAIN utxos : TooLarge(outs, k) \/ Enough(outs, min, k)}
    IN  IF ends = {} THEN Len(utxos) ELSE CHOOSE k \in ends : \A j \in ends : k <= j

\* The test for sufficient funds before a smaller transaction.
Affords(outs) ==
    Total(utxos) >= Paid(outs) + _txFee(feePerKb,
        10 + Len(utxos) * TX_INPUT_SIZE + (Len(outs) + 1) * TX_OUTPUT_SIZE)

\* MUTANT: the last output is always reduced, however little is left of it.
LessAlways(outs, min, k) ==
    [outs EXCEPT ![Len(outs)].amount = @ + Over(outs, k - 1)]

\* The outputs of the smaller one, when the k-th input was one too many: the
\* last one reduced to what the others pay for, or removed.
Less(outs, min, k) ==
    IF outs[Len(outs)].amount > min - Over(outs, k - 1)
    THEN [outs EXCEPT ![Len(outs)].amount = @ + Over(outs, k - 1)]
    ELSE Front(outs)

\* MUTANT: change of any amount is paid out.
ChangeAny(over, min) == over > 0

HasChange(over, min) == over > min

\* The transaction that spends the first k, none if they are not enough.
Transaction(outs, min, k) ==
    IF Over(outs, k) < 0 THEN NoTx
    ELSE [made |-> TRUE, inCount |-> k, rate |-> feePerKb,
          outs |-> outs, spent |-> Balance(k), total |-> Total(utxos),
          change |-> IF HasChange(Over(outs, k), min) THEN Over(outs, k) ELSE 0]

(***************************************************************************)
(* The caller's thread, and the others.                                    *)
(***************************************************************************)
CoinInit ==
    /\ utxos = <<>> /\ feePerKb = DEFAULT_FEE_PER_KB
    /\ call = NoCall /\ tx = NoTx /\ filters = <<>>

Begin(outs, asked, changed) ==
    call' = [step |-> "begun", outs |-> outs, min |-> LWWalletMinOutputAmount,
             asked |-> asked, changed |-> changed]

Ends(result) ==
    /\ tx' = result
    /\ call' = [step |-> "returned", asked |-> call.asked, min |-> call.min,
                changed |-> call.changed]

\* The call, up to its first unlock: minAmount.
Create ==
    /\ call = NoCall
    /\ \E outs \in Asked : Begin(outs, outs, FALSE)
    /\ UNCHANGED <<utxos, feePerKb, tx, filters>>

\* The application asks for all there is, for itself or for the fee
\* (LWWalletFeeForTxAmount).
CreateMax ==
    /\ call = NoCall
    /\ LWWalletMaxOutputAmount > 0
    /\ LET outs == <<[amount |-> LWWalletMaxOutputAmount, scriptLen |-> 25]>>
       IN  Begin(outs, outs, FALSE)
    /\ UNCHANGED <<utxos, feePerKb, tx, filters>>

\* The part under the lock, and what follows it; or the call for less.
Select ==
    /\ call.step = "begun" /\ call.outs # <<>>
    /\ LET outs == call.outs
           k == StopsAt(outs, call.min)
       IN  IF k > 0 /\ TooLarge(outs, k)
           THEN IF Affords(outs)
                THEN Begin(Less(outs, call.min, k), call.asked, call.changed) /\ UNCHANGED tx
                ELSE Ends(NoTx)
           ELSE Ends(Transaction(outs, call.min, k))
    /\ UNCHANGED <<utxos, feePerKb, filters>>

\* A call for no outputs ends the program at the assertion on outCount.
OutCountFails ==
    /\ call.step = "begun" /\ call.outs = <<>>
    /\ call' = [step |-> "asserted", asked |-> call.asked]
    /\ UNCHANGED <<utxos, feePerKb, tx, filters>>

\* The caller has seen the result.
Free ==
    /\ call.step = "returned"
    /\ call' = NoCall /\ tx' = NoTx
    /\ UNCHANGED <<utxos, feePerKb, filters>>

Changed == IF call.step \in {"begun", "returned"} THEN [call EXCEPT !.changed = TRUE] ELSE call

\* A transaction is registered that pays to the wallet, or spends from it.
WalletGets ==
    /\ Len(utxos) < MaxUtxos
    /\ \E a \in UtxoAmounts : utxos' = Append(utxos, a)
    /\ call' = Changed
    /\ UNCHANGED <<feePerKb, tx, filters>>

WalletSpends ==
    /\ utxos # <<>>
    /\ utxos' = Tail(utxos)
    /\ call' = Changed
    /\ UNCHANGED <<feePerKb, tx, filters>>

\* The loop of _peerSetFeePerKb, from the last peer to the first.
SecondRate(rates) ==
    LET Take(m, r) == IF r > m.max THEN [max |-> r, second |-> m.max] ELSE m
    IN  FoldLeft(Take, [max |-> 0, second |-> 0], Reverse(rates)).second

_peerSetFeePerKb ==
    /\ Len(filters) < MaxFees
    /\ \E rates \in FeeFilters :
        LET rate == (SecondRate(rates) * 3) \div 2
        IN  /\ filters' = Append(filters, rates)
            /\ rate \in DEFAULT_FEE_PER_KB + 1 .. MAX_FEE_PER_KB /\ rate > feePerKb
            /\ feePerKb' = rate
    /\ call' = Changed
    /\ UNCHANGED <<utxos, tx>>

CoinNext ==
    \/ Create \/ CreateMax \/ Select \/ OutCountFails \/ Free
    \/ WalletGets \/ WalletSpends \/ _peerSetFeePerKb

\* The thread that made the call runs on.
CoinSpec == CoinInit /\ [][CoinNext]_coinVars /\ WF_coinVars(Select \/ OutCountFails)

-----------------------------------------------------------------------------
Got == call.step = "returned" /\ tx.made

ChangeOut == IF tx.change > 0 THEN <<[amount |-> tx.change, scriptLen |-> 25]>> ELSE <<>>

\* A transaction spends enough for its outputs, its change and the fee for the
\* size it has with them, at the rate there was when it chose, and it is not
\* larger than a transaction may be (LWWalletCreateTxForOutputs).
Funded ==
    Got =>
        LET outs == tx.outs \o ChangeOut
            size == LWTransactionSize(tx.inCount, outs)
            fee == tx.spent - Paid(outs)
        IN  /\ fee >= (size * tx.rate) \div 1000
            /\ fee >= _txFee(tx.rate, size)
            /\ size <= TX_MAX_SIZE

\* Nothing worth an output is lost: what goes to the miners beyond the fee with
\* the largest possible size and the rounding is at most the minimum amount of
\* the call, and no change is below it; with change, the balance that remains
\* is a multiple of 100 (the comments at "increase fee" and "add change").
NothingLost ==
    Got =>
        LET size == LWTransactionSize(tx.inCount, tx.outs) + TX_OUTPUT_SIZE
            fee == tx.spent - Paid(tx.outs \o ChangeOut)
        IN  /\ fee <= _txFee(tx.rate, size) + 99 + IF tx.change > 0 THEN 0 ELSE call.min
            /\ tx.change > 0 => tx.change > call.min
            /\ tx.change > 0 => (tx.total - tx.spent + tx.change) % 100 = 0

\* The miners get what the transaction needs and no coin beyond that (LWWalletCreateTxForOutputs).
FeeExact == Funded /\ NothingLost

\* The outputs are those asked for, or the first of them with the last one at
\* another amount, but not one below the least that the network relays; and
\* that only if no transaction of legal size pays for what was asked.
AsAsked ==
    Got =>
        LET n == Len(tx.outs)
        IN  /\ n \in 1 .. Len(call.asked)
            /\ Front(tx.outs) = SubSeq(call.asked, 1, n - 1)
            /\ tx.outs[n].scriptLen = call.asked[n].scriptLen
            /\ tx.outs[n].amount = call.asked[n].amount \/ tx.outs[n].amount > TX_MIN_OUTPUT_AMOUNT
            /\ tx.outs # call.asked /\ ~call.changed =>
                \A k \in DOMAIN utxos :
                    TooLarge(call.asked, k) \/ ~Enough(call.asked, call.min, k)

\* The whole balance can be sent at once, and nothing of it remains, as long as
\* the transaction is not too large and nothing changes in between
\* (LWWalletMaxOutputAmount).
MaxSendable ==
    LET outs == <<[amount |-> LWWalletMaxOutputAmount, scriptLen |-> 25]>>
        k == Len(utxos)
    IN  LWWalletMaxOutputAmount > 0 /\ ~TooLarge(outs, k) =>
            /\ StopsAt(outs, LWWalletMinOutputAmount) = k
            /\ Transaction(outs, LWWalletMinOutputAmount, k).made
            /\ Over(outs, k) = 0

\* Every call returns a transaction or NULL ("returns an unsigned transaction
\* that satisifes the given transaction outputs"), as long as nothing changes.
CallReturns == call.step = "begun" ~> call.step # "begun" \/ call.changed
=============================================================================
