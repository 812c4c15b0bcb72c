--------------------------- MODULE LWTransaction ---------------------------
(* Transactions: made, signed by one wallet after another, copied, sent    *)
(* and parsed on the way, until all inputs are signed and the network gets *)
(* them. An input of somebody else's may be signed by another program.     *)
(*                                                                         *)
(* A pointer that may be NULL is a sequence of at most one. Serialized     *)
(* bytes are a record of what is in them; the amount of an input is in     *)
(* them while it is not signed, so that a parser that takes a script for a *)
(* signature, or the other way round, reads all that follows wrongly:      *)
(* Misread. Bytes cut short are not modelled.                              *)
EXTENDS LWBIP32Sequence

CONSTANTS
    TxIns,          \* what may be spent: sequences of [prev, amount, script, sequence]
    TxOuts,         \* and paid: sequences of [amount, script]
    Wallets,        \* [wallet -> [seed, generated]]: how many addresses each chain has, [chain -> Nat]
    ForkIds,        \* SIGHASH_FORKID on networks that have it, or 0
    ScriptSig(_, _),\* what another program signs with: of a signature and of a script
    MaxSends        \* bound: how often it is serialized and parsed

\* So that adding SIGHASH_ALL sets a bit of it.
ASSUME ForkIdsAssumption == \A forkId \in ForkIds : forkId % 2 = 0

SIGHASH_ALL == 1
SIGHASH_FORKID == 64
TX_VERSION == 1
TX_LOCKTIME == 0
NoTransaction == [inputs |-> <<>>]
Misread == [inputs |-> <<>>, misread |-> TRUE]

(***************************************************************************)
(* What a transaction is made of.                                          *)
(***************************************************************************)
LWTxInputSetScript(input, script) ==
    [input EXCEPT !.script = <<script>>, !.address = LWAddressFromScriptPubKey(script)]

\* The address is that of the script where there is one.
LWTxInputSetSignature(input, signature) ==
    [input EXCEPT !.signature = <<signature>>,
                  !.address = IF @ = NoAddress THEN LWAddressFromScriptSig(signature) ELSE @]

EmptyInput(prev, sequence, amount) ==
    [prev |-> prev, sequence |-> sequence, amount |-> amount,
     script |-> <<>>, signature |-> <<>>, address |-> NoAddress]

LWTransactionAddInput(prev, amount, script, signature, sequence) ==
    LET input == EmptyInput(prev, sequence, amount)
        with == IF script = <<>> THEN input ELSE LWTxInputSetScript(input, script[1])
    IN  IF signature = <<>> THEN with ELSE LWTxInputSetSignature(with, signature[1])

LWTransactionAddOutput(amount, script) ==
    [amount |-> amount, script |-> script, address |-> LWAddressFromScriptPubKey(script)]

LWTransactionNew(ins, outs) ==
    [version |-> TX_VERSION, lockTime |-> TX_LOCKTIME, txHash |-> <<>>,
     inputs |-> [i \in DOMAIN ins |->
        LWTransactionAddInput(ins[i].prev, ins[i].amount, <<ins[i].script>>, <<>>, ins[i].sequence)],
     outputs |-> [o \in DOMAIN outs |-> LWTransactionAddOutput(outs[o].amount, outs[o].script)]]

LWTransactionCopy(tx) ==
    [tx EXCEPT !.inputs = [i \in DOMAIN @ |-> LWTransactionAddInput(
                    @[i].prev, @[i].amount, @[i].script, @[i].signature, @[i].sequence)],
               !.outputs = [o \in DOMAIN @ |-> LWTransactionAddOutput(@[o].amount, @[o].script)]]

(***************************************************************************)
(* Bytes: to be sent, and to be signed.                                    *)
(***************************************************************************)
\* An amount of zero is left out.
_LWTxInputData(input, script, amount) ==
    [prev |-> input.prev, script |-> script, sequence |-> input.sequence,
     amount |-> IF amount = 0 THEN <<>> ELSE <<amount>>]

_LWTransactionOutputData(tx) ==
    [o \in DOMAIN tx.outputs |-> [amount |-> tx.outputs[o].amount, script |-> tx.outputs[o].script]]

LWTransactionSerialize(tx) ==
    [version |-> tx.version, lockTime |-> tx.lockTime, outputs |-> _LWTransactionOutputData(tx),
     inputs |-> [i \in DOMAIN tx.inputs |->
        LET input == tx.inputs[i]
        IN  IF input.signature = <<>> THEN _LWTxInputData(input, input.script[1], input.amount)
            ELSE _LWTxInputData(input, input.signature[1], 0)]]

\* What is signed with BIP143: of the other inputs, what they spend and their sequence.
_LWTransactionWitnessData(tx, index, hashType) ==
    LET input == tx.inputs[index]
    IN  [version |-> tx.version, lockTime |-> tx.lockTime, hashType |-> hashType,
         prevs |-> [i \in DOMAIN tx.inputs |-> tx.inputs[i].prev],
         sequences |-> [i \in DOMAIN tx.inputs |-> tx.inputs[i].sequence],
         input |-> _LWTxInputData(input, input.script[1], input.amount),
         outputs |-> _LWTransactionOutputData(tx)]

\* MUTANT: the signatures of the other inputs are left in.
_LWTransactionDataFull(tx, index, hashType) ==
    IF (hashType \div SIGHASH_FORKID) % 2 = 1 THEN _LWTransactionWitnessData(tx, index, hashType)
    ELSE [version |-> tx.version, lockTime |-> tx.lockTime, hashType |-> hashType,
          outputs |-> _LWTransactionOutputData(tx),
          inputs |-> [i \in DOMAIN tx.inputs |->
            LET input == tx.inputs[i]
            IN  IF i # index /\ input.signature # <<>> THEN _LWTxInputData(input, input.signature[1], 0)
                ELSE _LWTxInputData(input, IF i = index THEN input.script[1] ELSE Broken, 0)]]

\* What is signed for the input at index: its script, none for the others.
_LWTransactionData(tx, index, hashType) ==
    IF (hashType \div SIGHASH_FORKID) % 2 = 1 THEN _LWTransactionWitnessData(tx, index, hashType)
    ELSE [version |-> tx.version, lockTime |-> tx.lockTime, hashType |-> hashType,
          outputs |-> _LWTransactionOutputData(tx),
          inputs |-> [i \in DOMAIN tx.inputs |->
            _LWTxInputData(tx.inputs[i], IF i = index THEN tx.inputs[i].script[1] ELSE Broken, 0)]]

\* Bytes that read as a script to be paid to are one, and an amount follows.
LWTransactionParse(bytes) ==
    LET Unsigned(i) == LWAddressFromScriptPubKey(bytes.inputs[i].script) # NoAddress
        Input(i) ==
            LET from == bytes.inputs[i]
            IN  IF Unsigned(i)
                THEN LWTxInputSetScript(EmptyInput(from.prev, from.sequence, from.amount[1]), from.script)
                ELSE LWTxInputSetSignature(EmptyInput(from.prev, from.sequence, 0), from.script)
    IN  IF bytes.inputs = <<>> THEN NoTransaction
        ELSE IF \E i \in DOMAIN bytes.inputs : Unsigned(i) # (bytes.inputs[i].amount # <<>>) THEN Misread
        ELSE [version |-> bytes.version, lockTime |-> bytes.lockTime,
              inputs |-> [i \in DOMAIN bytes.inputs |-> Input(i)],
              outputs |-> [o \in DOMAIN bytes.outputs |->
                    LWTransactionAddOutput(bytes.outputs[o].amount, bytes.outputs[o].script)],
              txHash |-> IF \E i \in DOMAIN bytes.inputs : Unsigned(i) THEN <<>> ELSE <<bytes>>]

(***************************************************************************)
(* Signing.                                                                *)
(***************************************************************************)
LWTransactionIsSigned(tx) == \A i \in DOMAIN tx.inputs : tx.inputs[i].signature # <<>>

\* One turn of the loop: with the first key that has the address.
SignInput(tx, index, forkId, keys) ==
    LET input == tx.inputs[index]
        script == input.script[1]
        j == SelectInSeq(keys, LAMBDA key : LWKeyAddress(key) = LWAddressFromScriptPubKey(script))
        md == _LWTransactionData(tx, index, forkId + SIGHASH_ALL)
        sig == Push(LWKeySign(keys[j], md))
    IN  IF input.script = <<>> THEN tx
        ELSE IF LWAddressFromScriptPubKey(script) = NoAddress \/ j = 0 THEN tx
        ELSE [tx EXCEPT !.inputs[index] = LWTxInputSetSignature(@,
                IF Len(script) >= 2 /\ script[Len(script) - 1].op = OP_EQUALVERIFY
                THEN <<sig, Push(LWKeyPubKey(keys[j]))>> ELSE <<sig>>)]

LWTransactionSign(tx, forkId, keys) ==
    LET loop[i \in 0 .. Len(tx.inputs)] ==
            IF i = 0 THEN tx ELSE SignInput(loop[i - 1], i, forkId, keys)
        after == loop[Len(tx.inputs)]
    IN  IF LWTransactionIsSigned(after) THEN [after EXCEPT !.txHash = <<LWTransactionSerialize(after)>>]
        ELSE after

\* The address at index in a chain, as it was generated from the master public key.
ChainAddress(wallet, chain, index) == PubKeyAddress(LWBIP32PubKey(LWBIP32MasterPubKey(wallet.seed), chain, index))

\* The addresses of the inputs are looked up in the chains, under the lock.
Indexes(wallet, tx, chain) ==
    SelectSeq([n \in 1 .. wallet.generated[chain] |-> n - 1], LAMBDA index :
        \E i \in DOMAIN tx.inputs : tx.inputs[i].address = ChainAddress(wallet, chain, index))

LWWalletSignTransaction(wallet, tx, forkId) ==
    LET PrivKeys(chain) == LWBIP32PrivKeyList(wallet.seed, chain, Indexes(wallet, tx, chain))
    IN  LWTransactionSign(tx, forkId, PrivKeys(SEQUENCE_INTERNAL_CHAIN) \o PrivKeys(SEQUENCE_EXTERNAL_CHAIN))

(***************************************************************************)
(* A transaction and those who sign it.                                    *)
(***************************************************************************)
VARIABLES
    paid,           \* [ins, outs, forkId]: the transaction as it was made
    signing,        \* the object in memory
    signers,        \* the wallets that signed, and the inputs others signed
    answer,         \* what the last call of LWWalletSignTransaction returned
    sends

transactionVars == <<paid, signing, signers, answer, sends>>

TransactionInit ==
    /\ paid = [ins |-> <<>>, outs |-> <<>>, forkId |-> 0] /\ signing = NoTransaction
    /\ signers = {} /\ answer = FALSE /\ sends = 0

MakeTransaction(ins, outs, forkId) ==
    /\ paid.ins = <<>>
    /\ paid' = [ins |-> ins, outs |-> outs, forkId |-> forkId]
    /\ signing' = LWTransactionNew(ins, outs)
    /\ UNCHANGED <<signers, answer, sends>>

WalletSigns(w) ==
    /\ signing.inputs # <<>>
    /\ signing' = LWWalletSignTransaction(Wallets[w], signing, paid.forkId)
    /\ answer' = LWTransactionIsSigned(signing')
    /\ signers' = signers \cup {<<w, 0>>}
    /\ UNCHANGED <<paid, sends>>

CopyTransaction ==
    /\ signing.inputs # <<>>
    /\ signing' = LWTransactionCopy(signing)
    /\ UNCHANGED <<paid, signers, answer, sends>>

ReceiveBytes(bytes) ==
    /\ sends < MaxSends
    /\ sends' = sends + 1
    /\ signing' = LWTransactionParse(bytes)
    /\ answer' = FALSE
    /\ UNCHANGED paid

Send ==
    /\ signing.inputs # <<>>
    /\ ReceiveBytes(LWTransactionSerialize(signing))
    /\ UNCHANGED signers

\* What the signature for input i of the transaction, as it was made, is over.
ToSign(i) == _LWTransactionData(LWTransactionNew(paid.ins, paid.outs), i, paid.forkId + SIGHASH_ALL)

\* External: another program signs input i, and passes the transaction on.
OtherSigns(i) ==
    /\ i \in DOMAIN signing.inputs /\ signing.inputs[i].signature = <<>>
    /\ LET sig == ScriptSig(ToSign(i), paid.ins[i].script)
       IN  ReceiveBytes([LWTransactionSerialize(signing) EXCEPT !.inputs[i].script = sig, !.inputs[i].amount = <<>>])
    /\ signers' = signers \cup {<<"other", i>>}

TransactionNext ==
    \/ \E ins \in TxIns, outs \in TxOuts, f \in ForkIds : MakeTransaction(ins, outs, f)
    \/ \E w \in DOMAIN Wallets : WalletSigns(w)
    \/ CopyTransaction
    \/ Send
    \/ \E i \in DOMAIN signing.inputs : OtherSigns(i)

-----------------------------------------------------------------------------
\* The public keys of a wallet, from its master public key.
PubKeys(w) ==
    LET mpk == LWBIP32MasterPubKey(Wallets[w].seed)
    IN  UNION {{LWBIP32PubKey(mpk, chain, n - 1) : n \in 1 .. Wallets[w].generated[chain]} :
            chain \in DOMAIN Wallets[w].generated}

\* What a node asks of the signature of input i: that the key it is verified
\* with, which is all of the secret that a node sees, signed the transaction.
Accepted(i, signature) ==
    LET script == paid.ins[i].script
        md == ToSign(i)
    IN  \/ signature = ScriptSig(md, script)
        \/ \E w \in DOMAIN Wallets : \E pubKey \in PubKeys(w) :
            LET sig == Push(LWKeySign([secret |-> pubKey.is[1]], md))
            IN  \/ /\ script = LWAddressScriptPubKey(PubKeyAddress(pubKey))
                   /\ signature = <<sig, Push(pubKey)>>
                \/ script = <<Push(pubKey), Op(OP_CHECKSIG)>> /\ signature = <<sig>>

CanSign(w, i) ==
    \E pubKey \in PubKeys(w) : PubKeyAddress(pubKey) = LWAddressFromScriptPubKey(paid.ins[i].script)

(* Every output that a wallet counts as its own, by an address that comes  *)
(* from its master public key, can be spent, whichever script pays to it:  *)
(* the input has a signature that the network accepts as soon as one       *)
(* signed who can, in whatever order they do and however often the         *)
(* transaction is copied, serialized and parsed between. It spends and     *)
(* pays what it was made to, and has the hash of its bytes exactly when no *)
(* signature lacks; for scripts with an address, amounts above zero, and   *)
(* signatures that do not read as a script to pay to.                      *)
SpendsAsMade ==
    paid.ins # <<>> =>
        /\ signing \notin {NoTransaction, Misread}
        /\ Len(signing.inputs) = Len(paid.ins)
        /\ _LWTransactionOutputData(signing) = paid.outs
        /\ \A i \in DOMAIN paid.ins :
            LET input == signing.inputs[i]
            IN  /\ input.prev = paid.ins[i].prev /\ input.sequence = paid.ins[i].sequence
                /\ IF <<"other", i>> \in signers \/ \E w \in DOMAIN Wallets : <<w, 0>> \in signers /\ CanSign(w, i)
                   THEN input.signature # <<>> /\ Accepted(i, input.signature[1])
                   ELSE /\ input.signature = <<>> /\ input.amount = paid.ins[i].amount
                        /\ input.script = <<paid.ins[i].script>>
        /\ answer => LWTransactionIsSigned(signing)
        /\ signing.txHash =
            IF LWTransactionIsSigned(signing) THEN <<LWTransactionSerialize(signing)>> ELSE <<>>
=============================================================================
