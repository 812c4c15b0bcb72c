------------------------------- MODULE MCData -------------------------------
(* The modules of the wallet's data, in one run: the first step of a       *)
(* behaviour decides which of them it is about.                            *)
EXTENDS
    LWPaymentProtocol, LWMerkleBlock, LWCoins, LWTransaction, LWEncodings, LWUpdateBalance, LWSet, TLC

MCKeys == {<<"alice">>, <<"bob">>, <<"carol">>}
MCTransactions == {<<"tx">>}

I(n, v) == Field(n, VARINT, v)
B(n, v) == Field(n, LENDELIM, v)

\* All sequences of up to n of the fields of a tuple.
UpTo(n, fields) ==
    UNION {{[j \in 1 .. k |-> fields[c[j]]] : c \in [1 .. k -> DOMAIN fields]} : k \in 0 .. n}

Script == <<"script">>
AnOutput == <<I(1, 5), B(2, Script)>>
SomeDetails == <<B(1, <<"test">>), B(2, AnOutput), I(3, 1)>>
Unknowns == <<B(20, <<"a">>), B(20, <<"b">>), I(20, 7), B(30, <<"c">>)>>

DetailsFields == <<
    B(1, <<"test">>), I(1, 4), B(2, AnOutput), B(2, <<B(2, Script)>>),
    B(2, <<I(1, 5)>>), B(2, <<B(30, <<"x">>), B(2, <<>>)>>), I(3, 1), B(3, <<"x">>), I(4, 0),
    B(5, <<"memo">>), B(5, None), B(7, <<>>)>> \o Unknowns
RequestFields == <<
    I(1, 2), I(1, 9), B(2, <<"x509+sha256">>), B(2, <<"x509+sha1">>), B(2, <<"none">>), B(3, <<"cert">>),
    B(4, SomeDetails), B(4, <<B(30, <<"c">>), I(3, 0)>>), I(4, 1), B(5, <<>>), B(5, <<"sig">>)>> \o Unknowns
PaymentFields == <<
    B(1, <<"data">>), B(2, <<"tx">>), B(2, <<"junk">>), B(3, AnOutput), B(3, <<B(2, <<>>)>>),
    B(4, <<"memo">>)>> \o Unknowns
ACKFields == <<
    B(1, <<B(2, <<"tx">>), B(4, <<"memo">>)>>), B(1, <<>>), B(1, None), B(2, <<"memo">>)>> \o Unknowns
InvoiceFields == <<
    B(1, <<"alice">>), B(1, <<"junk">>), I(2, 0), I(2, 3), B(3, <<"x509+sha256">>), B(4, <<"cert">>),
    B(6, <<"url">>), B(7, <<>>)>> \o Unknowns
MessageFields == <<
    I(1, 3), I(1, 10), B(2, <<"text">>), B(2, <<>>), I(3, 0), I(3, 1), B(3, <<"x">>), B(4, <<"msg">>), B(5, None)>> \o Unknowns
\* Requests with all that is signed, and what is unknown anywhere among it.
Signed(pki, sig) == {before \o <<pki, B(4, SomeDetails), B(sig, <<>>)>> \o after :
    before \in UpTo(1, Unknowns), after \in UpTo(2, Unknowns)}

MCWires == [
    details |-> UpTo(3, DetailsFields), request |-> UpTo(2, RequestFields)
        \cup Signed(B(2, <<"x509+sha256">>), 5) \cup Signed(B(2, <<"x509+sha1">>), 5),
    payment |-> UpTo(3, PaymentFields), ack |-> {<<B(1, <<>>)>> \o u : u \in UpTo(4, Unknowns)} \cup UpTo(2, ACKFields),
    invoice |-> UpTo(3, InvoiceFields) \cup {<<B(1, <<"bob">>), B(3, <<"x509+sha256">>), B(7, <<>>)>> \o u : u \in UpTo(1, Unknowns)},
    message |-> UpTo(3, MessageFields),
    encrypted |-> {<<I(1, 3), B(2, <<"junk">>)>> \o keys \o <<I(5, 1)>> : keys \in
        UpTo(2, <<B(3, <<"alice">>), B(4, <<"bob">>), B(3, <<"junk">>)>>)}]

\* The fields, and every one of them left out, zero or empty.
Texts == {None, <<"memo">>}
Outs == {<<>>, <<<<0, Script>>>>, <<<<5, Script>>, <<2, <<>>>>>>}
DetailsArgs == {<<network, outs, time, expires, memo, url, <<"data">>>> :
    network \in {None, <<"test">>}, outs \in Outs, time \in 0 .. 1, expires \in {0, 3}, memo \in Texts, url \in {None, <<>>}}
PaymentArgs == {<<data, txs, outs, memo>> :
    data \in {None, <<>>, <<"data">>}, txs \in {<<>>, <<<<"tx">>>>, <<<<"tx">>, <<"tx">>>>}, outs \in Outs, memo \in Texts}
Parties == {<<"alice">>, <<"bob">>}

MCMakes == [
    details |-> DetailsArgs,
    request |-> {<<version, pki, data, d, sig>> : version \in 0 .. 2, pki \in {None, <<"x509+sha1">>},
        data \in {None, <<"cert">>}, d \in {<<None, <<>>, 0, 0, None, None, None>>, <<<<"test">>, <<<<5, Script>>>>, 1, 0, <<"memo">>, None, <<"data">>>>},
        sig \in {None, <<>>, <<"sig">>}},
    payment |-> PaymentArgs,
    ack |-> {<<p, memo>> : p \in PaymentArgs, memo \in Texts},
    invoice |-> {<<key, amount, pki, data, memo, None, sig>> : key \in Parties, amount \in {0, 3},
        pki \in {None, <<"x509+sha256">>}, data \in {None, <<"cert">>}, memo \in Texts, sig \in {None, <<"sig">>}},
    message |-> {<<t, text, code, status, id>> : t \in {0, 4}, text \in {<<>>, <<"text">>}, code \in 0 .. 1,
        status \in Texts, id \in {None, <<"id">>}},
    encrypted |-> {<<3, <<"text">>, parties[1], parties[2], nonce, private, id, code, status>> :
        parties \in {<<<<"alice">>, <<"bob">>>>, <<<<"bob">>, <<"alice">>>>}, private \in Parties,
        nonce \in 0 .. 1, id \in {None, <<"id">>}, code \in 0 .. 1, status \in Texts}]

MCChanges == <<{2, 6}, {<<"junk">>}, {<<"bob">>, <<"junk">>}, {<<"alice">>, <<"carol">>}, {1, 2}, {<<"junk">>, None},
               {<<"id">>, <<>>}, {0, 7}, {<<"other">>}>>

\* Any flags with any hashes for the trees of one and two transactions; for
\* those of three and four, the hashes of some transactions and inner nodes.
UpToN(set, k) == UNION {[1 .. j -> set] : j \in 0 .. k}
Inner == {<<1>>, <<3>>, Node(3, 1, 0), Node(3, 1, 1)}
MCWrong ==
    {[n |-> n, totalTx |-> n, flags |-> UpToN(BOOLEAN, 3),
      hashes |-> UpToN({<<0>>, <<1>>, <<2>>, Node(2, 1, 0), Zero}, 2)] : n \in 1 .. 2}
    \cup {[n |-> c[1], totalTx |-> c[2], flags |-> [1 .. 7 -> BOOLEAN], hashes |-> {<<<<1>>, <<2>>, <<3>>, <<x>>>> : x \in 0 .. 4}] :
        c \in (3 .. 4) \X (3 .. 4)}
    \cup {[n |-> 3, totalTx |-> 4, flags |-> [1 .. 5 -> BOOLEAN], hashes |-> UpToN(Inner, 3)]}

PayTo(a) == [o \in DOMAIN a |-> [amount |-> a[o], scriptLen |-> 25]]
MCAsked == {PayTo(<<a>>) : a \in {5000, 41300, 120000}} \cup {PayTo(<<30000, b>>) : b \in {6000, 90000}}
    \cup {<<[amount |-> 20000, scriptLen |-> 34]>>}
MCFilters == {<<60000, 34000>>, <<34000, 60000>>, <<120000, 115000, 34000>>, <<4000001, 4000000>>}

-----------------------------------------------------------------------------
(* The loop of _LWWalletUpdateBalance: a payment, two that spend it, and   *)
(* one that spends the change of the first, which may be pending; every    *)
(* list of some of them in every order, each mined or not.                 *)

CONSTANTS rcv, spend, again, child, coin, Internal, External

OutPoint(hash, n) == [hash |-> hash, n |-> n]
Pays(chain, n, amount) == [addr |-> <<chain, n>>, amount |-> amount]

MCTx == {rcv, spend, again, child}
MCOutputs ==
  rcv :> <<Pays(External, 0, 4)>> @@
  spend :> <<Pays(Internal, 0, 3), [addr |-> Elsewhere, amount |-> 1]>> @@
  again :> <<Pays(External, 1, 1), Pays(Internal, 0, 2)>> @@
  child :> <<Pays(External, 1, 2)>>
MCInputs ==
  rcv :> {OutPoint(coin, 1)} @@ spend :> {OutPoint(rcv, 1)} @@
  again :> {OutPoint(rcv, 1), OutPoint(coin, 2)} @@ child :> {OutPoint(spend, 1)}
MCLocks == [x \in MCTx |-> IF x = child THEN 3 ELSE 0]
MCChains == {Internal, External}

MCLists == UNION {{s \in [1 .. n -> MCTx] : Cardinality({s[k] : k \in 1 .. n}) = n} : n \in 0 .. 4}
MCHeights == {1, 2, Unconfirmed}
MCAddrs == {<<External, 0>>, <<External, 1>>, <<Internal, 0>>}
MCAddrSets == {MCAddrs, MCAddrs \ {<<External, 1>>}}

-----------------------------------------------------------------------------
(* The hash table: five items, one of them equal to another, whose buckets  *)
(* meet at the end of a table of three and of seven.                       *)

MCItem == 1 .. 5
MCKey == [x \in MCItem |-> IF x = 5 THEN 1 ELSE x]
MCHash == <<5, 20, 6, 27, 5>>
MCSizes ==
  {1, 3, 7, 13, 23, 37, 59, 97, 149, 227, 347, 523, 787, 1187, 1783, 2677, 4019, 6037, 9059, 13591,
   20389, 30593, 45887, 68863, 103307, 154981, 232487, 348739, 523129, 784697, 1177067, 1765609,
   2648419, 3972643, 5958971, 8938469, 13407707, 20111563, 30167359, 45251077, 67876637, 101814991,
   152722489, 229083739, 343625629, 515438447, 773157683, 1159736527, 1739604799}

-----------------------------------------------------------------------------
(* Three keys of one wallet, one of another, and every kind of script: two *)
(* or three inputs that any of them can sign, in any order of the calls.   *)

MCOrder == 10007
MCHMAC(key, data) ==
    LET t == FoldLeft(LAMBDA n, x : (n * 131 + x + 1) % MCOrder, key, data)
    IN  <<1 + (t % (MCOrder - 1)), (t * 17) % MCOrder>>

MCWallets == [alice |-> [seed |-> 1, generated |-> 0 :> 2 @@ 1 :> 1], bob |-> [seed |-> 2, generated |-> 0 :> 0 @@ 1 :> 1]]

KeyAt(w, chain, index) == LWBIP32PubKey(LWBIP32MasterPubKey(MCWallets[w].seed), chain, index)
MCPubKeys == {KeyAt("alice", 0, 0), KeyAt("alice", 0, 1), KeyAt("alice", 1, 0), KeyAt("bob", 1, 0)}
ToKey(pubKey) == LWAddressScriptPubKey(PubKeyAddress(pubKey))
Bare(pubKey) == <<Push(pubKey), Op(OP_CHECKSIG)>>
Redeem == [len |-> 71, is |-> <<7>>]
ToScript == LWAddressScriptPubKey([kind |-> "script", of |-> HASH160(Redeem)])
Segwit == <<Op(OP_0), Push([len |-> 20, is |-> <<8>>])>>
MCScripts == {ToKey(k) : k \in MCPubKeys}
    \cup {Bare(KeyAt("alice", 0, 0)), Bare([KeyAt("alice", 0, 0) EXCEPT !.len = 65, !.is[2] = 0]), ToScript, Segwit}

MCScriptSig(md, script) ==
    LET sig == Push([len |-> 72, is |-> <<9, md>>])
    IN  IF script = Segwit THEN Broken ELSE IF script = ToScript THEN <<sig, Push(Redeem)>> ELSE <<sig>>

Coin(n, amount, script, sequence) == [prev |-> n, amount |-> amount, script |-> script, sequence |-> sequence]
MCTxIns ==
    {<<Coin(1, 5, a, 2), Coin(2, 4, b, 1)>> : a \in MCScripts, b \in MCScripts}
    \cup {<<Coin(1, 5, a, 2), Coin(2, 4, ToScript, 1), Coin(3, 4, b, 2)>> :
            a \in MCScripts, b \in {ToKey(KeyAt("bob", 1, 0)), Bare(KeyAt("alice", 0, 0))}}
MCTxOuts == {<<[amount |-> 3, script |-> ToKey(KeyAt("alice", 0, 0))], [amount |-> 0, script |-> <<Op(106)>>]>>}

-----------------------------------------------------------------------------
(* Bytes that are written: of lengths that end anywhere in a digit or word, *)
(* zeroes, ones and others. A sum stands for the hashes.                   *)

MCSum(bytes) ==
    LET t == FoldLeft(LAMBDA n, x : (n * 31 + x + 1) % 65521, 7, bytes)
    IN  <<t % 256, t \div 256, (t * 3) % 256, 0>>

MCPrefix == <<108, 116, 99>>
ZeroesOf(n) == [j \in 1 .. n |-> 0]
Ones(n) == [j \in 1 .. n |-> 255]
Mixed(n) == [j \in 1 .. n |-> (91 * j + 17) % 256]

MCPrograms == {[ver |-> 16, bytes |-> Mixed(n)] : n \in 2 .. 6}
    \cup {[ver |-> 0, bytes |-> b] : b \in {Ones(10), Mixed(10), Ones(13), Mixed(13)}}
MCPayloads == UNION {{ZeroesOf(n), Ones(n), Append(ZeroesOf(n - 1), 129)} : n \in 1 .. 3}
    \cup {Ones(21), <<0>> \o Mixed(20)}
MCEntropies == {Mixed(4 * n) : n \in 1 .. 8} \cup {ZeroesOf(16), ZeroesOf(32), Ones(16), Ones(32)}
MCTypos == [base58 |-> {1, 58}, bech32 |-> 0 .. 32, phrase |-> {0, 1, 1024, 2047, 2048}]

-----------------------------------------------------------------------------
VARIABLE subject

others == <<messageVars, merkleVars, coinVars, transactionVars, encodingVars>>
dataVars == <<others, loopVars, vars, subject>>

DataInit ==
    /\ MessageInit /\ MerkleInit /\ CoinInit /\ TransactionInit /\ EncodingInit /\ Init
    /\ registered \in MCLists /\ heightOf \in [MCTx -> MCHeights] /\ tipHeight \in MCHeights /\ ownAddrs \in MCAddrSets
    /\ LoopInit
    /\ \/ subject = "balance" /\ size = SizeFor(0)
       \/ /\ registered = <<>> /\ heightOf = [x \in MCTx |-> 1] /\ tipHeight = 1 /\ ownAddrs = MCAddrs
          /\ \/ subject = "others" /\ size = SizeFor(0)
             \/ subject = "set"

About(s, other) == subject \in {other, s} /\ subject' = s

DataNext ==
    \/ /\ \/ /\ About("messages", "others") /\ MessageNext
             /\ UNCHANGED <<merkleVars, coinVars, transactionVars, encodingVars>>
          \/ /\ About("blocks", "others") /\ MerkleNext
             /\ UNCHANGED <<messageVars, coinVars, transactionVars, encodingVars>>
          \/ /\ About("coins", "others") /\ CoinNext
             /\ UNCHANGED <<messageVars, merkleVars, transactionVars, encodingVars>>
          \/ /\ About("transactions", "others") /\ TransactionNext
             /\ UNCHANGED <<messageVars, merkleVars, coinVars, encodingVars>>
          \/ /\ About("texts", "others") /\ EncodingNext
             /\ UNCHANGED <<messageVars, merkleVars, coinVars, transactionVars>>
       /\ UNCHANGED <<loopVars, vars>>
    \/ About("balance", "balance") /\ CountNext /\ UNCHANGED <<others, vars>>
    \/ About("set", "set") /\ Next /\ UNCHANGED <<others, loopVars>>

DataSpec == DataInit /\ [][DataNext]_dataVars
=============================================================================
