-------------------------- MODULE LWBIP32Sequence --------------------------
(* The keys of a wallet: the addresses it watches come from public keys    *)
(* derived without the seed, and what it signs with from the seed. A point *)
(* of the curve is told by what the generator is multiplied with, and      *)
(* serialized as the public key it is, bytes as sequences of numbers. Keys *)
(* that are zero do not occur.                                             *)
EXTENDS LWAddress

CONSTANTS
    Order,          \* n, of the group
    HMAC(_, _),     \* I of a chain code and bytes: <<IL, IR>>, numbers below the order
    BIP32_HARD      \* a number above all indexes

SEQUENCE_EXTERNAL_CHAIN == 0
SEQUENCE_INTERNAL_CHAIN == 1
BIP32_SEED_KEY == 0

-----------------------------------------------------------------------------
LWSecp256k1ModAdd(a, b) == (a + b) % Order
LWSecp256k1PointGen(k) == [len |-> 33, is |-> <<k, 1>>]
LWSecp256k1PointAdd(p, k) == [p EXCEPT !.is[1] = (@ + k) % Order]

LWKeyPubKey(key) == IF key.compressed THEN LWSecp256k1PointGen(key.secret) ELSE [len |-> 65, is |-> <<key.secret, 0>>]
PubKeyAddress(pubKey) == [kind |-> "pubkey", of |-> HASH160(pubKey)]
LWKeyAddress(key) == IF key.secret = 0 THEN NoAddress ELSE PubKeyAddress(LWKeyPubKey(key))
LWKeySign(key, md) == [len |-> 72, is |-> <<key.secret, md>>]

-----------------------------------------------------------------------------
(* An extended key is <<key, chain code>>.                                 *)

_CKDpriv(k, i) ==
    LET I == HMAC(k[2], IF i >= BIP32_HARD THEN <<0, k[1], i>> ELSE LWSecp256k1PointGen(k[1]).is \o <<i>>)
    IN  <<LWSecp256k1ModAdd(k[1], I[1]), I[2]>>

\* MUTANT: the chain code of the parent is kept.
_CKDpubKept(K, i) ==
    IF i >= BIP32_HARD THEN K
    ELSE <<LWSecp256k1PointAdd(K[1], HMAC(K[2], K[1].is \o <<i>>)[1]), K[2]>>

_CKDpub(K, i) ==
    LET I == HMAC(K[2], K[1].is \o <<i>>)
    IN  IF i >= BIP32_HARD THEN K ELSE <<LWSecp256k1PointAdd(K[1], I[1]), I[2]>>

Master(seed) == _CKDpriv(HMAC(BIP32_SEED_KEY, <<seed>>), BIP32_HARD)

\* N(m/0H)
LWBIP32MasterPubKey(seed) == <<LWSecp256k1PointGen(Master(seed)[1]), Master(seed)[2]>>

\* N(m/0H/chain/index)
LWBIP32PubKey(mpk, chain, index) == _CKDpub(_CKDpub(mpk, chain), index)[1]

\* m/0H/chain/index for each of the indexes
LWBIP32PrivKeyList(seed, chain, indexes) ==
    LET parent == _CKDpriv(Master(seed), chain)
    IN  [j \in DOMAIN indexes |-> [secret |-> _CKDpriv(parent, indexes[j])[1], compressed |-> TRUE]]
=============================================================================
