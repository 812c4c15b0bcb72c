-------------------------- MODULE LWBIP39Mnemonic --------------------------
(* The phrase of a seed: its bytes and the first bits of their hash, read  *)
(* eleven bits at a time as numbers of words. A phrase is the sequence of  *)
(* those numbers; one that is not below 2048 stands for a word that is not *)
(* in the list.                                                            *)
EXTENDS Integers, Sequences, SequencesExt, FiniteSets

CONSTANT SHA256(_)      \* LWSHA256: the first three bytes at least

BIP39_WORDLIST_COUNT == 2048

\* MUTANT: a word that lies in three bytes is taken from two.
LWBIP39EncodeTwo(bytes) ==
    LET buf == bytes \o SHA256(bytes)
    IN  [i \in 1 .. (Len(bytes) * 3) \div 4 |->
            LET at == ((i - 1) * 11) \div 8
                r == ((i - 1) * 11) % 8
            IN  ((buf[at + 1] * 65536 + buf[at + 2] * 256) \div 2 ^ (13 - r)) % BIP39_WORDLIST_COUNT]

\* The code reads four bytes and shifts by eight more; eleven bits lie in three.
LWBIP39Encode(bytes) ==
    LET buf == bytes \o SHA256(bytes)
    IN  [i \in 1 .. (Len(bytes) * 3) \div 4 |->
            LET at == ((i - 1) * 11) \div 8
                r == ((i - 1) * 11) % 8
            IN  ((buf[at + 1] * 65536 + buf[at + 2] * 256 + buf[at + 3]) \div 2 ^ (13 - r))
                    % BIP39_WORDLIST_COUNT]

\* No bytes if a word is unknown, their number wrong or the check fails.
LWBIP39Decode(idx) ==
    LET count == Len(idx)
        buf == [n \in 1 .. (count * 11 + 7) \div 8 |->
                    LET i == n - 1
                        k == (i * 8) \div 11
                        x == idx[k + 1]
                        y == IF k + 1 < count THEN idx[k + 2] ELSE 0
                    IN  ((x * BIP39_WORDLIST_COUNT + y) \div 2 ^ ((k + 2) * 11 - (i + 1) * 8)) % 256]
        bytes == SubSeq(buf, 1, (count * 4) \div 3)
        unchecked == 2 ^ (8 - count \div 3)
    IN  IF \/ count = 0 \/ count > 24 \/ count % 3 # 0
           \/ \E i \in DOMAIN idx : idx[i] >= BIP39_WORDLIST_COUNT
           \/ buf[Len(buf)] \div unchecked # SHA256(bytes)[1] \div unchecked
        THEN <<>> ELSE bytes
=============================================================================
