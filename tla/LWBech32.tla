------------------------------ MODULE LWBech32 ------------------------------
(* Bech32: a witness program as digits of five bits, and six that make the *)
(* polynomial of them all 1. A number of 30 bits is the set of those that  *)
(* are set. An address is its prefix, as codes of letters, and the digits  *)
(* after the separator; 32 stands for any character that is no digit.      *)
EXTENDS Integers, Sequences, SequencesExt, FiniteSetsExt

Bits(n) == {b \in 0 .. 29 : (n \div 2 ^ b) % 2 = 1}
Number(bits) == FoldLeft(LAMBDA n, b : IF b \in bits THEN 2 * n + 1 ELSE 2 * n, 0, <<4, 3, 2, 1, 0>>)
Xor(s, t) == (s \ t) \cup (t \ s)

Generator == <<Bits(\h3b6a57b2), Bits(\h26508e6d), Bits(\h1ea119fa), Bits(\h3d4233dd), Bits(\h2a1462b3)>>

\* The five highest bits are shifted out, each for its generator.
polymod(x) ==
    LET out == {k \in 1 .. 5 : 24 + k \in x}
    IN  {b \in 0 .. 29 : Cardinality({k \in out : b \in Generator[k]}) % 2 = IF b - 5 \in x THEN 0 ELSE 1}

Residue(chk, digits) ==
    LET r[i \in 0 .. Len(digits)] ==
            IF i = 0 THEN chk ELSE Xor(polymod(r[i - 1]), Bits(digits[i]))
    IN  r[Len(digits)]

\* The high bits of each letter, a zero, and the low bits.
PrefixResidue(hrp) ==
    Residue({0}, [i \in DOMAIN hrp |-> hrp[i] \div 32] \o <<0>> \o [i \in DOMAIN hrp |-> hrp[i] % 32])

\* MUTANT: the rest of the last byte is not written.
SplitShort(bytes, j) ==
    LET a == IF j > 0 THEN bytes[j] ELSE 0
        b == IF j < Len(bytes) THEN bytes[j + 1] ELSE 0
        x == (j % 5) * 8 - (((j % 5) * 8) \div 5) * 5
    IN  IF j = Len(bytes) THEN <<>>
        ELSE <<(a * 2 ^ (5 - x) + b \div 2 ^ (3 + x)) % 32>>
             \o IF x >= 2 THEN <<(b \div 2 ^ (x - 2)) % 32>> ELSE <<>>

\* The digits that end within byte j, or after the last one.
Split(bytes, j) ==
    LET len == Len(bytes)
        a == IF j > 0 THEN bytes[j] ELSE 0
        b == IF j < len THEN bytes[j + 1] ELSE 0
        x == (j % 5) * 8 - (((j % 5) * 8) \div 5) * 5
    IN  (IF j < len \/ j % 5 > 0 THEN <<(a * 2 ^ (5 - x) + b \div 2 ^ (3 + x)) % 32>> ELSE <<>>)
        \o (IF x >= 2 /\ j < len THEN <<(b \div 2 ^ (x - 2)) % 32>> ELSE <<>>)

\* No digits if the program cannot be written.
Bech32Encode(hrp, program) ==
    LET len == Len(program.bytes)
        digits == <<program.ver>> \o FlattenSeq([j \in 1 .. len + 1 |-> Split(program.bytes, j - 1)])
        chk == Xor(Residue(PrefixResidue(hrp), digits \o <<0, 0, 0, 0, 0, 0>>), {0})
    IN  IF program.ver > 16 \/ len < 2 \/ len > 40 \/ Len(hrp) + len + 8 >= 91 THEN <<>>
        ELSE digits \o [k \in 1 .. 6 |-> Number({b \in 0 .. 4 : (6 - k) * 5 + b \in chk})]

\* The byte n of what digits c make, each of which may reach into two.
Joined(c, n) ==
    LET Byte(j) == (j \div 8) * 5 + ((j % 8) * 5) \div 8
        Part(j) ==
            LET x == (j % 8) * 5 - (((j % 8) * 5) \div 8) * 8
            IN  IF Byte(j) = n THEN (c[j + 1] * 8) \div 2 ^ x
                ELSE IF x > 3 THEN (c[j + 1] * 2 ^ (11 - x)) % 256 ELSE 0
    IN  MapThenSumSet(Part, {j \in 0 .. Len(c) - 1 : Byte(j) \in {n - 1, n}})

\* No program if the address is not valid; bits left over are not looked at.
Bech32Decode(hrp, digits) ==
    LET count == Len(digits) - 7
        bufLen == (count * 5) \div 8
    IN  IF \/ Len(hrp) < 1 \/ Len(digits) < 7 \/ Len(hrp) + 1 + Len(digits) \notin 8 .. 90
           \/ \E i \in DOMAIN digits : digits[i] > 31
           \/ Residue(PrefixResidue(hrp), digits) # {0}
           \/ digits[1] > 16 \/ bufLen \notin 2 .. 40
        THEN <<>>
        ELSE <<[ver |-> digits[1],
                bytes |-> [n \in 1 .. bufLen |-> Joined(SubSeq(digits, 2, count + 1), n - 1)]]>>
=============================================================================
