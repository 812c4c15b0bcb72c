------------------------------ MODULE LWBase58 ------------------------------
(* Base58: bytes as digits of base 58, with four bytes of a hash as check. *)
(* The number is carried digit by digit through a buffer whose size is an  *)
(* estimate; bytes and digits are sequences of numbers.                    *)
EXTENDS Integers, Sequences, SequencesExt, FiniteSets

CONSTANT SHA256_2(_)    \* LWSHA256_2: the first bytes at least

Zeroes(n) == [i \in 1 .. n |-> 0]
LeadingZeroes(s) == SelectInSeq(s \o <<1>>, LAMBDA x : x # 0) - 1

\* carry is added to the buffer times the base it is read in, from the last
\* digit on; what does not fit is lost.
Carried(buf, carry, from, to) ==
    LET c[k \in 0 .. Len(buf)] ==
            IF k = Len(buf) THEN carry ELSE (c[k + 1] + buf[k + 1] * from) \div to
    IN  [k \in DOMAIN buf |-> (c[k] + buf[k] * from) % to]

\* s has zcount leading zeroes, which are kept; the buffer loses its own.
Rebased(s, zcount, from, to, size) ==
    LET buf[i \in zcount .. Len(s)] ==
            IF i = zcount THEN Zeroes(size) ELSE Carried(buf[i - 1], s[i], from, to)
        last == buf[Len(s)]
    IN  Zeroes(zcount) \o SubSeq(last, LeadingZeroes(last) + 1, size)

\* MUTANT: the size of the buffer is not rounded up.
Base58EncodeTight(bytes) ==
    LET zcount == LeadingZeroes(bytes)
    IN  Rebased(bytes, zcount, 256, 58, ((Len(bytes) - zcount) * 136) \div 100)

Base58Encode(bytes) ==
    LET zcount == LeadingZeroes(bytes)
    IN  Rebased(bytes, zcount, 256, 58, ((Len(bytes) - zcount) * 138) \div 100 + 1)

\* Reading ends at what is no digit; the size is from all that follows the zeroes.
Base58Decode(str) ==
    LET zcount == LeadingZeroes(str)
        digits == SelectInSeq(str \o <<58>>, LAMBDA c : c >= 58) - 1
    IN  Rebased(SubSeq(str, 1, digits), zcount, 58, 256, ((Len(str) - zcount) * 733) \div 1000 + 1)

Base58CheckEncode(bytes) == Base58Encode(bytes \o SubSeq(SHA256_2(bytes), 1, 4))

\* No bytes if the check fails.
Base58CheckDecode(str) ==
    LET buf == Base58Decode(str)
        bytes == SubSeq(buf, 1, Len(buf) - 4)
    IN  IF Len(buf) >= 4 /\ SubSeq(buf, Len(buf) - 3, Len(buf)) = SubSeq(SHA256_2(bytes), 1, 4)
        THEN bytes ELSE <<>>
=============================================================================
