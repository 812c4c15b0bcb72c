----------------------------- MODULE LWAddress -----------------------------
(* Scripts and the addresses they pay to. A script is the sequence of its  *)
(* elements, each with its first byte, an opcode or the length of what it  *)
(* pushes, and the bytes it pushes; one whose last element does not end    *)
(* with it is Broken. Bytes are [len, is]: how many, and which; hashes do  *)
(* not collide. Addresses are written and read as LWEncodings says.        *)
EXTENDS Integers, Sequences, SequencesExt

OP_0 == 0
OP_PUSHDATA1 == 76
OP_PUSHDATA4 == 78
OP_1 == 81
OP_16 == 96
OP_DUP == 118
OP_EQUAL == 135
OP_EQUALVERIFY == 136
OP_HASH160 == 169
OP_CHECKSIG == 172

NoBytes == [len |-> 0, is |-> <<>>]
NoAddress == [kind |-> "none", of |-> NoBytes]
Broken == <<>>

Op(code) == [op |-> code, data |-> NoBytes]
Push(bytes) ==
    [op |-> IF bytes.len < OP_PUSHDATA1 THEN bytes.len
            ELSE IF bytes.len < 255 THEN OP_PUSHDATA1 ELSE OP_PUSHDATA1 + 1,
     data |-> bytes]

HASH160(bytes) == [len |-> 20, is |-> <<160>> \o bytes.is]

\* The first bytes of a script's elements are those of a pattern of sets.
Reads(script, pattern) ==
    Len(script) = Len(pattern) /\ \A i \in DOMAIN pattern : script[i].op \in pattern[i]

LWAddressFromScriptPubKey(script) ==
    CASE Reads(script, <<{OP_DUP}, {OP_HASH160}, {20}, {OP_EQUALVERIFY}, {OP_CHECKSIG}>>) ->
            [kind |-> "pubkey", of |-> script[3].data]
      [] Reads(script, <<{OP_HASH160}, {20}, {OP_EQUAL}>>) ->
            [kind |-> "script", of |-> script[2].data]
      [] Reads(script, <<{65, 33}, {OP_CHECKSIG}>>) ->
            [kind |-> "pubkey", of |-> HASH160(script[1].data)]
      [] \/ Reads(script, <<{OP_0}, {20, 32}>>)
         \/ Reads(script, <<OP_1 .. OP_16, 2 .. 40>>) ->
            [kind |-> "witness", of |-> [script[2].data EXCEPT !.is = <<script[1].op>> \o @]]
      [] OTHER -> NoAddress

\* The key of a signature that goes with one, or the script that is hashed.
LWAddressFromScriptSig(script) ==
    LET last == script[Len(script)]
        pushes == Len(script) >= 2 /\ script[Len(script) - 1].op <= OP_PUSHDATA4
    IN  CASE pushes /\ last.op \in {65, 33} -> [kind |-> "pubkey", of |-> HASH160(last.data)]
          [] pushes /\ last.op \in (1 .. OP_PUSHDATA4) \ {65, 33} -> [kind |-> "script", of |-> HASH160(last.data)]
          [] OTHER -> NoAddress

LWAddressScriptPubKey(addr) ==
    CASE addr.kind = "pubkey" -> <<Op(OP_DUP), Op(OP_HASH160), Push(addr.of), Op(OP_EQUALVERIFY), Op(OP_CHECKSIG)>>
      [] addr.kind = "script" -> <<Op(OP_HASH160), Push(addr.of), Op(OP_EQUAL)>>
      [] addr.kind = "witness" -> <<Op(addr.of.is[1]), Push([addr.of EXCEPT !.is = Tail(@)])>>
=============================================================================
