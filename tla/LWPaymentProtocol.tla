------------------------- MODULE LWPaymentProtocol -------------------------
(* The messages of the payment protocol (BIP70, BIP75): made, serialized,  *)
(* parsed, and passed on by programs that parse and serialize them again.  *)
(*                                                                         *)
(* Serialized bytes are a sequence of fields. A field has a key, the field *)
(* number times 8 plus the wire type, and a value: an integer, or bytes,   *)
(* which are a sequence again - of fields for a message within a message,  *)
(* of one name for a text or anything else. Bytes cut short by the end of  *)
(* the buffer are None, and only the last field can have them.             *)
(*                                                                         *)
(* A parsed message has a value at each field number of its schema, None   *)
(* where the code has a default (the flag in ctx->defaults) or NULL, and   *)
(* the fields that it does not know.                                       *)
EXTENDS Integers, Sequences, SequencesExt, FiniteSets

CONSTANTS
    None,           \* no value
    Keys,           \* the public keys: bytes that LWKeySetPubKey accepts
    Transactions,   \* the bytes that LWTransactionParse accepts
    EnumSize,       \* 2^32: how far a uint32_t and an enum count
    MaxHops,        \* bound: how often a message is passed on
    Wires,          \* what another program sends: [message type -> set of sequences of fields]
    Makes,          \* what is made here: [message type -> set of arguments]
    Changes         \* values of the fields that somebody writes into a message on its way

VARIABLES
    type,           \* the type of the message under way, None before there is one
    source,         \* its first bytes
    made,           \* the message as it was made here, None if another program sent it
    tampered,       \* it was changed on its way
    wire,           \* the bytes under way
    msg,            \* what was parsed of them; None if nothing was, or it was refused
    first,          \* the first that was parsed
    hops            \* how often it was parsed

messageVars == <<type, source, made, tampered, wire, msg, first, hops>>

VARINT == 0
LENDELIM == 2

Field(num, wireType, val) == [key |-> 8 * num + wireType, val |-> val]
Num(f) == f.key \div 8
\* What _ProtoBufField returns: i is 0 and data NULL for the other wire type.
IntOf(f) == IF f.key % 8 = VARINT THEN f.val ELSE 0
DataOf(f) == IF f.key % 8 = LENDELIM THEN f.val ELSE None

(***************************************************************************)
(* The schemas: the kind of each field by its number. "enum" is an integer *)
(* that is cast to 32 bits, a name in plural is a repeated field.          *)
(***************************************************************************)
Output == <<"int", "script">>
Details == <<"bytes", "outputs", "int", "int", "bytes", "bytes", "bytes">>
Request == <<"enum", "bytes", "bytes", "details", "bytes">>
Payment == <<"bytes", "transactions", "outputs", "bytes">>
ACK == <<"payment", "bytes">>
InvoiceRequest == <<"key", "int", "bytes", "bytes", "bytes", "bytes", "bytes">>
Message == <<"enum", "bytes", "int", "bytes", "bytes">>
EncryptedMessage ==
    <<"enum", "bytes", "key", "key", "int", "bytes", "bytes", "int", "bytes">>

Schema == [output |-> Output, details |-> Details, request |-> Request,
           payment |-> Payment, ack |-> ACK, invoice |-> InvoiceRequest,
           message |-> Message, encrypted |-> EncryptedMessage]

\* The fields without which the parsed message is freed and NULL returned.
Required == [output |-> {2}, details |-> {}, request |-> {4}, payment |-> {},
             ack |-> {1}, invoice |-> {1}, message |-> {1, 2},
             encrypted |-> 1 .. 5]

Repeated == {"outputs", "transactions"}

(***************************************************************************)
(* Parsing and serializing.                                                *)
(***************************************************************************)
\* Where a field is put among the unknown ones: before the first whose key is
\* not smaller; if all are smaller, before the last, where o was left.
Place(unknown, key) ==
    LET after == {i \in DOMAIN unknown : unknown[i].key >= key}
    IN  IF after # {} THEN CHOOSE i \in after : \A j \in after : i <= j
        ELSE IF unknown = <<>> THEN 1 ELSE Len(unknown)

\* MUTANT: the field at that place is always replaced.
UnknownOver(unknown, f) ==
    LET o == Place(unknown, f.key)
    IN  InsertAt(IF o \in DOMAIN unknown THEN RemoveAt(unknown, o) ELSE unknown, o, f)

_ProtoBufUnknown(unknown, f) ==
    LET o == Place(unknown, f.key)
        same == o \in DOMAIN unknown /\ unknown[o].key = f.key
    IN  InsertAt(IF same THEN RemoveAt(unknown, o) ELSE unknown, o, f)

RECURSIVE Parse(_, _), Serialize(_, _)

\* What the case of a field's number does with the value there was.
Stored(kind, old, f) ==
    LET data == DataOf(f)
        nested == IF data = None THEN <<>> ELSE data
    IN  CASE kind = "int" -> IntOf(f)
          [] kind = "enum" -> IntOf(f) % EnumSize
          [] kind = "bytes" -> IF data = None THEN old ELSE data
          [] kind = "script" -> data
          [] kind = "key" -> IF data \in Keys THEN data ELSE None
          [] kind \in {"details", "payment"} -> Parse(kind, nested)
          [] kind = "outputs" ->
                LET out == Parse("output", nested)
                IN  IF out = None THEN old ELSE Append(old, out)
          [] kind = "transactions" ->
                IF data \in Transactions THEN Append(old, data) ELSE old

Blank(t) ==
    [at |-> [n \in DOMAIN Schema[t] |-> IF Schema[t][n] \in Repeated THEN <<>> ELSE None],
     unknown |-> <<>>]

\* The loop over the fields, and the test of the required ones.
Parse(t, bytes) ==
    LET Take(m, f) ==
            IF Num(f) \in DOMAIN Schema[t]
            THEN [m EXCEPT !.at[Num(f)] = Stored(Schema[t][Num(f)], @, f)]
            ELSE [m EXCEPT !.unknown = _ProtoBufUnknown(@, f)]
        m == FoldLeft(Take, Blank(t), bytes)
    IN  IF \E n \in Required[t] : m.at[n] = None THEN None ELSE m

\* MUTANT: an integer that is zero is taken for one that was not set.
EmitNonZero(kind, n, v) ==
    IF v = None \/ (kind = "int" /\ v = 0) THEN <<>>
    ELSE CASE kind \in {"int", "enum"} -> <<Field(n, VARINT, v)>>
           [] kind \in {"details", "payment"} -> <<Field(n, LENDELIM, Serialize(kind, v))>>
           [] kind = "outputs" ->
                [i \in DOMAIN v |-> Field(n, LENDELIM, Serialize("output", v[i]))]
           [] kind = "transactions" -> [i \in DOMAIN v |-> Field(n, LENDELIM, v[i])]
           [] OTHER -> <<Field(n, LENDELIM, v)>>

Emit(kind, n, v) ==
    IF v = None THEN <<>>
    ELSE CASE kind \in {"int", "enum"} -> <<Field(n, VARINT, v)>>
           [] kind \in {"details", "payment"} -> <<Field(n, LENDELIM, Serialize(kind, v))>>
           [] kind = "outputs" ->
                [i \in DOMAIN v |-> Field(n, LENDELIM, Serialize("output", v[i]))]
           [] kind = "transactions" -> [i \in DOMAIN v |-> Field(n, LENDELIM, v[i])]
           [] OTHER -> <<Field(n, LENDELIM, v)>>

Serialize(t, m) ==
    FlattenSeq([n \in DOMAIN Schema[t] |-> Emit(Schema[t][n], n, m.at[n])]) \o m.unknown

(***************************************************************************)
(* Signatures and encryption, of which only this is used: a hash is what   *)
(* is hashed, a signature names its key and what it is over, and a sealed  *)
(* text opens with the key and the additional data it was sealed with.     *)
(***************************************************************************)
Unsigned(m, sig) == [m EXCEPT !.at[sig] = IF @ = None THEN None ELSE <<>>]

\* The hashes of each signed type of message, and the fields of the hash's
\* name and of the signature.
Hashes(t) == IF t = "request" THEN {<<"x509+sha256">>, <<"x509+sha1">>} ELSE {<<"x509+sha256">>}
PkiType(t) == IF t = "request" THEN 2 ELSE 3
Signature(t) == IF t = "request" THEN 5 ELSE 7

\* MUTANT: the signature is left in what it signs.
DigestAll(t, m) ==
    IF m.at[PkiType(t)] \in Hashes(t) THEN <<m.at[PkiType(t)], Serialize(t, m)>> ELSE None

Digest(t, m) ==
    IF m.at[PkiType(t)] \in Hashes(t)
    THEN <<m.at[PkiType(t)], Serialize(t, Unsigned(m, Signature(t)))>>
    ELSE None

\* The shared key of two parties: one's private and the other's public key.
\* MUTANT: always with the receiver's public key.
ReceiversKey(m, private) == [keys |-> {private, m.at[3]}, nonce |-> m.at[5]]

EncryptedMessageCEK(m, private) ==
    LET public == IF private # m.at[3] THEN m.at[3] ELSE m.at[4]
    IN  [keys |-> {private, public}, nonce |-> m.at[5]]

\* The status code in decimals and the status message, which does not start
\* with a digit.
AdditionalData(m) == <<m.at[8], m.at[9]>>

Verify(m, public) ==
    m.at[6] = <<"signed", public, Serialize("encrypted", Unsigned(m, 6))>>

Decrypt(m, private) ==
    IF /\ Len(m.at[2]) = 4
       /\ m.at[2][2] = EncryptedMessageCEK(m, private)
       /\ m.at[2][3] = AdditionalData(m)
    THEN m.at[2][4] ELSE None

(***************************************************************************)
(* Making a message: the arguments in the order of the fields. An integer  *)
(* is always serialized, even if it is zero.                               *)
(***************************************************************************)
Made(fields) == [at |-> fields, unknown |-> <<>>]

NewOutput(amount, script) == Made(<<amount, script>>)

DetailsNew(a) ==
    Made([a EXCEPT ![2] = [i \in DOMAIN @ |-> NewOutput(@[i][1], @[i][2])]])

RequestNew(a) ==
    Made([a EXCEPT ![1] = IF @ = 0 THEN None ELSE @, ![4] = DetailsNew(@)])

PaymentNew(a) ==
    Made([a EXCEPT ![3] = [i \in DOMAIN @ |-> NewOutput(@[i][1], @[i][2])]])

ACKNew(a) == Made([a EXCEPT ![1] = PaymentNew(@)])

InvoiceRequestNew(a) == Made(a)

MessageNew(a) == Made(a)

\* The sixth argument is the one of the two parties whose private key is known.
EncryptedMessageNew(a) ==
    LET plain == Made([a EXCEPT ![2] = None, ![6] = None])
        sealed == [plain EXCEPT
            !.at[2] = <<"sealed", EncryptedMessageCEK(plain, a[6]), AdditionalData(plain), a[2]>>]
        over == Serialize("encrypted", [sealed EXCEPT !.at[6] = <<>>])
    IN  [sealed EXCEPT !.at[6] = <<"signed", a[6], over>>]

(***************************************************************************)
(* The way of a message.                                                   *)
(***************************************************************************)
MessageInit ==
    /\ type = None /\ source = <<>> /\ made = None /\ tampered = FALSE
    /\ wire = <<>> /\ msg = None /\ first = None /\ hops = 0

Sends(t, bytes, m) ==
    /\ type' = t
    /\ source' = bytes
    /\ wire' = bytes
    /\ made' = m
    /\ UNCHANGED <<tampered, msg, first, hops>>

Make(t, m) == Sends(t, Serialize(t, m), m)

MakeDetails == type = None /\ \E a \in Makes.details : Make("details", DetailsNew(a))
MakeRequest == type = None /\ \E a \in Makes.request : Make("request", RequestNew(a))
MakePayment == type = None /\ \E a \in Makes.payment : Make("payment", PaymentNew(a))
MakeACK == type = None /\ \E a \in Makes.ack : Make("ack", ACKNew(a))
MakeInvoiceRequest == type = None /\ \E a \in Makes.invoice : Make("invoice", InvoiceRequestNew(a))
MakeMessage == type = None /\ \E a \in Makes.message : Make("message", MessageNew(a))
MakeEncrypted == type = None /\ \E a \in Makes.encrypted : Make("encrypted", EncryptedMessageNew(a))

\* Another program sends any fields in any order.
SendForeign == type = None /\ \E t \in DOMAIN Wires : \E bytes \in Wires[t] : Sends(t, bytes, None)

\* It signs its own bytes, in which the signature is empty.
SendSigned ==
    type = None /\ \E t \in {"request", "invoice"} : \E bytes \in Wires[t] :
        \E p, s \in DOMAIN bytes :
            /\ bytes[p].key = 8 * PkiType(t) + LENDELIM /\ bytes[p].val \in Hashes(t)
            /\ bytes[s].key = 8 * Signature(t) + LENDELIM /\ bytes[s].val = <<>>
            /\ Sends(t, [bytes EXCEPT ![s].val = <<"signed", <<bytes[p].val, bytes>>>>], None)

\* Somebody writes another value into a message that was made here.
Tamper ==
    /\ type = "encrypted" /\ made # None /\ hops = 0 /\ ~tampered
    /\ \E i \in DOMAIN wire : \E v \in Changes[Num(wire[i])] :
        /\ v # wire[i].val
        /\ wire' = [wire EXCEPT ![i].val = v]
    /\ tampered' = TRUE
    /\ UNCHANGED <<type, source, made, msg, first, hops>>

Receive ==
    /\ type # None /\ msg = None /\ hops < MaxHops
    /\ msg' = Parse(type, wire)
    /\ first' = IF hops = 0 THEN msg' ELSE first
    /\ hops' = hops + 1
    /\ UNCHANGED <<type, source, made, tampered, wire>>

PassOn ==
    /\ msg # None /\ hops < MaxHops
    /\ wire' = Serialize(type, msg)
    /\ msg' = None
    /\ UNCHANGED <<type, source, made, tampered, first, hops>>

MessageNext ==
    \/ MakeDetails \/ MakeRequest \/ MakePayment \/ MakeACK
    \/ MakeInvoiceRequest \/ MakeMessage \/ MakeEncrypted
    \/ SendForeign \/ SendSigned \/ Tamper \/ Receive \/ PassOn

MessageSpec == MessageInit /\ [][MessageNext]_messageVars

-----------------------------------------------------------------------------
Received == msg # None

\* The bytes of a message in the one order in which Serialize writes it: each
\* known field once, of the right wire type and in order, repeated ones
\* together, and at most one unknown field, at the end.
RECURSIVE Canonical(_, _)
Canonical(t, bytes) ==
    LET known == {i \in DOMAIN bytes : Num(bytes[i]) \in DOMAIN Schema[t]}
        Kind(i) == Schema[t][Num(bytes[i])]
        Right(i) ==
            LET data == DataOf(bytes[i]) IN
            CASE Kind(i) \in {"int", "enum"} ->
                    bytes[i].key % 8 = VARINT /\ (Kind(i) = "enum" => bytes[i].val < EnumSize)
              [] Kind(i) \in {"details", "payment"} -> data # None /\ Canonical(Kind(i), data)
              [] Kind(i) = "outputs" ->
                    data # None /\ Canonical("output", data) /\ Parse("output", data) # None
              [] Kind(i) = "key" -> data \in Keys
              [] Kind(i) = "transactions" -> data \in Transactions
              [] OTHER -> data # None
    IN  /\ \A i \in known : Right(i) /\ \A j \in DOMAIN bytes : j < i =>
            /\ j \in known
            /\ \/ Num(bytes[j]) < Num(bytes[i])
               \/ Num(bytes[j]) = Num(bytes[i]) /\ Kind(i) \in Repeated
        /\ Cardinality(DOMAIN bytes \ known) <= 1

\* Passing a message on changes none of its known fields, whatever was parsed:
\* fields cut short, of the wrong type, repeated, or out of order; and what was
\* made is what every program gets to see, whichever fields were left out, zero
\* or empty (LWPaymentProtocol*New, Serialize and Parse).
KnownKept ==
    Received => msg.at = first.at /\ (made # None /\ ~tampered => msg = made)

\* No unknown field gets lost: its key and one of the values it came with is
\* passed on by every program, and the last value by the first one, or by all
\* of them if it came with one value only (_ProtoBufUnknown).
UnknownKept ==
    Received /\ ~tampered =>
        LET new == {i \in DOMAIN source : Num(source[i]) \notin DOMAIN Schema[type]}
            last == {i \in new : \A j \in new : j > i => source[j].key # source[i].key}
        IN  /\ \A i \in new : \E j \in DOMAIN msg.unknown : msg.unknown[j].key = source[i].key
            /\ \A j \in DOMAIN msg.unknown : \E i \in new : source[i] = msg.unknown[j]
            /\ (hops = 1 \/ last = new) =>
                \A i \in last : \E j \in DOMAIN msg.unknown : msg.unknown[j] = source[i]

\* What a message says is the same to every program it passes through (LWPaymentProtocol*Parse, Serialize).
FieldsKept == KnownKept /\ UnknownKept

\* Every program finds the hash that was signed by the one that made the
\* request, as long as that one writes its fields in that order
\* (LWPaymentProtocolRequestDigest, LWPaymentProtocolInvoiceRequestDigest).
SignatureHolds ==
    Received /\ type \in {"request", "invoice"} /\ Canonical(type, source) =>
        LET signature == msg.at[Signature(type)]
        IN  (signature # None /\ Len(signature) = 2) => Digest(type, msg) = signature[2]

\* An encrypted message verifies with the key of the party that made it, and
\* both parties, and nobody else, read the text; if a field was changed on the
\* way it does not verify (LWPaymentProtocolEncryptedMessageVerify, Decrypt).
Opens ==
    Received /\ type = "encrypted" /\ made # None =>
        /\ Verify(msg, made.at[6][2]) <=> msg.at = made.at
        /\ ~tampered => \A k \in Keys : Decrypt(msg, k) =
            IF k \in {made.at[3], made.at[4]} THEN made.at[2][4] ELSE None

\* What was signed is what is verified and what was sealed is what is read, by every program that
\* a message passes through (LWPaymentProtocol*Digest, Verify, Decrypt).
SignedAndSealed == SignatureHolds /\ Opens
=============================================================================
