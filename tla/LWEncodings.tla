---------------------------- MODULE LWEncodings ----------------------------
(* What people write down and type again: addresses, and the phrase of a   *)
(* wallet's seed. It is written, mistakes are made, and it is read.        *)
EXTENDS LWBase58, LWBech32, LWBIP39Mnemonic

CONSTANTS
    Prefix,         \* of a bech32 address, as codes of letters
    Programs,       \* witness programs: [ver, bytes]
    Payloads,       \* bytes that are written in base58
    Entropies,      \* bytes that are written as a phrase
    Typos           \* what may be typed in place of a symbol: [code -> set]

VARIABLES
    written,        \* [code, what]: what was written, in which of the three ways
    symbols,        \* the text
    slip,           \* the mistake made in it
    entered         \* what is read of it: <<>> if it is refused

encodingVars == <<written, symbols, slip, entered>>

Unwritten == [code |-> "", what |-> <<>>]

Text(code, what) ==
    CASE code = "base58" -> Base58CheckEncode(what)
      [] code = "bech32" -> Bech32Encode(Prefix, what[1])
      [] code = "phrase" -> LWBIP39Encode(what)

Read(code, s) ==
    CASE code = "base58" -> Base58CheckDecode(s)
      [] code = "bech32" -> Bech32Decode(Prefix, s)
      [] code = "phrase" -> LWBIP39Decode(s)

EncodingInit == written = Unwritten /\ symbols = <<>> /\ slip = "none" /\ entered = <<>>

Write(code, what) ==
    /\ written = Unwritten
    /\ written' = [code |-> code, what |-> what]
    /\ symbols' = Text(code, what)
    /\ entered' = Read(code, symbols')
    /\ UNCHANGED slip

Slip(kind, s) ==
    /\ written # Unwritten /\ slip = "none" /\ s # symbols
    /\ symbols' = s /\ slip' = kind
    /\ entered' = Read(written.code, s)
    /\ UNCHANGED written

Mistype(i, x) == Slip("mistyped", [symbols EXCEPT ![i] = x])
Swap(i) == Slip("swapped", [symbols EXCEPT ![i] = symbols[i + 1], ![i + 1] = symbols[i]])
LeaveOut(i) == Slip("left out", RemoveAt(symbols, i))
PutIn(i, x) == Slip("put in", InsertAt(symbols, i, x))

EncodingNext ==
    \/ \E w \in Programs : Write("bech32", <<w>>)
    \/ \E b \in Payloads : Write("base58", b)
    \/ \E b \in Entropies : Write("phrase", b)
    \/ /\ slip = "none"
       /\ \E i \in DOMAIN symbols :
            \/ \E x \in Typos[written.code] : Mistype(i, x) \/ PutIn(i, x)
            \/ i < Len(symbols) /\ Swap(i)
            \/ LeaveOut(i)

-----------------------------------------------------------------------------
(* A payment goes to the address that was written, and a wallet is         *)
(* restored from the seed that it was made with: what is read of a text as *)
(* it was written is what was written, for bytes whose bits end anywhere   *)
(* in a digit or a word, and with leading zeroes. A text with a mistake    *)
(* that is read all the same is how that what was read is written (but for *)
(* base58, of which what follows a character that is no digit is not read);*)
(* and a bech32 address with one or two wrong digits is refused.           *)
ReadBack ==
    /\ slip = "none" => entered = written.what
    /\ entered # <<>> /\ (written.code = "base58" => \A i \in DOMAIN symbols : symbols[i] < 58) =>
        Text(written.code, entered) = symbols
    /\ written.code = "bech32" /\ slip \in {"mistyped", "swapped"} => entered = <<>>
=============================================================================
