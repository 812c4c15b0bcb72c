--------------------------- MODULE LWMerkleBlock ---------------------------
(* A merkleblock: a header, and the part of the tree of its transactions   *)
(* that leads to those that match the filter. LWMerkleBlockIsValid walks   *)
(* it for the root, LWMerkleBlockTxHashes for what matched.                *)
(*                                                                         *)
(* A hash is what is hashed: <<i>> is that of the i-th transaction of the  *)
(* block, <<h, g>> that of two hashes, <<>> is UINT256_ZERO. A hash of     *)
(* work is a number of WorkLen bytes of Base values (32 and 256).          *)
EXTENDS Integers, Sequences, SequencesExt, FiniteSets

CONSTANTS
    MaxTx,          \* bound: transactions in a block
    Wrong,          \* what a peer that errs sends: the true number of transactions
                    \* n, the stated one totalTx, any of the flags, any of the hashes
    Base, WorkLen,
    MaxSize, MaxTarget,     \* MAX_PROOF_OF_WORK: 0x1e and 0x0fffff
    Drift                   \* BLOCK_MAX_TIME_DRIFT

ASSUME MerkleAssumption ==
    /\ MaxTx \in Nat /\ Drift \in Nat
    /\ Base \in Nat /\ Base % 2 = 0 /\ Base > 0
    /\ WorkLen \in Nat /\ MaxSize \in 3 .. WorkLen - 1

VARIABLES
    block,          \* the block that came, with what its sender knows of it
    check           \* what LWMerkleBlockIsValid and TxHashes return for it

merkleVars == <<block, check>>

Zero == <<>>
Absent == [n |-> 0]

(***************************************************************************)
(* What a peer does: the true tree, and the part of it that it sends.      *)
(***************************************************************************)
Width(n, level) == (n + 2^level - 1) \div 2^level
Height(n) == CHOOSE l \in 0 .. n : Width(n, l) = 1 /\ \A k \in 0 .. l - 1 : Width(n, k) > 1

RECURSIVE Node(_, _, _), Part(_, _, _, _)
Node(n, level, p) ==
    IF level = 0 THEN <<p + 1>>
    ELSE LET left == Node(n, level - 1, 2 * p)
         IN  IF 2 * p + 1 < Width(n, level - 1)
             THEN <<left, Node(n, level - 1, 2 * p + 1)>>
             ELSE <<left, left>>

MerkleRoot(n) == Node(n, Height(n), 0)

\* A bit for each node on the way, whether something below it matches; the
\* hash of each node below which nothing does, and of each transaction.
Part(n, matches, level, p) ==
    LET below == {i \in matches : (i - 1) \div 2^level = p}
        Child(q) == IF q < Width(n, level - 1) THEN Part(n, matches, level - 1, q)
                    ELSE [flags |-> <<>>, hashes |-> <<>>]
    IN  IF level = 0 \/ below = {}
        THEN [flags |-> <<below # {}>>, hashes |-> <<Node(n, level, p)>>]
        ELSE [flags |-> <<TRUE>> \o Child(2 * p).flags \o Child(2 * p + 1).flags,
              hashes |-> Child(2 * p).hashes \o Child(2 * p + 1).hashes]

\* Flags come in whole bytes.
InBytes(flags) == flags \o [i \in 1 .. (-Len(flags)) % 8 |-> FALSE]

(***************************************************************************)
(* The walks. Both take the next flag, and a hash where it is a leaf or    *)
(* nothing below matches; at is where they are in the flags and hashes.    *)
(***************************************************************************)
_ceil_log2(x) ==
    LET r == CHOOSE k \in 0 .. x : 2^k <= x /\ x < 2^(k + 1)
    IN  IF 2^r = x THEN r ELSE r + 1

Start == [hash |-> 0, flag |-> 0]
SIZE_MAX == 99      \* more than any count of hashes

More(b, at) == at.flag < Len(b.flags) /\ at.hash < Len(b.hashes)

IsLeaf(b, at, depth) == ~b.flags[at.flag + 1] \/ depth = _ceil_log2(b.totalTx)

NextFlag(at) == [at EXCEPT !.flag = @ + 1]

NextHash(at) == [flag |-> at.flag + 1, hash |-> at.hash + 1]

RECURSIVE RootR(_, _, _), TxHashesR(_, _, _)

\* MUTANT: siblings that are equal are hashed like any others.
PairEqual(left, right) ==
    IF left = Zero THEN Zero
    ELSE IF right = Zero THEN <<left, left>> ELSE <<left, right>>

\* A missing right branch is the left one again; two equal ones are refused.
Pair(left, right) ==
    IF left = Zero \/ left = right THEN Zero
    ELSE IF right = Zero THEN <<left, left>> ELSE <<left, right>>

RootR(b, at, depth) ==
    IF ~More(b, at) THEN [md |-> Zero, at |-> at]
    ELSE IF IsLeaf(b, at, depth) THEN [md |-> b.hashes[at.hash + 1], at |-> NextHash(at)]
    ELSE LET left == RootR(b, NextFlag(at), depth + 1)
             right == RootR(b, left.at, depth + 1)
             md == Pair(left.md, right.md)
         IN  [md |-> md,
              at |-> IF md = Zero THEN [right.at EXCEPT !.hash = SIZE_MAX] ELSE right.at]

TxHashesR(b, at, depth) ==
    IF ~More(b, at) THEN [txs |-> <<>>, at |-> at]
    ELSE IF IsLeaf(b, at, depth)
    THEN [txs |-> IF b.flags[at.flag + 1] THEN <<b.hashes[at.hash + 1]>> ELSE <<>>,
          at |-> NextHash(at)]
    ELSE LET left == TxHashesR(b, NextFlag(at), depth + 1)
             right == TxHashesR(b, left.at, depth + 1)
         IN  [txs |-> left.txs \o right.txs, at |-> right.at]

TxHashes(b) == TxHashesR(b, Start, 0).txs

(***************************************************************************)
(* The target: a size in bytes and the three highest of them, the first of *)
(* which has a sign.                                                       *)
(***************************************************************************)
Sign(target) == target \div Base^2 >= Base \div 2

\* The bytes of t, the lowest first: the target put at size - 3, or cut.
\* MUTANT: a size below three is not cut.
TargetUncut(size, target) ==
    LET low == IF size > 3 THEN size - 3 ELSE 0
    IN  [i \in 1 .. WorkLen |->
            IF i > low THEN (target \div Base^(i - low - 1)) % Base ELSE 0]

TargetBytes(size, target) ==
    LET low == IF size > 3 THEN size - 3 ELSE 0
        t == IF size > 3 THEN target ELSE target \div Base^(3 - size)
    IN  [i \in 1 .. WorkLen |-> IF i > low THEN (t \div Base^(i - low - 1)) % Base ELSE 0]

\* Compared from the highest byte down, to the first that differs.
Works(pow, t) ==
    \A i \in 1 .. WorkLen : pow[i] > t[i] => \E j \in i + 1 .. WorkLen : pow[j] < t[j]

\* LWMerkleBlockIsValid; late is by how much the timestamp is after the
\* current time.
IsValid(b) ==
    /\ b.totalTx > 0 => RootR(b, Start, 0).md = b.merkleRoot
    /\ b.late <= Drift
    /\ b.target # 0 /\ ~Sign(b.target)
    /\ b.size < MaxSize \/ (b.size = MaxSize /\ b.target <= MaxTarget)
    /\ Works(b.pow, TargetBytes(b.size, b.target))

(***************************************************************************)
(* A block comes and is checked.                                           *)
(***************************************************************************)
MerkleInit == block = Absent /\ check = Absent

\* A header that has work enough.
Solved == [size |-> MaxSize, target |-> MaxTarget, late |-> 0,
           pow |-> [i \in 1 .. WorkLen |-> 0]]

Comes(sender, n, matches, totalTx, part, header) ==
    /\ block' = [sender |-> sender, n |-> n, matches |-> matches, totalTx |-> totalTx,
                 flags |-> InBytes(part.flags), hashes |-> part.hashes,
                 merkleRoot |-> MerkleRoot(n),
                 size |-> header.size, target |-> header.target,
                 late |-> header.late, pow |-> header.pow]
    /\ UNCHANGED check

\* A peer sends the part of a block that matches.
PeerMatches ==
    block = Absent /\ \E n \in 1 .. MaxTx : \E matches \in SUBSET (1 .. n) :
        Comes("matches", n, matches, n, Part(n, matches, Height(n), 0), Solved)

\* A peer sends other flags and hashes for a header with the root of a tree.
PeerErrs ==
    block = Absent /\ \E w \in Wrong : \E flags \in w.flags, hashes \in w.hashes :
        Comes("errs", w.n, {}, w.totalTx, [flags |-> flags, hashes |-> hashes], Solved)

\* A header comes with any target, time and work; its size stays within the
\* 32 bytes of the target.
HeaderComes ==
    block = Absent /\ \E size \in 0 .. WorkLen - 1, target \in 0 .. Base^3 - 1, late \in 0 .. Drift + 1,
       pow \in [1 .. WorkLen -> 0 .. Base - 1] :
        Comes("header", 1, {}, 0, [flags |-> <<>>, hashes |-> <<>>],
              [size |-> size, target |-> target, late |-> late, pow |-> pow])

Check ==
    /\ block # Absent /\ check = Absent
    /\ check' = [valid |-> IsValid(block), txs |-> TxHashes(block)]
    /\ UNCHANGED block

MerkleNext == PeerMatches \/ PeerErrs \/ HeaderComes \/ Check

-----------------------------------------------------------------------------
Checked(sender) == check # Absent /\ block.sender = sender

InOrder(txs) == \A i, j \in DOMAIN txs : i < j => txs[i][1] < txs[j][1]

\* From what a peer sends of a block of any size and any matches, the client
\* finds the root again and exactly what matches, in the block's order
\* (LWMerkleBlockIsValid and LWMerkleBlockTxHashes).
MatchesFound ==
    Checked("matches") =>
        /\ check.valid
        /\ ToSet(check.txs) = {<<t>> : t \in block.matches}
        /\ InOrder(check.txs)

\* Of a block that is valid, and whose tree is as high as the peer says, every
\* transaction reported is one of the block, once and in the block's order,
\* unless the walk for the root was refused somewhere.
MatchesSound ==
    Checked("errs") /\ check.valid /\ RootR(block, Start, 0).at.hash # SIZE_MAX =>
        /\ \A i \in DOMAIN check.txs : \E t \in 1 .. block.n : check.txs[i] = <<t>>
        /\ InOrder(check.txs)

\* What a merkle block reports is what matched and nothing else, from an honest
\* peer and from any other one (LWMerkleBlockTxHashes).
MatchesExact == MatchesFound /\ MatchesSound

\* A header is valid exactly if it is not too far in the future, the number
\* that its compact target stands for is positive and at most the highest one
\* allowed, in no more bytes than that one, and the number its work is stays
\* within it (LWMerkleBlockIsValid).
WorkMet ==
    Checked("header") =>
        LET Value(bytes) == FoldLeft(LAMBDA v, d : v * Base + d, 0, Reverse(bytes))
            Number(size, target) == IF size >= 3 THEN target * Base^(size - 3)
                                    ELSE target \div Base^(3 - size)
        IN  check.valid <=>
                /\ block.late <= Drift
                /\ block.target \in 1 .. Base^3 \div 2 - 1
                /\ block.size <= MaxSize
                /\ Number(block.size, block.target) <= Number(MaxSize, MaxTarget)
                /\ Value(block.pow) <= Number(block.size, block.target)
=============================================================================
