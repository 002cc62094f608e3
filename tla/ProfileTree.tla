----------------------------- MODULE ProfileTree -----------------------------
(* The profile as a sparse Merkle tree of slots (hash.rs, tree.rs), and the  *)
(* proofs it mints and their stand-alone verification (proof.rs).  Hashing   *)
(* is symbolic: a digest is the preimage it hashes.  The node rules are the  *)
(* sparse-merkle-tree crate's, as the source describes them: a branch hashes *)
(* its height, its key prefix and its children, and an all-zero subtree has  *)
(* the zero digest.                                                          *)
EXTENDS Integers, Sequences

CONSTANTS
    Slots,      \* slot ids
    Height,     \* bound: bits of a slot key (256 in the code)
    KeyBits,    \* KeyBits[s]: the slot's key, most significant bit first
    Blobs,      \* encoded values: a header, then a payload that may be empty
    BareHeader  \* the encoding of a value with an empty payload

EmptyBlob == "empty"
Encodings == Blobs \cup {EmptyBlob}
Prefixes(n) == [1..n -> {0, 1}]

\* SlotId::key is injective; no value has the empty encoding.
ASSUME TreeAssumption ==
    /\ Height \in Nat \ {0}
    /\ KeyBits \in [Slots -> Prefixes(Height)]
    /\ \A s1, s2 \in Slots : KeyBits[s1] = KeyBits[s2] => s1 = s2
    /\ EmptyBlob \notin Blobs
    /\ BareHeader \in Blobs

ZeroDigest == <<>>

\* Mutant of HashLeafValue: an empty payload counts as an absent slot.
HashPayload(slot, encoded) ==
    IF encoded \in {EmptyBlob, BareHeader} THEN ZeroDigest
    ELSE <<"leaf", slot, encoded>>

HashLeafValue(slot, encoded) ==
    IF encoded = EmptyBlob THEN ZeroDigest ELSE <<"leaf", slot, encoded>>

Merge(prefix, left, right) ==
    IF left = ZeroDigest /\ right = ZeroDigest THEN ZeroDigest
    ELSE <<"node", prefix, left, right>>

EmptyTree == [s \in Slots |-> EmptyBlob]

\* Levels(leaves)[h] maps each prefix of Height - h bits to the digest of
\* the subtree of the keys that begin with it.
Levels(leaves) ==
    LET level[h \in 0..Height] ==
            IF h = 0
            THEN [key \in Prefixes(Height) |->
                    IF \E s \in Slots : KeyBits[s] = key
                    THEN LET s == CHOOSE s \in Slots : KeyBits[s] = key
                         IN  HashLeafValue(s, leaves[s])
                    ELSE ZeroDigest]
            ELSE [prefix \in Prefixes(Height - h) |->
                    Merge(prefix, level[h - 1][Append(prefix, 0)],
                                  level[h - 1][Append(prefix, 1)])]
    IN  level

Root(leaves) == Levels(leaves)[Height][<<>>]

\* The path of a slot's key, h levels above the leaf.
PathAt(slot, h) == SubSeq(KeyBits[slot], 1, Height - h)
BitAt(slot, h) == KeyBits[slot][Height - h + 1]

\* Mutant of Prove: each sibling is taken one level too high.
ProveShifted(leaves, slot) ==
    [h \in 1..Height |->
        Levels(leaves)[IF h < Height THEN h ELSE h - 1]
            [IF h < Height
             THEN Append(PathAt(slot, h + 1), 1 - BitAt(slot, h + 1))
             ELSE Append(PathAt(slot, h), 1 - BitAt(slot, h))]]

\* A proof is the sibling digest at each height above the slot's leaf.
Prove(leaves, slot) ==
    [h \in 1..Height |->
        Levels(leaves)[h - 1][Append(PathAt(slot, h), 1 - BitAt(slot, h))]]

\* The root that a leaf digest at the slot's key and a proof fold up to.
Reconstruct(slot, leafHash, proof) ==
    LET fold[h \in 0..Height] ==
            IF h = 0 THEN leafHash
            ELSE IF BitAt(slot, h) = 0
            THEN Merge(PathAt(slot, h), fold[h - 1], proof[h])
            ELSE Merge(PathAt(slot, h), proof[h], fold[h - 1])
    IN  fold[Height]

VerifyLeaf(root, slot, leafHash, proof) ==
    Reconstruct(slot, leafHash, proof) = root

VerifyMembership(root, slot, value, proof) ==
    VerifyLeaf(root, slot, HashLeafValue(slot, value), proof)

VerifyNonMembership(root, slot, proof) ==
    VerifyLeaf(root, slot, ZeroDigest, proof)
=============================================================================
