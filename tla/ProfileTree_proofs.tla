-------------------------- MODULE ProfileTree_proofs --------------------------
(* Theorems about ProfileTree and the two modules that use it, TreeProofs    *)
(* and IdentityHandle: for every set of slots, blobs and stores, every       *)
(* height of the tree and every assignment of keys.                          *)
EXTENDS TreeProofs, IdentityHandle, DataInduction, SequenceTheorems

\* The two cases of the recursion in Levels, and the recursion up to level n.
LeafLevel(leaves) ==
    [key \in Prefixes(Height) |->
        IF \E s \in Slots : KeyBits[s] = key
        THEN LET s == CHOOSE s \in Slots : KeyBits[s] = key
             IN  HashLeafValue(s, leaves[s])
        ELSE ZeroDigest]

BranchLevel(below, h) ==
    [prefix \in Prefixes(Height - h) |->
        Merge(prefix, below[Append(prefix, 0)], below[Append(prefix, 1)])]

IsLevels(level, leaves, n) ==
    level = [h \in 0..n |-> IF h = 0 THEN LeafLevel(leaves)
                            ELSE BranchLevel(level[h - 1], h)]

\* The recursion that defines Levels has a solution: a table of n - 1 levels
\* extends to one of n.
LEMMA LevelsExist ==
    ASSUME NEW leaves
    PROVE  \E level : IsLevels(level, leaves, Height)
  <1> DEFINE S == {n \in 0..Height : \E level : IsLevels(level, leaves, n)}
  <1>0. Height \in Nat
    BY TreeAssumption DEF TreeAssumption
  <1>1. 0 \in S
    <2>1. IsLevels([h \in 0..0 |-> LeafLevel(leaves)], leaves, 0)
      BY DEF IsLevels
    <2> QED  BY <1>0, <2>1
  <1>2. ASSUME NEW n \in 1..Height, n - 1 \in S PROVE n \in S
    <2>1. PICK f : IsLevels(f, leaves, n - 1)
      BY <1>2
    <2> DEFINE g == [h \in 0..n |-> IF h = n THEN BranchLevel(f[n - 1], n)
                                    ELSE f[h]]
    <2>2. IsLevels(g, leaves, n)
      <3>1. ASSUME NEW h \in 0..n
            PROVE  g[h] = IF h = 0 THEN LeafLevel(leaves)
                          ELSE BranchLevel(g[h - 1], h)
        <4>1. CASE h = n
          <5>1. h # 0 /\ h - 1 \in 0..n /\ h - 1 # n
            BY <4>1
          <5> QED  BY <4>1, <5>1
        <4>2. CASE h # n
          <5>1. h \in 0..n - 1
            BY <4>2
          <5>2. f[h] = IF h = 0 THEN LeafLevel(leaves)
                       ELSE BranchLevel(f[h - 1], h)
            BY <2>1, <5>1 DEF IsLevels
          <5>3. h # 0 => h - 1 \in 0..n /\ h - 1 # n
            BY <5>1
          <5> QED  BY <4>2, <5>2, <5>3
        <4> QED  BY <4>1, <4>2
      <3>2. DOMAIN g = 0..n /\ g = [h \in DOMAIN g |-> g[h]]
        OBVIOUS
      <3> HIDE DEF g
      <3> QED  BY <3>1, <3>2 DEF IsLevels
    <2> QED  BY <2>2
  <1>3. 0..Height \subseteq S
    <2> HIDE DEF S
    <2> QED  BY <1>0, <1>1, <1>2, Upward
  <1> QED  BY <1>0, <1>3

\* Levels obeys its recursion.
LEMMA LevelsDef ==
    ASSUME NEW leaves
    PROVE  /\ Levels(leaves)[0] = LeafLevel(leaves)
           /\ \A h \in 1..Height :
                Levels(leaves)[h] = BranchLevel(Levels(leaves)[h - 1], h)
  <1>1. Levels(leaves) = CHOOSE level : IsLevels(level, leaves, Height)
    BY DEF Levels, IsLevels, LeafLevel, BranchLevel
  <1>2. IsLevels(Levels(leaves), leaves, Height)
    BY <1>1, LevelsExist
  <1>3. Height \in Nat
    BY TreeAssumption DEF TreeAssumption
  <1> HIDE DEF Levels
  <1> QED  BY <1>2, <1>3 DEF IsLevels

----------------------------------------------------------------------------
\* A prefix of n bits is a sequence of that length; a bit extends it.
LEMMA PrefixesAreSequences ==
    ASSUME NEW n \in Nat
    PROVE  /\ Prefixes(n) = {p \in Seq({0, 1}) : Len(p) = n}
           /\ \A p \in Prefixes(n) : \A bit \in {0, 1} :
                Append(p, bit) \in Prefixes(n + 1)
  <1>1. \A m \in Nat : Prefixes(m) = {p \in Seq({0, 1}) : Len(p) = m}
    BY SeqDef DEF Prefixes
  <1>2. ASSUME NEW p \in Prefixes(n), NEW bit \in {0, 1}
        PROVE  Append(p, bit) \in Prefixes(n + 1)
    <2>1. p \in Seq({0, 1}) /\ Len(p) = n
      BY <1>1
    <2>2. Append(p, bit) \in Seq({0, 1}) /\ Len(Append(p, bit)) = n + 1
      BY <2>1
    <2>3. n + 1 \in Nat
      OBVIOUS
    <2> QED  BY <1>1, <2>2, <2>3
  <1> QED  BY <1>1, <1>2

\* A slot's path runs from its whole key to the empty prefix, one bit a level.
LEMMA PathFacts ==
    ASSUME NEW slot \in Slots
    PROVE  /\ PathAt(slot, 0) = KeyBits[slot]
           /\ PathAt(slot, Height) = <<>>
           /\ \A h \in 0..Height : PathAt(slot, h) \in Prefixes(Height - h)
           /\ \A h \in 1..Height :
                /\ BitAt(slot, h) \in {0, 1}
                /\ PathAt(slot, h - 1) = Append(PathAt(slot, h), BitAt(slot, h))
  <1> DEFINE key == KeyBits[slot]
  <1>0. Height \in Nat \ {0} /\ key \in Prefixes(Height)
    BY TreeAssumption DEF TreeAssumption
  <1>1. key \in Seq({0, 1}) /\ Len(key) = Height
    BY <1>0, PrefixesAreSequences
  <1>2. PathAt(slot, 0) = key
    BY <1>0, <1>1, SubSeqFull DEF PathAt
  <1>3. PathAt(slot, Height) = <<>>
    BY <1>0, SubSeqEmpty DEF PathAt
  <1>4. \A h \in 0..Height : PathAt(slot, h) \in Prefixes(Height - h)
    <2> SUFFICES ASSUME NEW h \in 0..Height
                 PROVE  PathAt(slot, h) \in Prefixes(Height - h)
      OBVIOUS
    <2>1. /\ Height - h \in Nat /\ Height - h \in Int
          /\ \A i \in 1..Height - h : key[i] \in {0, 1}
      BY <1>0, <1>1
    <2>2. /\ SubSeq(key, 1, Height - h) \in Seq({0, 1})
          /\ Len(SubSeq(key, 1, Height - h)) = Height - h
      <3> HIDE DEF key
      <3> QED  BY <2>1, <1>0, <1>1
    <2> QED  BY <2>1, <2>2, PrefixesAreSequences DEF PathAt
  <1>5. ASSUME NEW h \in 1..Height
        PROVE  /\ BitAt(slot, h) \in {0, 1}
               /\ PathAt(slot, h - 1) = Append(PathAt(slot, h), BitAt(slot, h))
    BY <1>0, <1>1 DEF PathAt, BitAt
  <1> QED  BY <1>2, <1>3, <1>4, <1>5

\* At one prefix, a branch digest commits to both its children: an absent
\* subtree included, as only two absent children make an absent one.
LEMMA MergeInjective ==
    ASSUME NEW p, NEW l, NEW r, NEW l2, NEW r2,
           Merge(p, l, r) = Merge(p, l2, r2)
    PROVE  l = l2 /\ r = r2
  BY DEF Merge, ZeroDigest

\* A slot's leaf digest commits to what the slot holds, absence included.
LEMMA LeafInjective ==
    ASSUME NEW slot, NEW a \in Encodings, NEW b \in Encodings,
           HashLeafValue(slot, a) = HashLeafValue(slot, b)
    PROVE  a = b
  BY DEF HashLeafValue, ZeroDigest

----------------------------------------------------------------------------
\* A level's digest at a prefix merges those of the prefix's two extensions.
LEMMA LevelAtBranch ==
    ASSUME NEW leaves, NEW h \in 1..Height, NEW prefix \in Prefixes(Height - h)
    PROVE  /\ Levels(leaves)[h][prefix] =
                Merge(prefix, Levels(leaves)[h - 1][Append(prefix, 0)],
                              Levels(leaves)[h - 1][Append(prefix, 1)])
           /\ \A bit \in {0, 1} : Append(prefix, bit) \in Prefixes(Height - (h - 1))
  <1>1. Levels(leaves)[h] = BranchLevel(Levels(leaves)[h - 1], h)
    BY LevelsDef
  <1>2. /\ Height - h \in Nat /\ Height - h + 1 = Height - (h - 1)
    BY TreeAssumption DEF TreeAssumption
  <1> QED  BY <1>1, <1>2, PrefixesAreSequences DEF BranchLevel

\* At a slot's whole key, the lowest level has the slot's leaf digest.
LEMMA LevelAtLeaf ==
    ASSUME NEW leaves, NEW slot \in Slots
    PROVE  Levels(leaves)[0][KeyBits[slot]] = HashLeafValue(slot, leaves[slot])
  <1>1. /\ KeyBits[slot] \in Prefixes(Height)
        /\ \A s \in Slots : KeyBits[s] = KeyBits[slot] => s = slot
    BY TreeAssumption DEF TreeAssumption
  <1>2. (CHOOSE s \in Slots : KeyBits[s] = KeyBits[slot]) = slot
    BY <1>1
  <1>3. LeafLevel(leaves)[KeyBits[slot]] = HashLeafValue(slot, leaves[slot])
    BY <1>1, <1>2, Zenon DEF LeafLevel
  <1> QED  BY <1>3, LevelsDef

\* A node on a slot's path merges the path's next node and a sibling.
LEMMA LevelOnPath ==
    ASSUME NEW leaves, NEW slot \in Slots, NEW h \in 1..Height
    PROVE  LET here    == Levels(leaves)[h - 1][PathAt(slot, h - 1)]
               sibling == Levels(leaves)[h - 1]
                             [Append(PathAt(slot, h), 1 - BitAt(slot, h))]
           IN  Levels(leaves)[h][PathAt(slot, h)] =
                IF BitAt(slot, h) = 0 THEN Merge(PathAt(slot, h), here, sibling)
                ELSE Merge(PathAt(slot, h), sibling, here)
  <1>1. /\ PathAt(slot, h) \in Prefixes(Height - h)
        /\ BitAt(slot, h) \in {0, 1}
        /\ PathAt(slot, h - 1) = Append(PathAt(slot, h), BitAt(slot, h))
    <2>1. h \in 0..Height
      BY TreeAssumption DEF TreeAssumption
    <2> QED  BY <2>1, PathFacts
  <1>2. Levels(leaves)[h][PathAt(slot, h)] =
            Merge(PathAt(slot, h), Levels(leaves)[h - 1][Append(PathAt(slot, h), 0)],
                                   Levels(leaves)[h - 1][Append(PathAt(slot, h), 1)])
    BY <1>1, LevelAtBranch
  <1>3. CASE BitAt(slot, h) = 0
    <2>1. 1 - BitAt(slot, h) = 1
      BY <1>3
    <2> QED  BY <1>1, <1>2, <1>3, <2>1
  <1>4. CASE BitAt(slot, h) = 1
    <2>1. 1 - BitAt(slot, h) = 0 /\ 1 # 0
      BY <1>4
    <2> QED  BY <1>1, <1>2, <1>4, <2>1
  <1> QED  BY <1>1, <1>3, <1>4

----------------------------------------------------------------------------
\* One step of the recursion in Reconstruct, and the recursion up to level n.
FoldStep(slot, h, below, sibling) ==
    IF BitAt(slot, h) = 0 THEN Merge(PathAt(slot, h), below, sibling)
    ELSE Merge(PathAt(slot, h), sibling, below)

IsFold(fold, slot, leafHash, path, n) ==
    fold = [h \in 0..n |-> IF h = 0 THEN leafHash
                           ELSE FoldStep(slot, h, fold[h - 1], path[h])]

\* The recursion that defines Reconstruct has a solution.
LEMMA FoldExists ==
    ASSUME NEW slot, NEW leafHash, NEW path
    PROVE  \E fold : IsFold(fold, slot, leafHash, path, Height)
  <1> DEFINE S == {n \in 0..Height : \E fold : IsFold(fold, slot, leafHash, path, n)}
  <1>0. Height \in Nat
    BY TreeAssumption DEF TreeAssumption
  <1>1. 0 \in S
    <2>1. IsFold([h \in 0..0 |-> leafHash], slot, leafHash, path, 0)
      BY DEF IsFold
    <2> QED  BY <1>0, <2>1
  <1>2. ASSUME NEW n \in 1..Height, n - 1 \in S PROVE n \in S
    <2>1. PICK f : IsFold(f, slot, leafHash, path, n - 1)
      BY <1>2
    <2> DEFINE g == [h \in 0..n |-> IF h = n THEN FoldStep(slot, n, f[n - 1], path[n])
                                    ELSE f[h]]
    <2>2. IsFold(g, slot, leafHash, path, n)
      <3>1. ASSUME NEW h \in 0..n
            PROVE  g[h] = IF h = 0 THEN leafHash
                          ELSE FoldStep(slot, h, g[h - 1], path[h])
        <4>1. CASE h = n
          <5>1. h # 0 /\ h - 1 \in 0..n /\ h - 1 # n
            BY <4>1
          <5> QED  BY <4>1, <5>1
        <4>2. CASE h # n
          <5>1. h \in 0..n - 1
            BY <4>2
          <5>2. f[h] = IF h = 0 THEN leafHash
                       ELSE FoldStep(slot, h, f[h - 1], path[h])
            BY <2>1, <5>1 DEF IsFold
          <5>3. h # 0 => h - 1 \in 0..n /\ h - 1 # n
            BY <5>1
          <5> QED  BY <4>2, <5>2, <5>3
        <4> QED  BY <4>1, <4>2
      <3>2. DOMAIN g = 0..n /\ g = [h \in DOMAIN g |-> g[h]]
        OBVIOUS
      <3> HIDE DEF g
      <3> QED  BY <3>1, <3>2 DEF IsFold
    <2> QED  BY <2>2
  <1>3. 0..Height \subseteq S
    <2> HIDE DEF S
    <2> QED  BY <1>0, <1>1, <1>2, Upward
  <1> QED  BY <1>0, <1>3

\* Reconstruct folds one sibling a level into the leaf digest.
LEMMA ReconstructDef ==
    ASSUME NEW slot, NEW leafHash, NEW path
    PROVE  \E fold : /\ fold[0] = leafHash
                     /\ \A h \in 1..Height :
                            fold[h] = FoldStep(slot, h, fold[h - 1], path[h])
                     /\ Reconstruct(slot, leafHash, path) = fold[Height]
  <1> DEFINE fold == CHOOSE f : IsFold(f, slot, leafHash, path, Height)
  <1>1. Reconstruct(slot, leafHash, path) = fold[Height]
    BY DEF Reconstruct, IsFold, FoldStep
  <1>2. IsFold(fold, slot, leafHash, path, Height)
    BY FoldExists
  <1>3. Height \in Nat
    BY TreeAssumption DEF TreeAssumption
  <1> HIDE DEF fold
  <1>4. fold[0] = leafHash
    BY <1>2, <1>3 DEF IsFold
  <1>5. \A h \in 1..Height : fold[h] = FoldStep(slot, h, fold[h - 1], path[h])
    BY <1>2, <1>3 DEF IsFold
  <1> QED  BY <1>1, <1>4, <1>5

----------------------------------------------------------------------------
\* Whatever is taken for a proof, of whatever origin: a leaf digest that folds
\* up to the root is the tree's own, since at every level from the root down
\* the digest on the path determines its two children.
LEMMA OnlyTheLeafVerifies ==
    ASSUME NEW leaves, NEW slot \in Slots, NEW leafHash, NEW path,
           VerifyLeaf(Root(leaves), slot, leafHash, path)
    PROVE  leafHash = HashLeafValue(slot, leaves[slot])
  <1>0. Height \in Nat
    BY TreeAssumption DEF TreeAssumption
  <1>1. PICK fold : /\ fold[0] = leafHash
                    /\ \A h \in 1..Height :
                            fold[h] = FoldStep(slot, h, fold[h - 1], path[h])
                    /\ Reconstruct(slot, leafHash, path) = fold[Height]
    BY ReconstructDef
  <1> DEFINE S == {h \in 0..Height : fold[h] = Levels(leaves)[h][PathAt(slot, h)]}
  <1>2. Height \in S
    <2>1. fold[Height] = Root(leaves)
      BY <1>1 DEF VerifyLeaf
    <2>2. PathAt(slot, Height) = <<>>
      BY PathFacts
    <2> QED  BY <1>0, <2>1, <2>2 DEF Root
  <1>3. ASSUME NEW h \in 1..Height, h \in S PROVE h - 1 \in S
    <2>1. FoldStep(slot, h, fold[h - 1], path[h])
            = Levels(leaves)[h][PathAt(slot, h)]
      BY <1>1, <1>3
    <2>2. fold[h - 1] = Levels(leaves)[h - 1][PathAt(slot, h - 1)]
      BY <2>1, LevelOnPath, MergeInjective DEF FoldStep
    <2> QED  BY <1>0, <2>2
  <1>4. 0..Height \subseteq S
    <2> HIDE DEF S
    <2> QED  BY <1>0, <1>2, <1>3, Downward
  <1>5. fold[0] = Levels(leaves)[0][KeyBits[slot]]
    BY <1>0, <1>4, PathFacts
  <1> QED  BY <1>1, <1>5, LevelAtLeaf

\* verify_membership accepts no value but the one in the slot.
LEMMA VerifiedMeansPresent ==
    ASSUME NEW leaves \in [Slots -> Encodings], NEW slot \in Slots,
           NEW value \in Blobs, NEW path,
           VerifyMembership(Root(leaves), slot, value, path)
    PROVE  leaves[slot] = value
  <1>1. HashLeafValue(slot, value) = HashLeafValue(slot, leaves[slot])
    BY OnlyTheLeafVerifies DEF VerifyMembership
  <1> QED  BY <1>1, LeafInjective DEF Encodings

\* verify_nonmembership accepts no slot but an absent one.
LEMMA VerifiedMeansAbsent ==
    ASSUME NEW leaves \in [Slots -> Encodings], NEW slot \in Slots, NEW path,
           VerifyNonMembership(Root(leaves), slot, path)
    PROVE  leaves[slot] = EmptyBlob
  <1>1. ZeroDigest = HashLeafValue(slot, leaves[slot])
    BY OnlyTheLeafVerifies DEF VerifyNonMembership
  <1> QED  BY <1>1 DEF HashLeafValue, ZeroDigest

\* Trees that differ in one slot have the same digests off that slot's path.
LEMMA OffThePathNothingChanges ==
    ASSUME NEW a, NEW b, NEW slot \in Slots,
           \A s \in Slots \ {slot} : a[s] = b[s],
           NEW h \in 0..Height, NEW prefix \in Prefixes(Height - h),
           prefix # PathAt(slot, h)
    PROVE  Levels(a)[h][prefix] = Levels(b)[h][prefix]
  <1>0. Height \in Nat
    BY TreeAssumption DEF TreeAssumption
  <1> DEFINE Same(i) == \A p \in Prefixes(Height - i) :
                p # PathAt(slot, i) => Levels(a)[i][p] = Levels(b)[i][p]
             S == {i \in 0..Height : Same(i)}
  <1>1. 0 \in S
    <2> SUFFICES ASSUME NEW p \in Prefixes(Height), p # KeyBits[slot]
                 PROVE  Levels(a)[0][p] = Levels(b)[0][p]
      BY <1>0, PathFacts
    <2>1. CASE \E s \in Slots : KeyBits[s] = p
      <3>1. PICK s \in Slots : KeyBits[s] = p
        BY <2>1
      <3>2. a[s] = b[s]
        BY <3>1
      <3> QED  BY <3>1, <3>2, LevelAtLeaf
    <2>2. CASE ~\E s \in Slots : KeyBits[s] = p
      <3>1. LeafLevel(a)[p] = ZeroDigest /\ LeafLevel(b)[p] = ZeroDigest
        BY <2>2, Zenon DEF LeafLevel
      <3> QED  BY <3>1, LevelsDef
    <2> QED  BY <2>1, <2>2
  <1>2. ASSUME NEW i \in 1..Height, i - 1 \in S PROVE i \in S
    <2> SUFFICES ASSUME NEW p \in Prefixes(Height - i), p # PathAt(slot, i)
                 PROVE  Levels(a)[i][p] = Levels(b)[i][p]
      BY <1>0
    <2>1. ASSUME NEW bit \in {0, 1} PROVE Append(p, bit) # PathAt(slot, i - 1)
      <3>1. PathAt(slot, i - 1) = Append(PathAt(slot, i), BitAt(slot, i))
        BY PathFacts
      <3>2. Height - i \in Nat /\ i \in 0..Height
        BY <1>0
      <3>3. p \in Seq({0, 1}) /\ PathAt(slot, i) \in Seq({0, 1})
            /\ Len(p) = Height - i /\ Len(PathAt(slot, i)) = Height - i
        BY <3>2, PathFacts, PrefixesAreSequences
      <3>4. BitAt(slot, i) \in {0, 1}
        BY PathFacts
      <3> QED  BY <3>1, <3>3, <3>4
    <2>2. \A bit \in {0, 1} :
            Levels(a)[i - 1][Append(p, bit)] = Levels(b)[i - 1][Append(p, bit)]
      BY <1>2, <2>1, LevelAtBranch
    <2> QED  BY <2>2, LevelAtBranch
  <1>3. 0..Height \subseteq S
    <2> HIDE DEF S
    <2> QED  BY <1>0, <1>1, <1>2, Upward
  <1> QED  BY <1>3

\* A minted proof verifies the slot's present state while no other slot has
\* changed: its siblings all lie off the slot's path.
LEMMA ProofOfTheLeafVerifies ==
    ASSUME NEW before, NEW now, NEW slot \in Slots,
           \A s \in Slots \ {slot} : now[s] = before[s]
    PROVE  VerifyLeaf(Root(now), slot, HashLeafValue(slot, now[slot]),
                      Prove(before, slot))
  <1>0. Height \in Nat
    BY TreeAssumption DEF TreeAssumption
  <1> DEFINE path == Prove(before, slot)
             leafHash == HashLeafValue(slot, now[slot])
  <1> HIDE DEF path, leafHash
  <1>1. PICK fold : /\ fold[0] = leafHash
                    /\ \A h \in 1..Height :
                            fold[h] = FoldStep(slot, h, fold[h - 1], path[h])
                    /\ Reconstruct(slot, leafHash, path) = fold[Height]
    BY ReconstructDef
  <1> DEFINE S == {h \in 0..Height : fold[h] = Levels(now)[h][PathAt(slot, h)]}
  <1>2. 0 \in S
    BY <1>0, <1>1, PathFacts, LevelAtLeaf DEF leafHash
  <1>3. ASSUME NEW h \in 1..Height, h - 1 \in S PROVE h \in S
    <2> DEFINE sibling == Append(PathAt(slot, h), 1 - BitAt(slot, h))
    <2>1. path[h] = Levels(before)[h - 1][sibling]
      BY DEF path, Prove
    <2>2. /\ sibling \in Prefixes(Height - (h - 1))
          /\ sibling # PathAt(slot, h - 1)
      <3>1. /\ BitAt(slot, h) \in {0, 1} /\ 1 - BitAt(slot, h) \in {0, 1}
            /\ 1 - BitAt(slot, h) # BitAt(slot, h)
            /\ PathAt(slot, h - 1) = Append(PathAt(slot, h), BitAt(slot, h))
        BY PathFacts
      <3>2. h \in 0..Height /\ Height - h \in Nat /\ Height - h + 1 = Height - (h - 1)
        BY <1>0
      <3>3. PathAt(slot, h) \in Prefixes(Height - h)
        BY <3>2, PathFacts
      <3>4. PathAt(slot, h) \in Seq({0, 1})
        BY <3>2, <3>3, PrefixesAreSequences
      <3>5. sibling \in Prefixes(Height - (h - 1))
        BY <3>1, <3>2, <3>3, PrefixesAreSequences
      <3> QED  BY <3>1, <3>4, <3>5
    <2>3. path[h] = Levels(now)[h - 1][sibling]
      <3>1. h - 1 \in 0..Height
        BY <1>0
      <3> HIDE DEF sibling
      <3> QED  BY <2>1, <2>2, <3>1, OffThePathNothingChanges
    <2>4. fold[h] = FoldStep(slot, h, Levels(now)[h - 1][PathAt(slot, h - 1)], path[h])
      BY <1>1, <1>3
    <2>5. fold[h] = Levels(now)[h][PathAt(slot, h)]
      BY <2>3, <2>4, LevelOnPath DEF FoldStep
    <2> QED  BY <1>0, <2>5
  <1>4. 0..Height \subseteq S
    <2> HIDE DEF S
    <2> QED  BY <1>0, <1>2, <1>3, Upward
  <1>5. fold[Height] = Root(now)
    BY <1>0, <1>4, PathFacts DEF Root
  <1> QED  BY <1>1, <1>5 DEF VerifyLeaf, path, leafHash

\* A root belongs to one tree: from the root down, equal levels have equal
\* levels below them.
LEMMA RootDetermines ==
    ASSUME NEW a \in [Slots -> Encodings], NEW b \in [Slots -> Encodings],
           Root(a) = Root(b)
    PROVE  a = b
  <1>0. Height \in Nat
    BY TreeAssumption DEF TreeAssumption
  <1> DEFINE Same(i) == \A p \in Prefixes(Height - i) :
                            Levels(a)[i][p] = Levels(b)[i][p]
             S == {i \in 0..Height : Same(i)}
  <1>1. Height \in S
    <2>1. \A p \in Prefixes(0) : p = <<>>
      BY DEF Prefixes
    <2>2. Height - Height = 0
      BY <1>0
    <2> QED  BY <1>0, <2>1, <2>2 DEF Root
  <1>2. ASSUME NEW i \in 1..Height, i \in S PROVE i - 1 \in S
    <2> SUFFICES ASSUME NEW q \in Prefixes(Height - (i - 1))
                 PROVE  Levels(a)[i - 1][q] = Levels(b)[i - 1][q]
      BY <1>0
    <2>1. PICK p \in Prefixes(Height - i), bit \in {0, 1} : q = Append(p, bit)
      <3>1. /\ Height - i \in Nat /\ Height - (i - 1) \in Nat
            /\ Height - (i - 1) = Height - i + 1
        BY <1>0
      <3>2. q \in Seq({0, 1}) /\ Len(q) = Height - i + 1
        BY <3>1, PrefixesAreSequences
      <3>3. /\ SubSeq(q, 1, Height - i) \in Seq({0, 1})
            /\ Len(SubSeq(q, 1, Height - i)) = Height - i
            /\ q[Height - i + 1] \in {0, 1}
            /\ q = Append(SubSeq(q, 1, Height - i), q[Height - i + 1])
        BY <3>1, <3>2
      <3> QED  BY <3>1, <3>3, PrefixesAreSequences
    <2>2. Levels(a)[i][p] = Levels(b)[i][p]
      BY <1>2
    <2> QED  BY <2>1, <2>2, LevelAtBranch, MergeInjective
  <1>3. 0..Height \subseteq S
    <2> HIDE DEF S
    <2> QED  BY <1>0, <1>1, <1>2, Downward
  <1>4. ASSUME NEW slot \in Slots PROVE a[slot] = b[slot]
    <2>1. KeyBits[slot] \in Prefixes(Height) /\ Height - 0 = Height
      BY <1>0, TreeAssumption DEF TreeAssumption
    <2>2. Levels(a)[0][KeyBits[slot]] = Levels(b)[0][KeyBits[slot]]
      BY <1>0, <1>3, <2>1
    <2> QED  BY <2>2, LevelAtLeaf, LeafInjective
  <1> QED  BY <1>4

----------------------------------------------------------------------------
\* TreeProofs.

\* The tree holds an encoding or nothing at every slot, and the note says what
\* the kept proof was minted from.
NoteIsTrue ==
    proof # NoProof =>
        /\ minted \in [slot : Slots, smt : [Slots -> Encodings]]
        /\ proof = Prove(minted.smt, minted.slot)

TreeInv == smt \in [Slots -> Encodings] /\ NoteIsTrue

\* Writing a slot leaves the kept proof and its note alone.
LEMMA SettingStaysTyped ==
    ASSUME TreeInv, NEW slot \in Slots, NEW encoded \in Encodings,
           SetEncoded(slot, encoded)
    PROVE  TreeInv'
  BY DEF TreeInv, NoteIsTrue, SetEncoded

\* A minted proof is noted with the slot and the tree it is taken from.
LEMMA MintingStaysTyped ==
    ASSUME TreeInv, NEW slot \in Slots, MintProof(slot)
    PROVE  TreeInv'
  <1>1. /\ smt \in Contents /\ smt' = smt
        /\ proof' = Prove(smt, slot) /\ minted' = [slot |-> slot, smt |-> smt]
    BY DEF TreeInv, MintProof, Contents
  <1>2. minted' \in [slot : Slots, smt : Contents]
    BY <1>1
  <1>3. NoteIsTrue'
    BY <1>1, <1>2 DEF NoteIsTrue, Contents
  <1> QED  BY <1>1, <1>3 DEF TreeInv, Contents

\* TreeInv is inductive.
LEMMA TreeInvariant == TreeSpec => []TreeInv
  <1>1. TreeInit => TreeInv
    BY DEF TreeInit, TreeInv, NoteIsTrue, EmptyTree, Encodings
  <1>2. TreeInv /\ [TreeNext]_treeVars => TreeInv'
    <2> SUFFICES ASSUME TreeInv, [TreeNext]_treeVars PROVE TreeInv'
      OBVIOUS
    <2>1. ASSUME NEW slot \in Slots, NEW encoded \in Blobs, Set(slot, encoded)
          PROVE  TreeInv'
      BY <2>1, SettingStaysTyped DEF Set, Encodings
    <2>2. ASSUME NEW slot \in Slots, NEW encoded \in Encodings,
                 SetEncoded(slot, encoded)
          PROVE  TreeInv'
      BY <2>2, SettingStaysTyped
    <2>3. ASSUME NEW slot \in Slots, Remove(slot) PROVE TreeInv'
      BY <2>3, SettingStaysTyped DEF Remove, Encodings
    <2>4. ASSUME NEW slot \in Slots, ProveMembership(slot) PROVE TreeInv'
      BY <2>4, MintingStaysTyped DEF ProveMembership
    <2>5. ASSUME NEW slot \in Slots, ProveNonMembership(slot) PROVE TreeInv'
      BY <2>5, MintingStaysTyped DEF ProveNonMembership
    <2>6. CASE UNCHANGED treeVars
      BY <2>6 DEF treeVars, TreeInv, NoteIsTrue
    <2> QED  BY <2>1, <2>2, <2>3, <2>4, <2>5, <2>6 DEF TreeNext
  <1> QED  BY <1>1, <1>2, PTL DEF TreeSpec

\* What verifies against the present root is true of the present tree,
\* whatever tree and slot the proof was minted from and however high the tree.
THEOREM KeptProofsAreSound == TreeSpec => []ProofsAreSound
  <1>1. TreeInv => ProofsAreSound
    <2> SUFFICES ASSUME TreeInv, NEW slot \in Slots
                 PROVE  /\ \A value \in Blobs :
                             VerifyMembership(Root(smt), slot, value, proof)
                                => smt[slot] = value
                        /\ VerifyNonMembership(Root(smt), slot, proof)
                                => smt[slot] = EmptyBlob
      BY DEF ProofsAreSound
    <2> QED
      BY VerifiedMeansPresent, VerifiedMeansAbsent DEF TreeInv
  <1> QED  BY <1>1, TreeInvariant, PTL

\* A kept proof stays good as long as only its own slot changes: it then
\* verifies what that slot holds now, and nothing else.
THEOREM KeptProofsOutliveTheirSlot == TreeSpec => []ProofsOutliveTheirSlot
  <1>1. TreeInv => ProofsOutliveTheirSlot
    <2> SUFFICES ASSUME TreeInv, proof # NoProof,
                        \A s \in Slots \ {minted.slot} : smt[s] = minted.smt[s]
                 PROVE  /\ \A value \in Blobs :
                            VerifyMembership(Root(smt), minted.slot, value, proof)
                                <=> smt[minted.slot] = value
                        /\ VerifyNonMembership(Root(smt), minted.slot, proof)
                                <=> smt[minted.slot] = EmptyBlob
      BY DEF ProofsOutliveTheirSlot
    <2>1. /\ minted.slot \in Slots /\ smt \in [Slots -> Encodings]
          /\ proof = Prove(minted.smt, minted.slot)
      BY DEF TreeInv, NoteIsTrue
    <2>2. VerifyLeaf(Root(smt), minted.slot,
                     HashLeafValue(minted.slot, smt[minted.slot]), proof)
      BY <2>1, ProofOfTheLeafVerifies
    <2>3. \A value \in Blobs : smt[minted.slot] = value =>
                VerifyMembership(Root(smt), minted.slot, value, proof)
      BY <2>2 DEF VerifyMembership
    <2>4. smt[minted.slot] = EmptyBlob =>
                VerifyNonMembership(Root(smt), minted.slot, proof)
      BY <2>2 DEF VerifyNonMembership, HashLeafValue
    <2> QED  BY <2>1, <2>3, <2>4, VerifiedMeansPresent, VerifiedMeansAbsent
  <1> QED  BY <1>1, TreeInvariant, PTL

\* A tree that has the root of an earlier one is that tree again.
THEOREM RootCommitsToEverySlot == TreeSpec => []RootCommits
  <1>1. TreeInv => RootCommits
    BY RootDetermines DEF TreeInv, NoteIsTrue, RootCommits
  <1> QED  BY <1>1, TreeInvariant, PTL

----------------------------------------------------------------------------
\* IdentityHandle.

\* The proof in circulation is one over the metadata noted with it.
FieldIsMinted ==
    field # NoField =>
        /\ field.slot \in Slots
        /\ field.over \in Contents
        /\ field.claim = field.over[field.slot]
        /\ field.proof = Prove(field.over, field.slot)

HandleInv == TypeOK /\ FieldIsMinted

\* An edit leaves metadata that has an encoding or nothing at every slot.
LEMMA SettingStaysInContents ==
    ASSUME NEW slot \in Slots, NEW value \in Blobs, NEW content \in Contents
    PROVE  [content EXCEPT ![slot] = value] \in Contents
  BY DEF Contents, Encodings

\* A minted proof is noted with the metadata it is taken over.
LEMMA MintingStays ==
    ASSUME HandleInv, NEW slot \in Slots, Mint(slot)
    PROVE  HandleInv'
  <1>1. /\ field'.slot = slot /\ field'.claim = metadata[slot]
        /\ field'.proof = Prove(metadata, slot) /\ field'.over = metadata
    BY DEF Mint
  <1>2. FieldIsMinted'
    BY <1>1 DEF HandleInv, TypeOK, FieldIsMinted
  <1> QED  BY <1>2 DEF Mint, HandleInv, TypeOK

\* HandleInv is inductive.
LEMMA HandleInvariant == Spec => []HandleInv
  <1>1. Init => HandleInv
    BY DEF Init, HandleInv, TypeOK, FieldIsMinted
  <1>2. HandleInv /\ [Next]_vars => HandleInv'
    <2> SUFFICES ASSUME HandleInv, [Next]_vars PROVE HandleInv'
      OBVIOUS
    <2> USE DEF HandleInv
    <2>1. ASSUME NEW slot \in Slots, NEW value \in Blobs, SetSlot(slot, value)
          PROVE  HandleInv'
      <3>1. metadata' \in Contents
        BY <2>1, SettingStaysInContents DEF SetSlot, TypeOK
      <3> QED  BY <2>1, <3>1 DEF SetSlot, TypeOK, FieldIsMinted
    <2>2. ASSUME NEW slot \in Slots, ProveField(slot) PROVE HandleInv'
      BY <2>2, MintingStays DEF ProveField
    <2>3. ASSUME NEW slot \in Slots, ProveFieldAbsent(slot) PROVE HandleInv'
      BY <2>3, MintingStays DEF ProveFieldAbsent
    <2>4. CASE CommitRoot
      BY <2>4 DEF CommitRoot, TypeOK, FieldIsMinted
    <2>5. CASE Resolve
      BY <2>5 DEF Resolve, TypeOK, FieldIsMinted
    <2>6. CASE Publish
      BY <2>6 DEF Publish, TypeOK, FieldIsMinted
    <2>7. ASSUME NEW content \in Contents, PublishElsewhere(content)
          PROVE  HandleInv'
      BY <2>7 DEF PublishElsewhere, TypeOK, FieldIsMinted
    <2>8. CASE UNCHANGED vars
      BY <2>8 DEF vars, TypeOK, FieldIsMinted
    <2> QED  BY <2>1, <2>2, <2>3, <2>4, <2>5, <2>6, <2>7, <2>8 DEF Next
  <1> QED  BY <1>1, <1>2, PTL DEF Spec

\* The handle's root() is always the root of the metadata last resolved or
\* committed, never of pending edits, and the chain's that of a profile
\* somebody published, whoever edits, mints, commits and publishes when.
THEOREM HandleTypeCorrect == Spec => []TypeOK
  BY HandleInvariant, PTL DEF HandleInv

\* Both verifiers say Ok exactly for the DID's store and a proof that verifies.
LEMMA AcceptedMeansVerified ==
    ASSUME NEW st \in Stores, NEW fieldRoot, NEW slot, NEW claim, NEW path
    PROVE  VerifyClaim(st, fieldRoot, slot, claim, path) = "Ok" <=>
            /\ st = Store
            /\ IF claim = EmptyBlob THEN VerifyNonMembership(fieldRoot, slot, path)
               ELSE VerifyMembership(fieldRoot, slot, claim, path)
  <1>1. StoreBelongsToDid(st, Singleton) <=> st = Store
    BY HandleAssumption DEF HandleAssumption
  <1> QED
    BY <1>1 DEF VerifyClaim, VerifyProfileFieldForDid,
                VerifyProfileFieldAbsentForDid

\* Whatever proof a verifier is shown, and whatever it was minted over, with
\* the chain's root it accepts none but the claims of the published profile.
THEOREM OnlyPublishedClaimsAreAccepted == Spec => []AcceptedClaimsArePublished
  <1>1. HandleInv => AcceptedClaimsArePublished
    <2> SUFFICES ASSUME HandleInv, field # NoField, NEW st \in Stores,
                        NEW slot \in Slots, NEW claim \in Encodings,
                        VerifyClaim(st, chainRoot, slot, claim, field.proof) = "Ok"
                 PROVE  st = Store /\ published[slot] = claim
      BY DEF AcceptedClaimsArePublished
    <2>1. published \in [Slots -> Encodings] /\ chainRoot = Root(published)
      BY DEF HandleInv, TypeOK, Contents
    <2>2. CASE claim = EmptyBlob
      BY <2>1, <2>2, AcceptedMeansVerified, VerifiedMeansAbsent
    <2>3. CASE claim \in Blobs
      <3>1. claim # EmptyBlob
        BY <2>3, TreeAssumption DEF TreeAssumption
      <3> QED  BY <2>1, <2>3, <3>1, AcceptedMeansVerified, VerifiedMeansPresent
    <2> QED  BY <2>2, <2>3 DEF Encodings
  <1> QED  BY <1>1, HandleInvariant, PTL

\* A proof is accepted under every root that commits to the metadata it was
\* taken over: the chain's once that is published, root() once committed.
THEOREM EveryPublishedClaimIsAccepted == Spec => []PublishedClaimsAreAccepted
  <1>1. HandleInv => PublishedClaimsAreAccepted
    <2> SUFFICES ASSUME HandleInv, field # NoField
                 PROVE  VerifyClaim(Store, Root(field.over), field.slot,
                                    field.claim, field.proof) = "Ok"
      BY DEF HandleInv, TypeOK, PublishedClaimsAreAccepted
    <2>1. VerifyLeaf(Root(field.over), field.slot,
                     HashLeafValue(field.slot, field.claim), field.proof)
      BY ProofOfTheLeafVerifies DEF HandleInv, FieldIsMinted
    <2>2. IF field.claim = EmptyBlob
          THEN VerifyNonMembership(Root(field.over), field.slot, field.proof)
          ELSE VerifyMembership(Root(field.over), field.slot, field.claim, field.proof)
      BY <2>1 DEF VerifyNonMembership, VerifyMembership, HashLeafValue
    <2>3. Store \in Stores
      BY HandleAssumption DEF HandleAssumption
    <2> QED  BY <2>2, <2>3, AcceptedMeansVerified
  <1> QED  BY <1>1, HandleInvariant, PTL
===============================================================================
