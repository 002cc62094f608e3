-------------------------- MODULE KeyExchange_proofs --------------------------
(* Theorems about KeyExchange, for every prime order of the subgroup, every  *)
(* cofactor, every set of profiles and whatever bytes a key slot may hold.   *)
EXTENDS KeyExchange, TLAPS

\* The scalar of a profile's key is not zero in the subgroup.
LEMMA ScalarType ==
    ASSUME NEW sk \in SecretKeys
    PROVE  Scalar[sk] \in 1..Order - 1
  BY DerivationAssumption

LEMMA IdentityKey ==
    ASSUME NEW p \in Profiles
    PROVE  /\ IdentitySk(p) \in SecretKeys
           /\ PublishedKey(p) = <<Scalar[IdentitySk(p)], 0>>
           /\ PublishedKey(p) \in Keys
  <1>1. IdentitySk(p) \in SecretKeys
    BY DEF SecretKeys
  <1>2. PublishedKey(p) = <<Scalar[IdentitySk(p)], 0>>
    BY DEF PublishedKey, PublicKeyBytes, DeriveIdentitySk, IdentitySk
  <1> QED  BY <1>1, <1>2, ScalarType DEF Keys

LEMMA KeysArePoints == Keys \subseteq Points
  BY KeyAssumption DEF Keys, Points

\* A scalar times a key is a key: the order is prime.
LEMMA MultiplyKey ==
    ASSUME NEW a \in 1..Order - 1, NEW b \in 1..Order - 1
    PROVE  /\ Multiply(a, <<b, 0>>) = <<(a * b) % Order, 0>>
           /\ Multiply(a, <<b, 0>>) \in Keys
           /\ Multiply(a, <<b, 0>>) # Infinity
  <1>1. Order \in Nat \ {0, 1} /\ Cofactor \in Nat \ {0} /\ a \in Nat /\ b \in Nat
    BY KeyAssumption
  <1>2. a * 0 = 0 /\ 0 % Cofactor = 0
    BY <1>1
  <1>3. a * b \in Nat
    BY <1>1
  <1>4. (a * b) % Order \in 0..Order - 1
    BY <1>1, <1>3
  <1>5. (a * b) % Order # 0
    BY KeyAssumption
  <1> QED  BY <1>2, <1>4, <1>5 DEF Multiply, Keys, Infinity

\* g1_dh gives a key for a key, and nothing for anything else.
LEMMA G1DhType ==
    ASSUME NEW sk \in SecretKeys, NEW bytes \in Points \cup {Malformed}
    PROVE  /\ bytes \in Keys => /\ G1Dh(sk, bytes) = Multiply(Scalar[sk], bytes)
                                /\ G1Dh(sk, bytes) \in Keys
           /\ bytes \notin Keys => G1Dh(sk, bytes) = NoPoint
  <1>1. G1SubgroupCheck(bytes) <=> bytes \in Keys
    BY KeyAssumption DEF G1SubgroupCheck, Keys, Points, Infinity
  <1>2. CASE bytes \in Keys
    <2>1. PICK b \in 1..Order - 1 : bytes = <<b, 0>>
      BY <1>2 DEF Keys
    <2> QED  BY <1>1, <1>2, <2>1, ScalarType, MultiplyKey DEF G1Dh
  <1>3. CASE bytes \notin Keys
    BY <1>1, <1>3 DEF G1Dh
  <1> QED  BY <1>2, <1>3

----------------------------------------------------------------------------
\* The last exchange of a profile was made with its own key.
Noted(p) == shared[p] # NoNote =>
                /\ shared[p].peer \in Points \cup {Malformed}
                /\ shared[p].result = G1Dh(IdentitySk(p), shared[p].peer)

\* The last signature was made with the key of the profile it names.
Signed == sig # NoNote =>
            /\ sig.by \in Profiles
            /\ sig.sig = SignMessage(IdentitySk(sig.by), sig.msg)

Inv ==
    /\ slot \in [Profiles -> Points \cup {Malformed}]
    /\ DOMAIN shared = Profiles
    /\ \A p \in Profiles : Noted(p)
    /\ Signed

LEMMA Invariant == Spec => []Inv
  <1>1. Init => Inv
    BY IdentityKey, KeysArePoints DEF Init, Inv, Noted, Signed
  <1>2. Inv /\ [Next]_vars => Inv'
    <2> SUFFICES ASSUME Inv, [Next]_vars PROVE Inv'
      OBVIOUS
    <2>1. ASSUME NEW p \in Profiles, NEW bytes \in {PublishedKey(p)} \cup OtherBytes,
                 Publish(p, bytes)
          PROVE  Inv'
      <3>1. bytes \in Points \cup {Malformed}
        BY IdentityKey, KeysArePoints, KeyAssumption
      <3> QED  BY <2>1, <3>1 DEF Publish, Inv, Noted, Signed
    <2>2. ASSUME NEW p \in Profiles, NEW q \in Profiles, Exchange(p, q)
          PROVE  Inv'
      BY <2>2 DEF Exchange, Inv, Noted, Signed
    <2>3. ASSUME NEW p \in Profiles, NEW msg \in Messages, Sign(p, msg)
          PROVE  Inv'
      BY <2>3 DEF Sign, Inv, Noted, Signed
    <2>4. CASE UNCHANGED vars
      BY <2>4 DEF vars, Inv, Noted, Signed
    <2> QED  BY <2>1, <2>2, <2>3, <2>4 DEF Next
  <1> QED  BY <1>1, <1>2, PTL DEF Spec

\* Whatever bytes the slots hold, an exchange hands out a key of the subgroup
\* or nothing: no infinite, small-order or mixed point escapes.
THEOREM TypeCorrect == Spec => []TypeOK
  <1>1. Inv => TypeOK
    <2> SUFFICES ASSUME Inv, NEW p \in Profiles, shared[p] # NoNote
                 PROVE  /\ shared[p].peer \in Points \cup {Malformed}
                        /\ shared[p].result \in Secrets
      BY DEF Inv, TypeOK
    <2> QED  BY IdentityKey, G1DhType DEF Inv, Noted, Secrets
  <1> QED  BY <1>1, Invariant, PTL

\* Bytes that are not a key lead to no secret, and every key leads to one.
THEOREM SecretsNeedKeys == Spec => []OnlyKeysAreUsed
  <1>1. Inv => OnlyKeysAreUsed
    <2> SUFFICES ASSUME Inv, NEW p \in Profiles, shared[p] # NoNote
                 PROVE  shared[p].result # NoPoint <=> shared[p].peer \in Keys
      BY DEF OnlyKeysAreUsed
    <2>1. NoPoint \notin Keys
      BY KeysArePoints, KeyAssumption
    <2> QED  BY <2>1, IdentityKey, G1DhType DEF Inv, Noted
  <1> QED  BY <1>1, Invariant, PTL

\* Two profiles that exchanged over each other's published key hold one
\* secret, whatever the slots held in between and whoever was first.
THEOREM ExchangesAgree == Spec => []SecretsAgree
  <1>1. Inv => SecretsAgree
    <2> SUFFICES ASSUME Inv, NEW p \in Profiles, NEW q \in Profiles,
                        shared[p] # NoNote, shared[p].peer = PublishedKey(q),
                        shared[q] # NoNote, shared[q].peer = PublishedKey(p)
                 PROVE  /\ shared[p].result = shared[q].result
                        /\ shared[p].result # NoPoint
      BY DEF SecretsAgree
    <2> DEFINE a == Scalar[IdentitySk(p)]
               b == Scalar[IdentitySk(q)]
    <2>1. a \in 1..Order - 1 /\ b \in 1..Order - 1
      BY IdentityKey, ScalarType
    <2>2. /\ shared[p].result = Multiply(a, <<b, 0>>)
          /\ shared[q].result = Multiply(b, <<a, 0>>)
      BY IdentityKey, KeysArePoints, G1DhType DEF Inv, Noted
    <2>3. /\ shared[p].result = <<(a * b) % Order, 0>>
          /\ shared[q].result = <<(b * a) % Order, 0>>
          /\ shared[p].result \in Keys
      <3> HIDE DEF a, b
      <3> QED  BY <2>1, <2>2, MultiplyKey
    <2>4. a * b = b * a
      <3> HIDE DEF a, b
      <3>1. a \in Int /\ b \in Int
        BY <2>1, KeyAssumption
      <3> QED  BY <3>1
    <2>5. NoPoint \notin Keys
      BY KeysArePoints, KeyAssumption
    <2> QED  BY <2>3, <2>4, <2>5
  <1> QED  BY <1>1, Invariant, PTL

----------------------------------------------------------------------------
\* One hardened step makes the path longer by its index.
Child(seed, path, i, longer) ==
    /\ DeriveHardened([seed |-> seed, path |-> path], i)
            = [seed |-> seed, path |-> longer]
    /\ Len(longer) = Len(path) + 1
    /\ longer[Len(path) + 1] = i
    /\ \A k \in 1..Len(path) : longer[k] = path[k]

LEMMA HardenedStep ==
    ASSUME NEW seed, NEW path \in Seq(Nat), NEW i \in Nat
    PROVE  \E longer \in Seq(Nat) : Child(seed, path, i, longer)
  <1> DEFINE longer == Append(path, i)
  <1>1. /\ longer \in Seq(Nat) /\ Len(longer) = Len(path) + 1
        /\ longer[Len(path) + 1] = i
        /\ \A k \in 1..Len(path) : longer[k] = path[k]
    OBVIOUS
  <1>2. DeriveHardened([seed |-> seed, path |-> path], i)
            = [seed |-> seed, path |-> longer]
    <2> DEFINE sk == [seed |-> seed, path |-> path]
    <2>1. sk.path = path /\ [sk EXCEPT !.path = longer] = [seed |-> seed, path |-> longer]
      <3> HIDE DEF longer
      <3> QED  OBVIOUS
    <2> QED  BY <2>1 DEF DeriveHardened
  <1> HIDE DEF longer
  <1> QED  BY <1>1, <1>2 DEF Child

\* A key's path ends with its application index and its own.
LEMMA PathEnds ==
    ASSUME NEW seed, NEW a \in Nat, NEW b \in Nat, NEW c \in Nat, NEW n \in Nat
    PROVE  LET sk == DeriveHardened(
                        Prefixed(MasterSecretKeyFromSeed(seed), <<a, b, c>>), n)
           IN  sk.seed = seed /\ sk.path[3] = c /\ sk.path[4] = n
  <1>1. /\ <<>> \in Seq(Nat) /\ Len(<<>>) = 0
        /\ <<a, b, c>>[1] = a /\ <<a, b, c>>[2] = b /\ <<a, b, c>>[3] = c
    OBVIOUS
  <1>2. PICK p1 \in Seq(Nat) : Child(seed, <<>>, a, p1)
    BY <1>1, HardenedStep
  <1>3. PICK p2 \in Seq(Nat) : Child(seed, p1, b, p2)
    BY HardenedStep
  <1>4. PICK p3 \in Seq(Nat) : Child(seed, p2, c, p3)
    BY HardenedStep
  <1>5. PICK p4 \in Seq(Nat) : Child(seed, p3, n, p4)
    BY HardenedStep
  <1>6. Len(p3) = 3 /\ p3[3] = c
    BY <1>1, <1>2, <1>3, <1>4 DEF Child
  <1>7. p4[3] = c /\ p4[4] = n
    BY <1>5, <1>6 DEF Child
  <1>8. DeriveHardened(Prefixed(MasterSecretKeyFromSeed(seed), <<a, b, c>>), n)
            = [seed |-> seed, path |-> p4]
    BY <1>1, <1>2, <1>3, <1>4, <1>5, Zenon
       DEF Child, Prefixed, MasterSecretKeyFromSeed
  <1> QED  BY <1>7, <1>8

\* Paths of different profiles, and of identity and coin keys, differ.
LEMMA PathsDiffer ==
    /\ \A p, q \in Profiles : IdentitySk(p) = IdentitySk(q) => p = q
    /\ \A p \in Profiles, seed \in Seeds, n \in CoinIndices :
            IdentitySk(p) # CoinSk(seed, n)
  <1>1. \A p \in Profiles : /\ p.ix \in Nat
                            /\ p = [seed |-> p.seed, ix |-> p.ix]
    BY KeyAssumption
  <1>2. \A p \in Profiles : /\ IdentitySk(p).seed = p.seed
                            /\ IdentitySk(p).path[3] = 9
                            /\ IdentitySk(p).path[4] = p.ix
    BY <1>1, PathEnds DEF IdentitySk, DeriveIdentitySkAt, IDENTITY_PATH_PREFIX
  <1>3. \A seed \in Seeds, n \in CoinIndices : CoinSk(seed, n).path[3] = 2
    BY KeyAssumption, PathEnds DEF CoinSk, WALLET_PATH_PREFIX
  <1> QED  BY <1>1, <1>2, <1>3

\* Two derived keys have one public key only if they are one key.
LEMMA PublicKeysDiffer ==
    ASSUME NEW a \in SecretKeys, NEW b \in SecretKeys
    PROVE  PublicKeyBytes(a) = PublicKeyBytes(b) => a = b
  BY DerivationAssumption DEF PublicKeyBytes

\* A signature names its profile: it verifies under the key that profile
\* publishes, and under no other profile's nor any wallet's coin key.
THEOREM SignaturesAreBound == Spec => []SignaturesNameTheirProfile
  <1>1. Inv => SignaturesNameTheirProfile
    <2> SUFFICES ASSUME Inv, sig # NoNote PROVE SignaturesNameTheirProfile
      BY DEF SignaturesNameTheirProfile
    <2>1. /\ sig.by \in Profiles /\ IdentitySk(sig.by) \in SecretKeys
          /\ sig.sig = [signer |-> PublicKeyBytes(IdentitySk(sig.by)),
                        msg |-> sig.msg]
      BY IdentityKey DEF Inv, Signed, SignMessage
    <2>2. ASSUME NEW sk \in SecretKeys
          PROVE  VerifySignature(PublicKeyBytes(sk), sig.msg, sig.sig)
                    <=> sk = IdentitySk(sig.by)
      <3>1. PublicKeyBytes(sk) # Malformed
        BY ScalarType, KeysArePoints, KeyAssumption DEF PublicKeyBytes, Keys
      <3> QED  BY <2>1, <3>1, PublicKeysDiffer DEF VerifySignature
    <2>3. ASSUME NEW p \in Profiles
          PROVE  VerifySignature(PublishedKey(p), sig.msg, sig.sig) <=> p = sig.by
      <3>1. /\ PublishedKey(p) = PublicKeyBytes(IdentitySk(p))
            /\ IdentitySk(p) \in SecretKeys
        BY IdentityKey DEF PublicKeyBytes
      <3> QED  BY <2>1, <2>2, <3>1, PathsDiffer
    <2>4. ASSUME NEW seed \in Seeds, NEW n \in CoinIndices
          PROVE  ~VerifySignature(PublicKeyBytes(CoinSk(seed, n)), sig.msg, sig.sig)
      <3>1. CoinSk(seed, n) \in SecretKeys
        BY DEF SecretKeys
      <3> QED  BY <2>1, <2>2, <3>1, PathsDiffer
    <2> QED  BY <2>3, <2>4 DEF SignaturesNameTheirProfile
  <1> QED  BY <1>1, Invariant, PTL
=============================================================================
