----------------------------- MODULE IdentityKeys -----------------------------
(* The BLS identity keys (bls.rs): derivation per profile, the key a profile *)
(* publishes, the Diffie-Hellman exchange with whatever a peer's key slot    *)
(* holds, and signatures.  The curve's group is Order x Cofactor: a point is *)
(* a pair of residues, the r-subgroup is the points with second part 0, and  *)
(* the base point is <<1, 0>>.  Key derivation is a path below a seed; Scalar *)
(* gives the number each derived key turns out to have.                      *)
EXTENDS Integers, Sequences

CONSTANTS
    Order, Cofactor,  \* of the subgroup, and of the curve's group over it
    Seeds, Profiles,  \* wallets; profiles, records [seed, ix]
    CoinIndices,      \* n of the wallet's coin keys m/12381'/8444'/2'/n
    Scalar,           \* of each secret key
    OtherBytes,       \* what else 48 bytes in a key slot may be
    Malformed,        \* no encoding of a point of the curve
    NoPoint,          \* g1_dh returned None
    Messages, NoNote

\* The path of Chia's coin keys; mutant of IDENTITY_PATH_PREFIX.
WALLET_PATH_PREFIX == <<12381, 8444, 2>>

IDENTITY_PATH_PREFIX == <<12381, 8444, 9>>

MasterSecretKeyFromSeed(seed) == [seed |-> seed, path |-> <<>>]

DeriveHardened(sk, index) == [sk EXCEPT !.path = Append(@, index)]

\* The fold of DeriveHardened over a prefix, which has three components.
Prefixed(master, prefix) ==
    DeriveHardened(
        DeriveHardened(DeriveHardened(master, prefix[1]), prefix[2]), prefix[3])

DeriveIdentitySkAt(master, profile_ix) ==
    DeriveHardened(Prefixed(master, IDENTITY_PATH_PREFIX), profile_ix)

\* Mutant of DeriveIdentitySk: profiles counted from one.
DeriveFirstSk(master) == DeriveIdentitySkAt(master, 1)

DeriveIdentitySk(master) == DeriveIdentitySkAt(master, 0)

IdentitySk(profile) ==
    DeriveIdentitySkAt(MasterSecretKeyFromSeed(profile.seed), profile.ix)

CoinSk(seed, n) ==
    DeriveHardened(Prefixed(MasterSecretKeyFromSeed(seed), WALLET_PATH_PREFIX), n)

SecretKeys == {IdentitySk(p) : p \in Profiles}
              \cup {CoinSk(s, n) : s \in Seeds, n \in CoinIndices}

----------------------------------------------------------------------------
Points == (0..Order - 1) \X (0..Cofactor - 1)
Infinity == <<0, 0>>
Keys == (1..Order - 1) \X {0}

\* The order is prime (its residues have no zero divisors), and no two
\* derived keys collide, which the key derivation function stands for.
ASSUME KeyAssumption ==
    /\ Order \in Nat \ {0, 1} /\ Cofactor \in Nat \ {0}
    /\ \A a, b \in 1..Order - 1 : (a * b) % Order # 0
    /\ Profiles \subseteq [seed : Seeds, ix : Nat] /\ CoinIndices \subseteq Nat
    /\ OtherBytes \subseteq Points \cup {Malformed}
    /\ Malformed \notin Points /\ NoPoint \notin Points

ASSUME DerivationAssumption ==
    /\ SecretKeys \subseteq DOMAIN Scalar
    /\ \A sk \in DOMAIN Scalar :
        /\ Scalar[sk] \in 1..Order - 1
        /\ \A other \in DOMAIN Scalar : Scalar[sk] = Scalar[other] => sk = other

Multiply(scalar, point) ==
    <<(scalar * point[1]) % Order, (scalar * point[2]) % Cofactor>>

PublicKeyBytes(sk) == <<Scalar[sk], 0>>

\* Mutant of G1SubgroupCheck: any finite point of the curve will do.
IsOnCurve(pk) == pk \in Points \ {Infinity}

G1SubgroupCheck(pk) ==
    /\ pk \in Points \ {Infinity}   \* uncompresses, and is not infinite
    /\ pk[2] = 0                    \* in_g1

\* Mutant of G1Dh: only the result is looked at.
G1DhUnchecked(sk, peer_g1) ==
    IF peer_g1 = Malformed \/ Multiply(Scalar[sk], peer_g1) = Infinity
    THEN NoPoint
    ELSE Multiply(Scalar[sk], peer_g1)

G1Dh(sk, peer_g1) ==
    IF ~G1SubgroupCheck(peer_g1) \/ Multiply(Scalar[sk], peer_g1) = Infinity
    THEN NoPoint
    ELSE Multiply(Scalar[sk], peer_g1)

\* A signature is bound to the signer's key and the message.
SignMessage(sk, msg) == [signer |-> PublicKeyBytes(sk), msg |-> msg]

VerifySignature(pk, msg, sig) ==
    pk # Malformed /\ sig = [signer |-> pk, msg |-> msg]
===============================================================================
