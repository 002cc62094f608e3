----------------------------- MODULE MCResolver -----------------------------
(* Small instances of Resolver.  In the first, one DID whose name can be     *)
(* written with whitespace around it and whose payload can also be an xch1   *)
(* address; in the second, two DIDs, either of which can launch a store that *)
(* names the other.                                                          *)
EXTENDS Resolver, TLC

CONSTANTS A, B, S1, S2

MCTexts == {"did:A", " did:A ", "xch1A"}
MCTrim == [t \in MCTexts |-> IF t = " did:A " THEN "did:A" ELSE t]
MCDecode == [t \in MCTexts |->
    CASE t = "did:A" -> [prefix |-> "did:chia:", puzzle_hash |-> A]
      [] t = "xch1A" -> [prefix |-> "xch", puzzle_hash |-> A]
      [] OTHER -> NoAddress]

TwoTexts == {"did:A", "did:B"}
TwoTrim == [t \in TwoTexts |-> t]
TwoDecode == [t \in TwoTexts |->
    [prefix |-> "did:chia:", puzzle_hash |-> IF t = "did:A" THEN A ELSE B]]

Bytes(width, payload) ==
    [tag |-> "Bytes", width |-> width, payload |-> payload]

\* A profile with an identity key, one with the 32-byte key of schema v1, and
\* content no store ever commits to: what tampering makes of the first.
Keyed == SetSlot(EmptyProfile, BLS_G1_PUBLIC_KEY, Bytes(48, "g1"))
V1Keyed == SetSlot(EmptyProfile, BLS_G1_PUBLIC_KEY, Bytes(32, "ed25519"))
Tampered == SetSlot(EmptyProfile, BLS_G1_PUBLIC_KEY, Bytes(48, "other"))

MCBodies == {Keyed, V1Keyed, Tampered}
MCRoots == {BuildRoot(Keyed), BuildRoot(V1Keyed)}

Stores == Permutations({S1, S2})
=============================================================================
