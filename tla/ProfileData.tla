---------------------------- MODULE ProfileData ----------------------------
(* A profile (profile.rs) is a map from slots to values.  A value keeps its  *)
(* wire tag, the width of its payload in bytes and an abstract payload.  The *)
(* Merkle root (tree.rs, hash.rs) is symbolic: the set of non-zero leaves it *)
(* commits to, each binding its slot to its value.                           *)
EXTENDS Integers

BLS_G1_PUBLIC_KEY == 16   \* slot 0x0010
PEER_ID           == 18   \* slot 0x0012
KEY_EPOCH         == 19   \* slot 0x0013

EmptyProfile == [slot \in {} |-> 0]

\* BTreeMap::insert: the slot's earlier value, if any, is replaced.
SetSlot(profile, slot, value) ==
    [s \in DOMAIN profile \cup {slot} |->
        IF s = slot THEN value ELSE profile[s]]

\* A value's encoding has a five-byte header, so it is never the empty blob
\* that hashes to the zero leaf; a present slot always yields a leaf.
LeafOf(slot, value) == <<slot, value>>

BuildRoot(profile) == {LeafOf(s, profile[s]) : s \in DOMAIN profile}

----------------------------------------------------------------------------
Absent == "None"

\* Mutant of BytesOfWidth: the width is not looked at.
BytesOfAnyWidth(profile, slot, width) ==
    IF slot \in DOMAIN profile /\ profile[slot].tag = "Bytes"
    THEN profile[slot].payload
    ELSE Absent

\* A Bytes slot of exactly the given width; anything else reads as absent.
BytesOfWidth(profile, slot, width) ==
    IF /\ slot \in DOMAIN profile
       /\ profile[slot].tag = "Bytes"
       /\ profile[slot].width = width
    THEN profile[slot].payload
    ELSE Absent

Tagged(profile, slot, tag) ==
    IF slot \in DOMAIN profile /\ profile[slot].tag = tag
    THEN profile[slot].payload
    ELSE Absent

ResolveKeys(profile) ==
    [bls_g1_public_key |-> BytesOfWidth(profile, BLS_G1_PUBLIC_KEY, 48),
     peer_id           |-> BytesOfWidth(profile, PEER_ID, 32),
     key_epoch         |-> Tagged(profile, KEY_EPOCH, "U32")]
============================================================================
