----------------------------- MODULE TreeProofs -----------------------------
(* A ProfileTree in use: slots are set, relayed and removed in any order,    *)
(* while a proof minted at some point is kept and verified later, against    *)
(* whatever the root has become and for whatever slot a verifier asks about. *)
EXTENDS ProfileTree

CONSTANT NoProof  \* no proof was minted yet

VARIABLES
    smt,     \* the tree: the encoded blob at each slot
    proof,   \* the last proof minted, or NoProof
    minted   \* what the proof was minted for: the slot, and the tree then

treeVars == <<smt, proof, minted>>

TreeInit == smt = EmptyTree /\ proof = NoProof /\ minted = NoProof

SetEncoded(slot, encoded) ==
    /\ smt' = [smt EXCEPT ![slot] = encoded]
    /\ UNCHANGED <<proof, minted>>

Set(slot, value) == value \in Blobs /\ SetEncoded(slot, value)

Remove(slot) == SetEncoded(slot, EmptyBlob)

MintProof(slot) ==
    /\ proof' = Prove(smt, slot)
    /\ minted' = [slot |-> slot, smt |-> smt]
    /\ UNCHANGED smt

\* For a slot in the other state each call is an error that changes nothing.
ProveMembership(slot) == smt[slot] # EmptyBlob /\ MintProof(slot)

ProveNonMembership(slot) == smt[slot] = EmptyBlob /\ MintProof(slot)

TreeNext == \E slot \in Slots :
    \/ \E encoded \in Blobs : Set(slot, encoded)
    \/ \E encoded \in Encodings : SetEncoded(slot, encoded)
    \/ Remove(slot)
    \/ ProveMembership(slot)
    \/ ProveNonMembership(slot)

TreeSpec == TreeInit /\ [][TreeNext]_treeVars

----------------------------------------------------------------------------
\* A proof never speaks falsely of the tree whose root it verifies against,
\* even one minted before the tree changed, or for another slot.
ProofsAreSound ==
    proof # NoProof =>
        \A slot \in Slots :
            /\ \A value \in Blobs :
                VerifyMembership(Root(smt), slot, value, proof)
                    => smt[slot] = value
            /\ VerifyNonMembership(Root(smt), slot, proof)
                    => smt[slot] = EmptyBlob

\* While no slot but the proved one has changed, the proof verifies against
\* the current root whatever that slot holds now, and nothing else does.
ProofsOutliveTheirSlot ==
    (proof # NoProof /\ \A s \in Slots \ {minted.slot} : smt[s] = minted.smt[s]) =>
        LET slot == minted.slot IN
        /\ \A value \in Blobs :
            VerifyMembership(Root(smt), slot, value, proof)
                <=> smt[slot] = value
        /\ VerifyNonMembership(Root(smt), slot, proof)
                <=> smt[slot] = EmptyBlob

\* The root commits to every slot: two trees with one root are one tree.
RootCommits ==
    (proof # NoProof /\ Root(smt) = Root(minted.smt)) => smt = minted.smt

\* verify_membership's doc: a proof lifted from a different slot reconstructs
\* a different root.
LiftedProofsAreRejected ==
    proof # NoProof =>
        \A slot \in Slots \ {minted.slot}, value \in Blobs :
            ~VerifyMembership(Root(smt), slot, value, proof)
=============================================================================
