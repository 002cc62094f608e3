---------------------------- MODULE IdentityHandle ----------------------------
(* An IdentityProfile in its owner's hands (identity_profile.rs) and the     *)
(* stand-alone verification of its fields (verify.rs).  The owner edits,     *)
(* commits and mints proofs; the chain layer publishes the committed root in *)
(* a store update of its own; another device of the owner may publish too;   *)
(* a verifier holds one proof and whatever root the chain has now.           *)
EXTENDS Pairing, ProfileTree

CONSTANTS
    Singleton,  \* the DID and its lineage, resolved from the chain
    Stores,     \* the store records a verifier may be shown
    Store,      \* the one of them that is the DID's
    NoField     \* no proof was minted yet

VARIABLES
    metadata,   \* the handle's slots, pending edits included
    root,       \* the handle's committed root
    chainRoot,  \* the root the store singleton carries
    field,      \* the last proof minted: slot, claim, proof; and, noted with
                \* it, the metadata it was taken over
    committed,  \* history: the metadata the handle's root was computed from
    published   \* history: the metadata whose root the chain carries

vars == <<metadata, root, chainRoot, field, committed, published>>

Contents == [Slots -> Encodings]

ASSUME HandleAssumption ==
    /\ Store \in Stores
    /\ \A st \in Stores : StoreBelongsToDid(st, Singleton) <=> st = Store

Init ==
    \E seed \in Contents :
        /\ metadata = seed /\ committed = seed /\ published = seed
        /\ root = Root(seed) /\ chainRoot = Root(seed)
        /\ field = NoField

\* Mutant of SetSlot: the pending root is taken for the committed one.
SetSlotAndRoot(slot, value) ==
    /\ metadata' = [metadata EXCEPT ![slot] = value]
    /\ root' = Root(metadata')
    /\ UNCHANGED <<chainRoot, field, committed, published>>

\* IdentityProfile::set; the pending root it returns is Root(metadata').
SetSlot(slot, value) ==
    /\ metadata' = [metadata EXCEPT ![slot] = value]
    /\ UNCHANGED <<root, chainRoot, field, committed, published>>

CommitRoot ==
    /\ root' = Root(metadata) /\ committed' = metadata
    /\ UNCHANGED <<metadata, chainRoot, field, published>>

\* A handle resolved again starts from what the chain carries.
Resolve ==
    /\ StoreBelongsToDid(Store, Singleton)
    /\ metadata' = published /\ root' = Root(published) /\ committed' = published
    /\ UNCHANGED <<chainRoot, field, published>>

\* Mutant of Mint: the proof is taken over the committed metadata.
MintOverCommitted(slot) ==
    /\ field' = [slot |-> slot, claim |-> metadata[slot],
                 proof |-> Prove(committed, slot),
                 over |-> metadata]
    /\ UNCHANGED <<metadata, root, chainRoot, committed, published>>

Mint(slot) ==
    /\ field' = [slot |-> slot, claim |-> metadata[slot],
                 proof |-> Prove(metadata, slot),
                 over |-> metadata]
    /\ UNCHANGED <<metadata, root, chainRoot, committed, published>>

\* For a slot in the other state each call is an error that changes nothing.
ProveField(slot) == metadata[slot] # EmptyBlob /\ Mint(slot)

ProveFieldAbsent(slot) == metadata[slot] = EmptyBlob /\ Mint(slot)

\* The chain layer lands an update of the store to the handle's root().
Publish ==
    /\ chainRoot' = root /\ published' = committed
    /\ UNCHANGED <<metadata, root, field, committed>>

\* Another device of the owner lands an update of its own.
PublishElsewhere(content) ==
    /\ chainRoot' = Root(content) /\ published' = content
    /\ UNCHANGED <<metadata, root, field, committed>>

Next ==
    \/ \E slot \in Slots :
        \/ \E value \in Blobs : SetSlot(slot, value)
        \/ ProveField(slot)
        \/ ProveFieldAbsent(slot)
    \/ CommitRoot
    \/ Resolve
    \/ Publish
    \/ \E content \in Contents : PublishElsewhere(content)

Spec == Init /\ [][Next]_vars

----------------------------------------------------------------------------
\* Verification: the pairing first, then the proof.

\* Mutant of VerifyProfileFieldForDid: the proof alone decides.
VerifyProofOnly(singleton, store, fieldRoot, slot, value, proof) ==
    IF ~VerifyMembership(fieldRoot, slot, value, proof)
    THEN "FieldProofRejected"
    ELSE "Ok"

VerifyProfileFieldForDid(singleton, store, fieldRoot, slot, value, proof) ==
    IF ~StoreBelongsToDid(store, singleton) THEN "NotAuthoritativeProfile"
    ELSE IF ~VerifyMembership(fieldRoot, slot, value, proof)
    THEN "FieldProofRejected"
    ELSE "Ok"

VerifyProfileFieldAbsentForDid(singleton, store, fieldRoot, slot, proof) ==
    IF ~StoreBelongsToDid(store, singleton) THEN "NotAuthoritativeProfile"
    ELSE IF ~VerifyNonMembership(fieldRoot, slot, proof)
    THEN "FieldProofRejected"
    ELSE "Ok"

VerifyClaim(store, fieldRoot, slot, claim, proof) ==
    IF claim = EmptyBlob
    THEN VerifyProfileFieldAbsentForDid(Singleton, store, fieldRoot, slot, proof)
    ELSE VerifyProfileFieldForDid(Singleton, store, fieldRoot, slot, claim, proof)

----------------------------------------------------------------------------
\* Properties.

\* The committed root stands for the metadata of the last resolve or commit,
\* and the chain's root for the content that was published.
TypeOK ==
    /\ {metadata, committed, published} \subseteq Contents
    /\ root = Root(committed)
    /\ chainRoot = Root(published)

\* With the root the chain has now, a verifier accepts a claim only for the
\* DID's own store and only if the published profile makes it, whichever
\* pending, superseded or other slot's state the proof was minted over.
AcceptedClaimsArePublished ==
    field # NoField =>
        \A store \in Stores, slot \in Slots, claim \in Encodings :
            VerifyClaim(store, chainRoot, slot, claim, field.proof) = "Ok"
                => store = Store /\ published[slot] = claim

\* A proof, pending edits included, is accepted from the moment the metadata
\* it was taken over is what the chain carries, whoever published it; and
\* under root() from the moment the handle has committed that metadata.
PublishedClaimsAreAccepted ==
    field # NoField =>
        \A known \in {[content |-> published, root |-> chainRoot],
                     [content |-> committed, root |-> root]} :
            field.over = known.content =>
                VerifyClaim(Store, known.root, field.slot, field.claim,
                            field.proof) = "Ok"
===============================================================================
