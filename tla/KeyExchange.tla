----------------------------- MODULE KeyExchange -----------------------------
(* Profiles publish their identity keys in slot 0x0010, where any 48 bytes   *)
(* may stand, exchange secrets with whatever a slot holds at the time, and   *)
(* sign (bls.rs).                                                            *)
EXTENDS IdentityKeys

VARIABLES
    slot,    \* the 48 bytes each profile's key slot holds
    shared,  \* the last exchange of each profile: peer's bytes, result
    sig      \* the last signature made: by, msg, sig

vars == <<slot, shared, sig>>

\* The default profile's key is published through derive_identity_sk, the
\* entry point that predates profiles.
PublishedKey(profile) ==
    PublicKeyBytes(IF profile.ix = 0
                   THEN DeriveIdentitySk(MasterSecretKeyFromSeed(profile.seed))
                   ELSE IdentitySk(profile))

Init ==
    /\ slot = [p \in Profiles |-> PublishedKey(p)]
    /\ shared = [p \in Profiles |-> NoNote]
    /\ sig = NoNote

\* A profile writes its key, or other bytes, into its slot.
Publish(p, bytes) ==
    /\ slot' = [slot EXCEPT ![p] = bytes]
    /\ UNCHANGED <<shared, sig>>

Exchange(p, q) ==
    /\ shared' = [shared EXCEPT ![p] = [peer |-> slot[q],
                                        result |-> G1Dh(IdentitySk(p), slot[q])]]
    /\ UNCHANGED <<slot, sig>>

Sign(p, msg) ==
    /\ sig' = [by |-> p, msg |-> msg, sig |-> SignMessage(IdentitySk(p), msg)]
    /\ UNCHANGED <<slot, shared>>

Next ==
    \E p \in Profiles :
        \/ \E bytes \in {PublishedKey(p)} \cup OtherBytes : Publish(p, bytes)
        \/ \E q \in Profiles : Exchange(p, q)
        \/ \E msg \in Messages : Sign(p, msg)

Spec == Init /\ [][Next]_vars

----------------------------------------------------------------------------
\* Properties.

Secrets == Keys \cup {NoPoint}

\* What an exchange hands out is a key again, or nothing at all: no infinite,
\* small-order or mixed point escapes, whatever bytes the slot held.
TypeOK ==
    /\ slot \in [Profiles -> Points \cup {Malformed}]
    /\ \A p \in Profiles :
        shared[p] # NoNote => /\ shared[p].peer \in Points \cup {Malformed}
                              /\ shared[p].result \in Secrets

\* Two profiles that took each other's published key hold one secret, in
\* whatever order they exchanged and whatever the slots held meanwhile; a
\* profile that took its own key holds one too.
SecretsAgree ==
    \A p, q \in Profiles :
        /\ shared[p] # NoNote /\ shared[p].peer = PublishedKey(q)
        /\ shared[q] # NoNote /\ shared[q].peer = PublishedKey(p)
        => shared[p].result = shared[q].result /\ shared[p].result # NoPoint

\* Bytes that are not a key never lead to a secret.
OnlyKeysAreUsed ==
    \A p \in Profiles :
        shared[p] # NoNote =>
            (shared[p].result # NoPoint <=> shared[p].peer \in Keys)

\* A signature verifies under the key its profile publishes and under no
\* other profile's and no coin key of any wallet: the identity key secures
\* no coins.
SignaturesNameTheirProfile ==
    sig # NoNote =>
        /\ \A p \in Profiles :
            VerifySignature(PublishedKey(p), sig.msg, sig.sig) <=> p = sig.by
        /\ \A seed \in Seeds, n \in CoinIndices :
            ~VerifySignature(PublicKeyBytes(CoinSk(seed, n)), sig.msg, sig.sig)
===============================================================================
