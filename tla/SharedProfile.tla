---------------------------- MODULE SharedProfile ----------------------------
(* One profile, several devices of its owner: each opens what the chain      *)
(* carries (resolve_identity_profile), edits its own IdentityProfile and     *)
(* publishes its root() in its own time (identity_profile.rs).  Nothing in   *)
(* the crate orders them, so a publication may undo another's.               *)
EXTENDS ProfileData

CONSTANTS
    Devices,
    Slots, Values,  \* the slots edited, all of them set, and what to
    NoHandle

VARIABLES
    handle,     \* each device's IdentityProfile: metadata, committed root
    chainRoot,  \* the root the store singleton carries
    openedAt,   \* history: the chain's root when the device opened
    touched,    \* history: the slots the device has set since
    unseen      \* history: the slots others changed on the chain since

vars == <<handle, chainRoot, openedAt, touched, unseen>>

Contents == [Slots -> Values]
Roots == {BuildRoot(profile) : profile \in Contents}

\* The profile a root was computed from.
Content(root) == CHOOSE profile \in Contents : BuildRoot(profile) = root

\* The slots in which the profiles of two roots differ.
Changed(r1, r2) == {slot \in Slots : Content(r1)[slot] # Content(r2)[slot]}

Init ==
    /\ chainRoot \in Roots
    /\ handle = [d \in Devices |-> NoHandle]
    /\ openedAt = [d \in Devices |-> NoHandle]
    /\ touched = [d \in Devices |-> {}]
    /\ unseen = [d \in Devices |-> {}]

Opened(body) == [metadata |-> body, root |-> BuildRoot(body)]

\* Mutant of Open: a body of another root than the chain's is taken too.
OpenUnchecked(d, body) ==
    /\ handle' = [handle EXCEPT ![d] = Opened(body)]
    /\ openedAt' = [openedAt EXCEPT ![d] = chainRoot]
    /\ touched' = [touched EXCEPT ![d] = {}]
    /\ unseen' = [unseen EXCEPT ![d] = {}]
    /\ UNCHANGED chainRoot

\* Any body may be served; one of another root ends in
\* StaleOrTamperedRoot, and the device is left with what it had.
Open(d, body) ==
    /\ BuildRoot(body) = chainRoot
    /\ handle' = [handle EXCEPT ![d] = Opened(body)]
    /\ openedAt' = [openedAt EXCEPT ![d] = chainRoot]
    /\ touched' = [touched EXCEPT ![d] = {}]
    /\ unseen' = [unseen EXCEPT ![d] = {}]
    /\ UNCHANGED chainRoot

Edit(d, slot, value) ==
    /\ handle[d] # NoHandle
    /\ handle' = [handle EXCEPT ![d].metadata = SetSlot(@, slot, value)]
    /\ touched' = [touched EXCEPT ![d] = @ \cup {slot}]
    /\ UNCHANGED <<chainRoot, openedAt, unseen>>

CommitRoot(d) ==
    /\ handle[d] # NoHandle
    /\ handle' = [handle EXCEPT ![d].root = BuildRoot(handle[d].metadata)]
    /\ UNCHANGED <<chainRoot, openedAt, touched, unseen>>

\* The chain layer lands an update of the store to the device's root().
Publish(d) ==
    /\ handle[d] # NoHandle
    /\ chainRoot' = handle[d].root
    /\ unseen' = [e \in Devices |->
                    IF e = d THEN unseen[e]
                    ELSE unseen[e] \cup Changed(chainRoot, chainRoot')]
    /\ UNCHANGED <<handle, openedAt, touched>>

Next ==
    \E d \in Devices :
        \/ \E body \in Contents : Open(d, body)
        \/ \E slot \in Slots, value \in Values : Edit(d, slot, value)
        \/ CommitRoot(d)
        \/ Publish(d)

Spec == Init /\ [][Next]_vars

----------------------------------------------------------------------------
\* Properties.

\* What a device has pending, and what it has committed, differ from what it
\* opened in no slot but those it has set since.
TypeOK ==
    /\ chainRoot \in Roots
    /\ \A d \in Devices :
        handle[d] # NoHandle =>
            /\ handle[d].metadata \in Contents /\ handle[d].root \in Roots
            /\ openedAt[d] \in Roots
            /\ \A slot \in Slots \ touched[d] :
                /\ handle[d].metadata[slot] = Content(openedAt[d])[slot]
                /\ Content(handle[d].root)[slot] = Content(openedAt[d])[slot]

\* However stale the publisher's handle is, its publication changes a slot it
\* has not set only where another device's publication has changed that slot
\* since the handle was opened: the updates lost are those its owner would
\* have seen by resolving again, and nothing else moves.  It is the root check
\* of the resolution and the frame of set and commit_root together.
OnlyUnseenWorkIsUndone ==
    [][\A d \in Devices :
        Publish(d) => Changed(chainRoot, chainRoot') \subseteq
                        touched[d] \cup unseen[d]
      ]_vars
=============================================================================
