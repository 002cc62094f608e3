------------------------ MODULE SharedProfile_proofs ------------------------
(* Theorems about SharedProfile, for every set of devices, slots and values. *)
EXTENDS SharedProfile, TLAPS

Handles == [metadata : Contents, root : Roots]

\* What TypeOK says of one device's handle, which is a record besides.
Untouched(h, opened, slots) ==
    /\ h \in Handles /\ opened \in Roots
    /\ \A slot \in Slots \ slots :
        /\ h.metadata[slot] = Content(opened)[slot]
        /\ Content(h.root)[slot] = Content(opened)[slot]

\* Since a device opened, the chain has moved in the slots the device set or
\* others published, and in no other.
MovedOnly(opened, slots) ==
    \A slot \in Slots \ slots : Content(chainRoot)[slot] = Content(opened)[slot]

Inv ==
    /\ chainRoot \in Roots
    /\ DOMAIN handle = Devices /\ DOMAIN openedAt = Devices
    /\ DOMAIN touched = Devices /\ DOMAIN unseen = Devices
    /\ \A d \in Devices : handle[d] # NoHandle =>
            /\ Untouched(handle[d], openedAt[d], touched[d])
            /\ MovedOnly(openedAt[d], touched[d] \cup unseen[d])

\* A root commits to one profile: the leaves determine every slot.
LEMMA RootDetermines ==
    ASSUME NEW p \in Contents, NEW q \in Contents, BuildRoot(p) = BuildRoot(q)
    PROVE  p = q
  <1>1. ASSUME NEW slot \in Slots PROVE p[slot] = q[slot]
    <2>1. <<slot, p[slot]>> \in BuildRoot(q)
      BY DEF BuildRoot, LeafOf, Contents
    <2> QED  BY <2>1 DEF BuildRoot, LeafOf, Contents
  <1> QED  BY <1>1 DEF Contents

LEMMA ContentOfRoot ==
    ASSUME NEW p \in Contents
    PROVE  BuildRoot(p) \in Roots /\ Content(BuildRoot(p)) = p
  <1>1. Content(BuildRoot(p)) \in Contents
        /\ BuildRoot(Content(BuildRoot(p))) = BuildRoot(p)
    BY DEF Content
  <1> QED  BY <1>1, RootDetermines DEF Roots

LEMMA SetSlotStays ==
    ASSUME NEW p \in Contents, NEW slot \in Slots, NEW value \in Values
    PROVE  /\ SetSlot(p, slot, value) \in Contents
           /\ \A s \in Slots \ {slot} : SetSlot(p, slot, value)[s] = p[s]
  BY DEF SetSlot, Contents

----------------------------------------------------------------------------
LEMMA OpenStep ==
    ASSUME Inv, NEW d \in Devices, NEW body \in Contents, Open(d, body)
    PROVE  Inv'
  <1>1. /\ chainRoot = BuildRoot(body) /\ UNCHANGED chainRoot
        /\ handle' = [handle EXCEPT ![d] = Opened(body)]
        /\ openedAt' = [openedAt EXCEPT ![d] = chainRoot]
        /\ touched' = [touched EXCEPT ![d] = {}]
        /\ unseen' = [unseen EXCEPT ![d] = {}]
    BY DEF Open
  <1>2. Untouched(Opened(body), chainRoot, {})
    BY <1>1, ContentOfRoot DEF Untouched, Handles, Opened
  <1>3. ASSUME NEW e \in Devices, handle'[e] # NoHandle
        PROVE  /\ Untouched(handle'[e], openedAt'[e], touched'[e])
               /\ MovedOnly(openedAt[e], touched[e] \cup unseen[e])'
    <2>1. CASE e = d
      BY <1>1, <1>2, <2>1 DEF Inv, MovedOnly
    <2>2. CASE e # d
      BY <1>1, <1>3, <2>2 DEF Inv, MovedOnly
    <2> QED  BY <2>1, <2>2
  <1> QED  BY <1>1, <1>3 DEF Inv

LEMMA EditStep ==
    ASSUME Inv, NEW d \in Devices, NEW slot \in Slots, NEW value \in Values,
           Edit(d, slot, value)
    PROVE  Inv'
  <1> DEFINE h == [handle[d] EXCEPT !.metadata =
                        SetSlot(handle[d].metadata, slot, value)]
  <1>1. /\ handle[d] # NoHandle /\ handle' = [handle EXCEPT ![d] = h]
        /\ touched' = [touched EXCEPT ![d] = touched[d] \cup {slot}]
        /\ UNCHANGED <<chainRoot, openedAt, unseen>>
    BY DEF Edit, Inv
  <1>2. Untouched(handle[d], openedAt[d], touched[d])
    BY <1>1 DEF Inv
  <1>3. /\ h.metadata = SetSlot(handle[d].metadata, slot, value)
        /\ h.root = handle[d].root /\ h.metadata \in Contents /\ h \in Handles
        /\ \A s \in Slots \ {slot} : h.metadata[s] = handle[d].metadata[s]
    BY <1>2, SetSlotStays DEF Untouched, Handles
  <1> HIDE DEF h
  <1>4. Untouched(h, openedAt[d], touched[d] \cup {slot})
    BY <1>2, <1>3 DEF Untouched
  <1>5. ASSUME NEW e \in Devices, handle'[e] # NoHandle
        PROVE  /\ Untouched(handle'[e], openedAt'[e], touched'[e])
               /\ MovedOnly(openedAt[e], touched[e] \cup unseen[e])'
    <2>1. CASE e = d
      BY <1>1, <1>4, <2>1 DEF Inv, MovedOnly
    <2>2. CASE e # d
      BY <1>1, <1>5, <2>2 DEF Inv, MovedOnly
    <2> QED  BY <2>1, <2>2
  <1> QED  BY <1>1, <1>5 DEF Inv

LEMMA CommitStep ==
    ASSUME Inv, NEW d \in Devices, CommitRoot(d)
    PROVE  Inv'
  <1> DEFINE h == [handle[d] EXCEPT !.root = BuildRoot(handle[d].metadata)]
  <1>1. /\ handle[d] # NoHandle /\ handle' = [handle EXCEPT ![d] = h]
        /\ UNCHANGED <<chainRoot, openedAt, touched, unseen>>
    BY DEF CommitRoot, Inv
  <1>2. Untouched(handle[d], openedAt[d], touched[d])
    BY <1>1 DEF Inv
  <1>3. /\ h.metadata = handle[d].metadata
        /\ h.root \in Roots /\ Content(h.root) = h.metadata /\ h \in Handles
    BY <1>2, ContentOfRoot DEF Untouched, Handles
  <1> HIDE DEF h
  <1>4. Untouched(h, openedAt[d], touched[d])
    BY <1>2, <1>3 DEF Untouched
  <1>5. ASSUME NEW e \in Devices, handle'[e] # NoHandle
        PROVE  /\ Untouched(handle'[e], openedAt'[e], touched'[e])
               /\ MovedOnly(openedAt[e], touched[e] \cup unseen[e])'
    <2>1. CASE e = d
      BY <1>1, <1>4, <2>1 DEF Inv, MovedOnly
    <2>2. CASE e # d
      BY <1>1, <1>5, <2>2 DEF Inv, MovedOnly
    <2> QED  BY <2>1, <2>2
  <1> QED  BY <1>1, <1>5 DEF Inv

\* What a publication changes: nothing outside the slots the publisher set
\* and those others published since it opened.
LEMMA PublishedSlots ==
    ASSUME Inv, NEW d \in Devices, Publish(d)
    PROVE  Changed(chainRoot, chainRoot') \subseteq touched[d] \cup unseen[d]
  <1>1. handle[d] # NoHandle /\ chainRoot' = handle[d].root
    BY DEF Publish
  <1>2. /\ Untouched(handle[d], openedAt[d], touched[d])
        /\ MovedOnly(openedAt[d], touched[d] \cup unseen[d])
    BY <1>1 DEF Inv
  <1>3. ASSUME NEW slot \in Slots, slot \notin touched[d] \cup unseen[d]
        PROVE  Content(chainRoot)[slot] = Content(chainRoot')[slot]
    BY <1>1, <1>2, <1>3 DEF Untouched, MovedOnly
  <1> QED  BY <1>3 DEF Changed

LEMMA PublishStep ==
    ASSUME Inv, NEW d \in Devices, Publish(d)
    PROVE  Inv'
  <1>1. /\ handle[d] # NoHandle /\ chainRoot' = handle[d].root
        /\ UNCHANGED <<handle, openedAt, touched>>
        /\ unseen' = [e \in Devices |->
                        IF e = d THEN unseen[e]
                        ELSE unseen[e] \cup Changed(chainRoot, chainRoot')]
    BY DEF Publish
  <1>2. chainRoot' \in Roots
    BY <1>1 DEF Inv, Untouched, Handles
  <1>3. ASSUME NEW e \in Devices, handle[e] # NoHandle,
               NEW slot \in Slots, slot \notin touched[e] \cup unseen'[e]
        PROVE  Content(chainRoot')[slot] = Content(openedAt[e])[slot]
    <2>1. slot \notin touched[e] \cup unseen[e]
      BY <1>1, <1>3
    <2>2. slot \notin Changed(chainRoot, chainRoot')
      <3>1. CASE e = d
        BY <2>1, <3>1, PublishedSlots
      <3>2. CASE e # d
        BY <1>1, <1>3, <3>2
      <3> QED  BY <3>1, <3>2
    <2>3. Content(chainRoot)[slot] = Content(openedAt[e])[slot]
      BY <1>3, <2>1 DEF Inv, MovedOnly
    <2> QED  BY <2>2, <2>3 DEF Changed
  <1>4. \A e \in Devices : handle[e] # NoHandle =>
            MovedOnly(openedAt[e], touched[e] \cup unseen[e])'
    BY <1>1, <1>3 DEF MovedOnly
  <1> QED  BY <1>1, <1>2, <1>4 DEF Inv

LEMMA Invariant == Spec => []Inv
  <1>1. Init => Inv
    BY DEF Init, Inv
  <1>2. Inv /\ [Next]_vars => Inv'
    <2> SUFFICES ASSUME Inv, [Next]_vars PROVE Inv'
      OBVIOUS
    <2>1. CASE UNCHANGED vars
      BY <2>1 DEF vars, Inv, MovedOnly
    <2> QED  BY <2>1, OpenStep, EditStep, CommitStep, PublishStep DEF Next
  <1> QED  BY <1>1, <1>2, PTL DEF Spec

\* However many devices edit, commit and publish, and in whatever order, each
\* differs from what it opened in no slot but those it has set.
THEOREM TypeCorrect == Spec => []TypeOK
  <1>1. Inv => TypeOK
    BY DEF Inv, Untouched, Handles, TypeOK
  <1> QED  BY <1>1, Invariant, PTL

\* Whatever handle a device publishes from, fresh or stale, the publication
\* changes only slots the device has set or others have published since the
\* handle was opened.
THEOREM UndoesOnlyUnseenWork == Spec => OnlyUnseenWorkIsUndone
  <1> DEFINE Within == \A d \in Devices :
                Publish(d) => Changed(chainRoot, chainRoot') \subseteq
                                touched[d] \cup unseen[d]
  <1>1. Inv /\ [Next]_vars => [Within]_vars
    BY PublishedSlots
  <1> QED  BY <1>1, Invariant, PTL DEF Spec, OnlyUnseenWorkIsUndone
=============================================================================
