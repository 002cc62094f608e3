-------------------------- MODULE ProfileView_proofs --------------------------
(* Theorems about ProfileView, for every set of slots, values and texts.     *)
EXTENDS ProfileView, TLAPS

\* Each of the four ranges begins where the one before it ends, so that every
\* id is in one of them and in no other.
LEMMA RangesPartition ==
    ASSUME NEW slot \in Nat
    PROVE  /\ \E r \in Ranges : RangesOf(slot) = {r}
           /\ IsFutureStandard(slot) => ~Foreign(slot)
  <1> USE DEF IsFutureStandard, IsEcosystemExtension, IsCustom,
              IsEncryptedReserved, Ranges, RangesOf, Foreign
  <1>1. CASE slot <= 255
    <2>1. RangesOf(slot) = {"standard"} /\ ~Foreign(slot)
      BY <1>1
    <2> QED  BY <2>1
  <1>2. CASE 256 <= slot /\ slot <= 4095
    <2>1. RangesOf(slot) = {"ecosystem"} /\ ~IsFutureStandard(slot)
      BY <1>2
    <2> QED  BY <2>1
  <1>3. CASE 4096 <= slot /\ slot <= 61439
    <2>1. RangesOf(slot) = {"custom"} /\ ~IsFutureStandard(slot)
      BY <1>3
    <2> QED  BY <2>1
  <1>4. CASE 61440 <= slot
    <2>1. RangesOf(slot) = {"encrypted"} /\ ~IsFutureStandard(slot)
      BY <1>4
    <2> QED  BY <2>1
  <1> QED  BY <1>1, <1>2, <1>3, <1>4

\* An accessor's slot is in the standard range, where the profiles agree.
LEMMA StandardSlotsAgree ==
    ASSUME \A slot \in DOMAIN writer \cup DOMAIN reader : Foreign(slot) \/ Agree(slot),
           NEW slot \in 0..255
    PROVE  /\ slot \in DOMAIN writer <=> slot \in DOMAIN reader
           /\ slot \in DOMAIN writer => reader[slot] = writer[slot]
  <1>1. slot \in Nat /\ IsFutureStandard(slot)
    BY DEF IsFutureStandard
  <1>2. ~Foreign(slot)
    BY <1>1, RangesPartition, Zenon
  <1>3. slot \in DOMAIN writer \cup DOMAIN reader => Agree(slot)
    BY <1>2
  <1> QED  BY <1>3 DEF Agree

\* What the accessors hand out depends on no slot outside the standard range,
\* whatever newer writers, extensions and applications set there; the four
\* ranges leave no id out and share none.
THEOREM ForeignSlotsDoNotShow == Spec => []ForeignSlotsAreIgnored
  <1>1. ForeignSlotsAreIgnored
    <2>1. \A slot \in Slots : \E r \in Ranges : RangesOf(slot) = {r}
      BY SlotAssumption, RangesPartition, Zenon DEF SlotAssumption
    <2>2. ASSUME \A slot \in DOMAIN writer \cup DOMAIN reader :
                    Foreign(slot) \/ Agree(slot)
          PROVE  View(reader) = View(writer)
      <3>1. \A tag : /\ \A slot \in 0..255 :
                            Tagged(reader, slot, tag) = Tagged(writer, slot, tag)
                     /\ \A slot \in 0..255 :
                            BytesOfWidth(reader, slot, tag)
                                = BytesOfWidth(writer, slot, tag)
        BY <2>2, StandardSlotsAgree DEF Tagged, BytesOfWidth
      <3>2. ResolveKeys(reader) = ResolveKeys(writer)
        BY <3>1 DEF ResolveKeys, BLS_G1_PUBLIC_KEY, PEER_ID, KEY_EPOCH
      <3>3. XchAddress(reader) = XchAddress(writer)
        BY <3>1 DEF XchAddress, XCH_ADDRESS
      <3> QED  BY <3>1, <3>2, <3>3 DEF View, SCHEMA_VERSION, DISPLAY_NAME, BIO
    <2> QED  BY <2>1, <2>2 DEF ForeignSlotsAreIgnored
  <1> QED  BY <1>1, PTL
=============================================================================
