----------------------------- MODULE ProfileView -----------------------------
(* The typed view of a profile (profile.rs), the ranges of slot ids          *)
(* (slot.rs) and the payment address (xch.rs).  A writer edits a profile; a  *)
(* reader puts one together from the slot values it comes by, in any order,  *)
(* superseded ones among them.  Payloads of Utf8 values are strings of       *)
(* Pairing's Texts.                                                          *)
EXTENDS Pairing, ProfileData, FiniteSets

CONSTANTS
    Slots,    \* the ids edited, of every range
    Values,   \* the values written: [tag, width, payload]
    MaxEdits  \* bound: different slot values the writer writes

ASSUME SlotAssumption == Slots \subseteq Nat

SCHEMA_VERSION == 0
DISPLAY_NAME   == 1
BIO            == 2
XCH_ADDRESS    == 8

SCHEMA_VERSION_V2 == [tag |-> "U16", width |-> 2, payload |-> "2"]

IsFutureStandard(slot) == slot <= 255

\* Mutant of IsEcosystemExtension: the lower bound has drifted down.
IsEcosystemOrKey(slot) == 16 <= slot /\ slot <= 4095

IsEcosystemExtension(slot) == 256 <= slot /\ slot <= 4095

IsCustom(slot) == 4096 <= slot /\ slot <= 61439

IsEncryptedReserved(slot) == slot >= 61440

XCH_ADDRESS_HRP == "xch"

\* parse_xch_address returns Some exactly on these strings.
IsValidXchAddress(address) ==
    LET candidate == Trim[address]
    IN  /\ Decode[candidate] # NoAddress
        /\ Decode[candidate].prefix = XCH_ADDRESS_HRP

\* The accessor returns the slot's string as it is written.
XchAddress(profile) ==
    LET raw == Tagged(profile, XCH_ADDRESS, "Utf8")
    IN  IF raw # Absent /\ IsValidXchAddress(raw) THEN raw ELSE Absent

View(profile) ==
    [schema_version |-> Tagged(profile, SCHEMA_VERSION, "U16"),
     display_name   |-> Tagged(profile, DISPLAY_NAME, "Utf8"),
     bio            |-> Tagged(profile, BIO, "Utf8"),
     xch_address    |-> XchAddress(profile),
     keys           |-> ResolveKeys(profile)]

WithSchemaV2 == SetSlot(EmptyProfile, SCHEMA_VERSION, SCHEMA_VERSION_V2)

----------------------------------------------------------------------------
VARIABLES
    writer,  \* the writer's profile
    reader,  \* the profile the reader has put together so far
    written  \* history: every slot value written, which a reader may come by

vars == <<writer, reader, written>>

Blank == {EmptyProfile, WithSchemaV2}

Init ==
    /\ writer \in Blank
    /\ reader = EmptyProfile
    /\ written = {}

Edit(slot, value) ==
    /\ writer' = SetSlot(writer, slot, value)
    /\ written' = written \cup {<<slot, value>>}
    /\ Cardinality(written') <= MaxEdits
    /\ UNCHANGED reader

\* The reader sets what some edit wrote, now or earlier.
Assemble(slot, value) ==
    /\ reader' = SetSlot(reader, slot, value)
    /\ UNCHANGED <<writer, written>>

StartOver(profile) ==
    /\ reader' = profile
    /\ UNCHANGED <<writer, written>>

Next ==
    \/ \E slot \in Slots, value \in Values : Edit(slot, value)
    \/ \E edit \in written : Assemble(edit[1], edit[2])
    \/ \E profile \in Blank : StartOver(profile)

Spec == Init /\ [][Next]_vars

----------------------------------------------------------------------------
\* Properties.

\* The ranges a slot id is in, of the four slot.rs allots.
Ranges == {"standard", "ecosystem", "custom", "encrypted"}

RangesOf(slot) ==
    {r \in Ranges : \/ r = "standard" /\ IsFutureStandard(slot)
                    \/ r = "ecosystem" /\ IsEcosystemExtension(slot)
                    \/ r = "custom" /\ IsCustom(slot)
                    \/ r = "encrypted" /\ IsEncryptedReserved(slot)}

Foreign(slot) ==
    \/ IsEcosystemExtension(slot)
    \/ IsCustom(slot)
    \/ IsEncryptedReserved(slot)

Agree(slot) ==
    IF slot \in DOMAIN writer
    THEN slot \in DOMAIN reader /\ reader[slot] = writer[slot]
    ELSE slot \notin DOMAIN reader

\* slot.rs: a reader ignores slots it does not recognise.  Every id is in one
\* range alone, and whatever newer writers, extensions and applications put in
\* slots outside the standard range, two profiles that agree on the standard
\* slots look the same to the accessors.
ForeignSlotsAreIgnored ==
    /\ \A slot \in Slots : \E r \in Ranges : RangesOf(slot) = {r}
    /\ (\A slot \in DOMAIN writer \cup DOMAIN reader : Foreign(slot) \/ Agree(slot))
        => View(reader) = View(writer)

\* profile.rs: the returned string can be used as a payment destination; that
\* is, it decodes as it stands.
AddressIsPayable ==
    \A profile \in {writer, reader} :
        View(profile).xch_address # Absent =>
            Decode[View(profile).xch_address] # NoAddress
===============================================================================
