------------------------------ MODULE Pairing ------------------------------
(* The DID codec (did.rs) and the DID-to-store pairing predicate             *)
(* (pairing.rs).  Strings are members of Texts; what trimming and the        *)
(* canonical bech32m Address codec do to them is given by Trim and Decode.   *)
CONSTANTS
    Texts,        \* every string a did_uri or a store description can be
    LauncherIds,  \* the 32-byte payloads an address can carry
    Trim,         \* Trim[t]: t without its surrounding whitespace
    Decode,       \* Decode[t]: the address t encodes, or NoAddress
    NoAddress     \* Address::decode failed

DID_CHIA_PREFIX == "did:chia:"

Addresses == [prefix : STRING, puzzle_hash : LauncherIds]

\* The string library trims to a fixed point; the codec accepts or rejects.
ASSUME CodecAssumption ==
    /\ Trim \in [Texts -> Texts]
    /\ \A t \in Texts : Trim[Trim[t]] = Trim[t]
    /\ DOMAIN Decode = Texts
    /\ \A t \in Texts : Decode[t] # NoAddress => Decode[t] \in Addresses

Did == [text : Texts, launcher_id : LauncherIds]

\* parse_did_from_description returns Some exactly on these strings.
Parses(description) ==
    LET candidate == Trim[description]
    IN  /\ Decode[candidate] # NoAddress
        /\ Decode[candidate].prefix = DID_CHIA_PREFIX

ParseDid(description) ==
    LET candidate == Trim[description]
    IN  [text |-> candidate, launcher_id |-> Decode[candidate].puzzle_hash]

----------------------------------------------------------------------------
\* A lineage always contains its tip, whatever member set it is built from.
NewLineage(tip, members) == [tip |-> tip, members |-> members \cup {tip}]

\* Mutant of Contains: only the tip counts.
IsTip(lineage, coin) == coin = lineage.tip

Contains(lineage, coin) == coin \in lineage.members

IdentitySingleton(did, lineage) == [did |-> did, lineage |-> lineage]

\* The launcher coin hashes to the launcher id; the model keeps the id beside
\* the one field of the coin the predicate reads.
StoreRecord(description, parent, id) ==
    [description |-> description,
     launcher_coin |-> [parent_coin_info |-> parent, coin_id |-> id]]

LauncherId(store) == store.launcher_coin.coin_id

----------------------------------------------------------------------------
\* Mutant of EvaluatePairing: a store that names the DID is the DID's.
EvaluateDiscoveryOnly(store, singleton) ==
    [discovery_matches |->
        /\ Parses(store.description)
        /\ ParseDid(store.description) = singleton.did,
     authority_matches |-> TRUE]

\* Both links are evaluated, neither short-circuits the other.
EvaluatePairing(store, singleton) ==
    [discovery_matches |->
        /\ Parses(store.description)
        /\ ParseDid(store.description) = singleton.did,
     authority_matches |->
        Contains(singleton.lineage, store.launcher_coin.parent_coin_info)]

\* Mutant of IsAuthoritative: either link is enough.
IsHalfAuthoritative(outcome) ==
    outcome.discovery_matches \/ outcome.authority_matches

IsAuthoritative(outcome) ==
    outcome.discovery_matches /\ outcome.authority_matches

IsAuthoritativeProfile(store, singleton) ==
    IsAuthoritative(EvaluatePairing(store, singleton))

StoreBelongsToDid(store, singleton) == IsAuthoritativeProfile(store, singleton)
============================================================================
