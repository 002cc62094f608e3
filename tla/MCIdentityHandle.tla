--------------------------- MODULE MCIdentityHandle ---------------------------
(* One DID spent twice since launch, its store launched by a past coin, a    *)
(* store of a foreign coin that names the DID, and one of the DID's coins    *)
(* that names nothing; two slots whose keys share their first bit.           *)
EXTENDS IdentityHandle

MCTexts == {"did:A", "memo"}
MCTrim == [t \in MCTexts |-> t]
MCDecode == [t \in MCTexts |->
    IF t = "did:A" THEN [prefix |-> "did:chia:", puzzle_hash |-> "A"]
                   ELSE NoAddress]

MCSingleton == IdentitySingleton([text |-> "did:A", launcher_id |-> "A"],
                                 NewLineage("c2", {"c0", "c1"}))
MCStore == StoreRecord("did:A", "c1", "s1")
MCStores == {MCStore, StoreRecord("did:A", "x", "s2"),
             StoreRecord("memo", "c1", "s3")}

MCKeyBits == [s \in Slots |-> IF s = 1 THEN <<0, 0>> ELSE <<0, 1>>]
===============================================================================
