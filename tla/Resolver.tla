------------------------------ MODULE Resolver ------------------------------
(* resolve_identity_profile (resolve.rs): one call makes three reads of the  *)
(* chain through its ChainSource, and everything it decides between two of   *)
(* them is decided on what the earlier ones returned.  Each action is one    *)
(* read with all the code runs on its result; the chain may move in between. *)
EXTENDS ResolutionWindow, ProfileData

CONSTANTS
    Bodies,         \* profile bodies a source can hold
    SourceFaults,   \* TRUE: a read may fail, a body may be stale or tampered
    Repeats,        \* TRUE: a scan may return one store more than once
    MaxCandidates,  \* bound: candidates one scan returns
    NoAnswer, None

VARIABLES
    pc,         \* "idle", or the read the open call makes next
    singleton,  \* the IdentitySingleton built from the lineage read, or None
    chosen,     \* the ChainStoreState the scan settled on, or None
    answer      \* the Result of the last call; NoAnswer while one is open

vars == <<chain, window, pc, singleton, chosen, answer>>

Singletons == [did : Did, lineage : [tip : Coins, members : SUBSET Coins]]
StoreRecords == [description : Texts,
                 launcher_coin : [parent_coin_info : Coins,
                                  coin_id : StoreIds]]
ChainStoreStates == [store : StoreRecords, root_hash : Roots]
IdentityProfiles == [singleton : Singletons, store : StoreRecords,
                     metadata : Bodies, root : Roots]
ResolveErrors == {"InvalidDid", "NoIdentitySingleton", "NoProfile",
                  "AmbiguousProfile", "StaleOrTamperedRoot", "Format", "Chain"}

\* A scan can return candidates; a source with no faults holds every body.
ASSUME ResolverAssumption ==
    /\ MaxCandidates \in Nat
    /\ {SourceFaults, Repeats} \subseteq BOOLEAN
    /\ SourceFaults \/ Roots \subseteq {BuildRoot(b) : b \in Bodies}
    /\ NoAnswer \notin [kind : {"Ok"}, profile : IdentityProfiles]
    /\ \A b \in Bodies : \A s \in DOMAIN b : b[s].payload # Absent

----------------------------------------------------------------------------
\* The source.  Each read tells the chain's state at the instant it is made.

TipLineage(d) == NewLineage(Coin(d, tip[d]), Lineage(d))

StateOf(s) ==
    [store |-> StoreRecord(store[s].description, store[s].parent, s),
     root_hash |-> store[s].root]

NamedBy(did) == {s \in Launched : /\ Parses(store[s].description)
                                  /\ ParseDid(store[s].description) = did}

\* Every store that names the DID is returned; others may be returned too.
Scans(did) ==
    {c \in UNION {[1..n -> {StateOf(s) : s \in Launched}] :
                    n \in 0..MaxCandidates} :
        /\ \A s \in NamedBy(did) : \E i \in DOMAIN c : c[i] = StateOf(s)
        /\ Repeats \/ \A i, j \in DOMAIN c : c[i] = c[j] => i = j}

\* The content served for a store: the store's own at that instant, or,
\* from a faulty source, any content at all.
Served(s) == IF SourceFaults THEN Bodies
             ELSE {b \in Bodies : BuildRoot(b) = store[s].root}

----------------------------------------------------------------------------
\* The call returns; nothing of it is kept but the answer.
Return(result) ==
    /\ answer' = result
    /\ pc' = "idle" /\ singleton' = None /\ chosen' = None
    /\ CloseWindow

Fail(error) == Return([kind |-> error])

ReadFails(read) == pc = read /\ SourceFaults /\ Fail("Chain") /\ UNCHANGED chain

\* Did::parse, before anything is read.
ResolveIdentityProfile(did_uri) ==
    /\ pc = "idle"
    /\ IF Parses(did_uri)
       THEN pc' = "lineage" /\ OpenWindow(did_uri) /\ answer' = NoAnswer
       ELSE answer' = [kind |-> "InvalidDid"] /\ UNCHANGED <<pc, window>>
    /\ UNCHANGED <<chain, singleton, chosen>>

ResolveSingletonLineage ==
    /\ pc = "lineage"
    /\ LET did == ParseDid(request)
       IN  IF did.launcher_id \in Live
           THEN /\ pc' = "scan"
                /\ singleton' =
                    IdentitySingleton(did, TipLineage(did.launcher_id))
                /\ UNCHANGED <<window, chosen, answer>>
           ELSE Fail("NoIdentitySingleton")
    /\ UNCHANGED chain

Authentic(candidates) ==
    {i \in DOMAIN candidates :
        IsAuthoritativeProfile(candidates[i].store, singleton)}

\* The filter keeps the authentic candidates; exactly one may be left.
FindStoresForDid ==
    /\ pc = "scan"
    /\ \E candidates \in Scans(singleton.did) :
        \/ Authentic(candidates) = {} /\ Fail("NoProfile")
        \/ /\ \E i, j \in Authentic(candidates) : i # j
           /\ Fail("AmbiguousProfile")
        \/ \E i \in DOMAIN candidates :
            /\ Authentic(candidates) = {i}
            /\ chosen' = candidates[i]
            /\ pc' = "fetch"
            /\ UNCHANGED <<window, singleton, answer>>
    /\ UNCHANGED chain

\* IdentityProfile::resolve re-runs the pairing predicate on construction
\* and keeps the root it computes from the content.
IdentityProfile(content) ==
    IF StoreBelongsToDid(chosen.store, singleton)
    THEN [kind |-> "Ok",
          profile |-> [singleton |-> singleton, store |-> chosen.store,
                       metadata |-> content, root |-> BuildRoot(content)]]
    ELSE [kind |-> "Format"]

\* Mutant of FetchProfile: a body that does not match is fetched again, from
\* a new scan.
FetchProfileWithRetry ==
    /\ pc = "fetch"
    /\ \E content \in Served(LauncherId(chosen.store)) :
        IF BuildRoot(content) # chosen.root_hash
        THEN pc' = "scan" /\ chosen' = None /\ UNCHANGED <<window, singleton, answer>>
        ELSE Return(IdentityProfile(content))
    /\ UNCHANGED chain

\* Mutant of FetchProfile: the content is taken without its root check.
FetchProfileUnchecked ==
    /\ pc = "fetch"
    /\ \E content \in Served(LauncherId(chosen.store)) :
        Return(IdentityProfile(content))
    /\ UNCHANGED chain

FetchProfile ==
    /\ pc = "fetch"
    /\ \E content \in Served(LauncherId(chosen.store)) :
        IF BuildRoot(content) # chosen.root_hash
        THEN Fail("StaleOrTamperedRoot")
        ELSE Return(IdentityProfile(content))
    /\ UNCHANGED chain

ResolverStep == \/ ResolveSingletonLineage \/ FindStoresForDid \/ FetchProfile
                \/ ReadFails("lineage") \/ ReadFails("scan") \/ ReadFails("fetch")

ChainMoves == WidenWindow /\ UNCHANGED <<pc, singleton, chosen, answer>>

Init == /\ ChainInit /\ ClosedWindow
        /\ pc = "idle" /\ singleton = None /\ chosen = None
        /\ answer = NoAnswer

Next == \/ \E did_uri \in Texts : ResolveIdentityProfile(did_uri)
        \/ ResolverStep
        \/ ChainMoves

Spec == Init /\ [][Next]_vars

\* Every read of the source returns; the code between two reads never waits.
FairSpec == Spec /\ WF_vars(ResolverStep)

----------------------------------------------------------------------------
\* What the two narrower entry points make of the answer.

ResolveDidKeys(result) ==
    IF result.kind = "Ok"
    THEN [kind |-> "Ok", keys |-> ResolveKeys(result.profile.metadata)]
    ELSE result

ResolveBlsPublicKey(result) ==
    LET resolved == ResolveDidKeys(result)
    IN  IF resolved.kind # "Ok" THEN resolved
        ELSE IF resolved.keys.bls_g1_public_key = Absent
        THEN [kind |-> "NoIdentityKey"]
        ELSE [kind |-> "Ok", key |-> resolved.keys.bls_g1_public_key]

----------------------------------------------------------------------------
\* Properties.

\* Every variable keeps its type: what a call has learnt is there from the
\* read that learnt it until the call returns, and an accepted profile
\* carries a root that a store can commit to, whatever content was served.
TypeOK ==
    /\ ChainTypeOK
    /\ WindowTypeOK
    /\ pc \in {"idle", "lineage", "scan", "fetch"}
    /\ (pc = "idle") <=> (request = NoRequest)
    /\ IF pc \in {"scan", "fetch"} THEN singleton \in Singletons
                                  ELSE singleton = None
    /\ IF pc = "fetch" THEN chosen \in ChainStoreStates ELSE chosen = None
    /\ answer \in {NoAnswer} \cup [kind : ResolveErrors]
                 \cup [kind : {"Ok"}, profile : IdentityProfiles]

\* What an open call has learnt stays true of the chain while the chain
\* moves: its lineage is a past of the DID's own, which contains the parent
\* of every store that was the DID's all along, and the store it chose was
\* the DID's, with the root it read, during the call.
WindowIsCurrent ==
    request # NoRequest =>
        /\ throughout \subseteq Owned(request)
        /\ Rooted(request) \subseteq witnessed
        /\ Contested(request) => contested
        /\ IF Anchored(request) THEN anchored ELSE anchorless

LineageIsPast ==
    pc \in {"scan", "fetch"} =>
        /\ anchored
        /\ singleton.did = ParseDid(request)
        /\ singleton.lineage.members \subseteq Lineage(Anchor(request))
        /\ \A s \in throughout : store[s].parent \in singleton.lineage.members

ChoiceIsOwned ==
    pc = "fetch" =>
        /\ StoreBelongsToDid(chosen.store, singleton)
        /\ <<LauncherId(chosen.store), chosen.root_hash>> \in witnessed
        /\ throughout \subseteq {LauncherId(chosen.store)}

LearntStaysTrue == WindowIsCurrent /\ LineageIsPast /\ ChoiceIsOwned

Verdict ==
    IF answer = NoAnswer THEN NoAnswer
    ELSE IF answer.kind = "Ok"
    THEN [kind |-> "Ok", store |-> LauncherId(answer.profile.store),
          root |-> answer.profile.root]
    ELSE answer

Contract == INSTANCE ResolveContract WITH verdict <- Verdict

\* However the chain moves between the three reads, the call answers only
\* what something on chain during the call justifies: an accepted store was
\* the DID's, under the root its content hashes to; a store that was the
\* DID's all along is found, and two of them are never resolved to one; the
\* predicate that resolve() re-runs never fails on the store chosen.
ImplementsContract == Contract!Spec

\* With the chain at rest, the three reads give the answer one atomic look at
\* the chain would give, errors included, unless the source itself fails: a
\* read that errors, or other content than the accepted store's.
AtomicAnswer(u) ==
    IF ~Anchored(u) THEN [kind |-> "NoIdentitySingleton"]
    ELSE IF Owned(u) = {} THEN [kind |-> "NoProfile"]
    ELSE IF Contested(u) THEN [kind |-> "AmbiguousProfile"]
    ELSE LET s == CHOOSE s \in Owned(u) : TRUE
         IN  [kind |-> "Ok", store |-> s, root |-> store[s].root]

Returns == request # NoRequest /\ request' = NoRequest

FaultShows(v, u) == SourceFaults /\ \/ v.kind = "Chain"
                                    \/ /\ v.kind = "StaleOrTamperedRoot"
                                       /\ AtomicAnswer(u).kind = "Ok"

ExactWhenQuiet ==
    [][Returns /\ quiet => \/ Verdict' = AtomicAnswer(request)
                           \/ FaultShows(Verdict', request)]_vars

\* The BLS key handed out is the 48-byte key leaf under a root that the
\* accepted store had on chain during the call, while it was the DID's; a
\* caller is told there is no key only when such a root commits to none.
KeysUnder(root) == {leaf[2].payload : leaf \in {l \in root :
                        /\ l[1] = BLS_G1_PUBLIC_KEY
                        /\ l[2].tag = "Bytes" /\ l[2].width = 48}}

KeyIsCommitted ==
    [][Returns =>
        LET bls == ResolveBlsPublicKey(answer') IN
        bls.kind \in {"Ok", "NoIdentityKey"} =>
            \E root \in Roots :
                /\ <<LauncherId(answer'.profile.store), root>> \in witnessed
                /\ KeysUnder(root) = IF bls.kind = "Ok" THEN {bls.key} ELSE {}
      ]_vars

\* A call whose reads return is never stuck, whatever they return.
CallReturns == request # NoRequest ~> request = NoRequest

\* AmbiguousProfile's doc, and "over-returning is safe": the error is given
\* only when two distinct stores were the DID's.
AmbiguousMeansTwoStores ==
    [][Returns /\ answer'.kind = "AmbiguousProfile" => contested]_vars
=============================================================================
