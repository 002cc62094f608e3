--------------------------- MODULE Resolver_proofs ---------------------------
(* Theorems about Resolver, for every chain, every codec and every set of    *)
(* profile bodies: its type invariant, that what it has learnt stays true,   *)
(* that it implements the contract, that the keys it returns are committed,  *)
(* and that a call nothing moved under answers exactly.                      *)
EXTENDS Resolver, TLAPS

USE DEF chain, window

\* A string that parses yields a DID, whatever whitespace surrounded it.
LEMMA ParseType ==
    ASSUME NEW t \in Texts, Parses(t)
    PROVE  /\ ParseDid(t) \in Did
           /\ ParseDid(t).launcher_id = Anchor(t)
           /\ ParseDid(t).text = Trim[t]
  BY CodecAssumption DEF Parses, ParseDid, Did, Addresses, Anchor

\* The code's parse and the contract's notion of a DID string agree.
LEMMA ParseIsValid ==
    ASSUME NEW t \in Texts
    PROVE  Parses(t) <=> ValidDid(t)
  BY CodecAssumption DEF Parses, ValidDid, DID_CHIA_PREFIX

\* What the lineage read returns for a live DID.
LEMMA TipLineageType ==
    ASSUME ChainTypeOK, NEW d \in Live
    PROVE  /\ TipLineage(d) \in [tip : Coins, members : SUBSET Coins]
           /\ TipLineage(d).members = Lineage(d)
  <1>1. tip[d] \in 0..MaxCoins /\ tip[d] > 0 /\ d \in LauncherIds
    BY DEF ChainTypeOK, Live
  <1>2. Coin(d, tip[d]) \in Coins
    BY <1>1 DEF Coin, Coins, DidCoins
  <1>3. Lineage(d) \subseteq Coins
    BY <1>1, ChainAssumption DEF Lineage, Coin, Coins, DidCoins
  <1>4. Coin(d, tip[d]) \in Lineage(d)
    BY <1>1, ChainAssumption DEF Lineage, Coin
  <1> QED  BY <1>2, <1>3, <1>4 DEF TipLineage, NewLineage

\* What the scan returns for a launched store.
LEMMA StateOfType ==
    ASSUME ChainTypeOK, NEW s \in Launched
    PROVE  /\ StateOf(s) \in ChainStoreStates
           /\ LauncherId(StateOf(s).store) = s
           /\ StateOf(s).store.description = store[s].description
           /\ StateOf(s).store.launcher_coin.parent_coin_info = store[s].parent
           /\ StateOf(s).root_hash = store[s].root
  <1>1. s \in StoreIds /\ store[s] \in StoreStates
    BY DEF ChainTypeOK, Launched
  <1> QED
    BY <1>1 DEF StateOf, StoreRecord, ChainStoreStates, StoreRecords,
                StoreStates, LauncherId

\* A scan's candidates are what the chain says of launched stores.
LEMMA CandidateIsStore ==
    ASSUME NEW did, NEW c \in Scans(did), NEW i \in DOMAIN c
    PROVE  \E s \in Launched : c[i] = StateOf(s)
  BY DEF Scans

----------------------------------------------------------------------------
LEMMA ChainTypeStep == ChainTypeOK /\ ChainNext => ChainTypeOK'
  <1> SUFFICES ASSUME ChainTypeOK, ChainNext PROVE ChainTypeOK'
    OBVIOUS
  <1> USE ChainAssumption DEF ChainTypeOK
  <1>1. ASSUME NEW d \in LauncherIds, LaunchDid(d) PROVE ChainTypeOK'
    BY <1>1 DEF LaunchDid
  <1>2. ASSUME NEW d \in LauncherIds, SpendDid(d) PROVE ChainTypeOK'
    BY <1>2 DEF SpendDid
  <1>3. ASSUME NEW d \in LauncherIds, MeltDid(d) PROVE ChainTypeOK'
    BY <1>3 DEF MeltDid
  <1>4. ASSUME NEW s \in StoreIds, NEW t \in Texts, NEW r \in Roots,
               NEW c \in Coins, NewStore(s, c, t, r)
        PROVE  store' \in [StoreIds -> StoreStates \cup {NoStore}]
    <2>1. [parent |-> c, description |-> t, root |-> r, updates |-> 0]
            \in StoreStates
      BY DEF StoreStates
    <2> QED  BY <1>4, <2>1 DEF NewStore
  <1>5. ASSUME NEW s \in StoreIds, NEW t \in Texts, NEW r \in Roots,
               NEW d \in LauncherIds, LaunchStoreFromDid(s, d, t, r)
        PROVE  ChainTypeOK'
    <2>1. Coin(d, tip[d]) \in Coins
      BY <1>5 DEF Coin, Coins, DidCoins
    <2>2. store' \in [StoreIds -> StoreStates \cup {NoStore}]
      BY <1>4, <1>5, <2>1 DEF LaunchStoreFromDid
    <2> QED  BY <1>5, <2>2 DEF LaunchStoreFromDid
  <1>6. ASSUME NEW s \in StoreIds, NEW t \in Texts, NEW r \in Roots,
               NEW c \in ForeignCoins, LaunchStoreElsewhere(s, c, t, r)
        PROVE  ChainTypeOK'
    BY <1>4, <1>6 DEF LaunchStoreElsewhere, Coins
  <1>7. ASSUME NEW s \in StoreIds, NEW t \in Texts, NEW r \in Roots,
               UpdateStore(s, t, r)
        PROVE  ChainTypeOK'
    <2>1. store[s] \in StoreStates
      BY <1>7 DEF UpdateStore, Launched
    <2>2. [store[s] EXCEPT !.description = t, !.root = r, !.updates = @ + 1]
            \in StoreStates
      BY <1>7, <2>1 DEF UpdateStore, StoreStates
    <2>3. store' \in [StoreIds -> StoreStates \cup {NoStore}]
      BY <1>7, <2>2 DEF UpdateStore
    <2> QED  BY <1>7, <2>3 DEF UpdateStore
  <1> QED
    BY <1>1, <1>2, <1>3, <1>5, <1>6, <1>7 DEF ChainNext

\* Opening, widening and closing the window keep its type.
LEMMA OwnedType ==
    ASSUME ChainTypeOK, NEW u
    PROVE  Owned(u) \subseteq StoreIds /\ Rooted(u) \subseteq StoreIds \X Roots
  BY DEF ChainTypeOK, Owned, Rooted, Launched, StoreStates

LEMMA OpenWindowType ==
    ASSUME ChainTypeOK, NEW u \in Texts, Parses(u), OpenWindow(u)
    PROVE  WindowTypeOK'
  BY OwnedType, ParseIsValid DEF WindowTypeOK, OpenWindow, Anchored, Contested,
                                 ValidDid

LEMMA CloseWindowType == CloseWindow => WindowTypeOK'
  BY DEF WindowTypeOK, CloseWindow

LEMMA WidenWindowType ==
    ASSUME ChainTypeOK, WindowTypeOK, WidenWindow
    PROVE  WindowTypeOK'
  <1>1. ChainTypeOK'
    BY ChainTypeStep DEF WidenWindow
  <1>2. /\ Owned(request)' \subseteq StoreIds
        /\ Rooted(request)' \subseteq StoreIds \X Roots
    BY <1>1 DEF ChainTypeOK, Owned, Rooted, Launched, StoreStates
  <1>3. UNCHANGED request
    BY DEF WidenWindow
  <1>4. {Anchored(request), Contested(request)}' \subseteq BOOLEAN
    BY DEF Anchored, Contested
  <1>5. CASE request = NoRequest
    BY <1>5 DEF WindowTypeOK, WidenWindow, ValidDid
  <1>6. CASE request # NoRequest
    <2>1. throughout' \subseteq StoreIds /\ witnessed' \subseteq StoreIds \X Roots
      BY <1>2, <1>6 DEF WindowTypeOK, WidenWindow
    <2>2. {anchored, anchorless, contested, quiet}' \subseteq BOOLEAN
      BY <1>4, <1>6 DEF WindowTypeOK, WidenWindow
    <2>3. request' \in {u \in Texts : ValidDid(u)} \cup {NoRequest}
      BY <1>3 DEF WindowTypeOK, ValidDid
    <2> QED  BY <2>1, <2>2, <2>3 DEF WindowTypeOK, ValidDid
  <1> QED  BY <1>5, <1>6

----------------------------------------------------------------------------
\* A returning call leaves a well-typed state behind, if its result is one.
Results == {NoAnswer} \cup [kind : ResolveErrors]
           \cup [kind : {"Ok"}, profile : IdentityProfiles]

LEMMA ReturnType ==
    ASSUME TypeOK, UNCHANGED chain, NEW result \in Results, Return(result)
    PROVE  TypeOK'
  <1>1. WindowTypeOK'
    BY CloseWindowType DEF Return
  <1>2. ChainTypeOK'
    BY DEF TypeOK, ChainTypeOK
  <1>3. /\ pc' = "idle" /\ request' = NoRequest
        /\ singleton' = None /\ chosen' = None
        /\ answer' \in Results
    BY DEF Return, CloseWindow
  <1> QED  BY <1>1, <1>2, <1>3 DEF TypeOK, Results

LEMMA FailType ==
    ASSUME TypeOK, UNCHANGED chain, NEW error \in ResolveErrors, Fail(error)
    PROVE  TypeOK'
  BY ReturnType DEF Fail, Results

LEMMA ReadFailsType ==
    ASSUME TypeOK, NEW read, ReadFails(read)
    PROVE  TypeOK'
  BY FailType DEF ReadFails, ResolveErrors

LEMMA CallType ==
    ASSUME TypeOK, NEW u \in Texts, ResolveIdentityProfile(u)
    PROVE  TypeOK'
  <1>1. ChainTypeOK'
    BY DEF TypeOK, ChainTypeOK, ResolveIdentityProfile
  <1>2. singleton' = None /\ chosen' = None
    BY DEF TypeOK, ResolveIdentityProfile
  <1>3. CASE Parses(u)
    <2>1. WindowTypeOK' /\ request' = u
      BY <1>3, OpenWindowType DEF TypeOK, ResolveIdentityProfile, OpenWindow
    <2>2. pc' = "lineage" /\ answer' = NoAnswer
      BY <1>3 DEF ResolveIdentityProfile
    <2> QED  BY <1>1, <1>2, <2>1, <2>2, RequestAssumption DEF TypeOK
  <1>4. CASE ~Parses(u)
    <2>1. pc' = pc /\ UNCHANGED window /\ answer' = [kind |-> "InvalidDid"]
      BY <1>4 DEF ResolveIdentityProfile
    <2>2. WindowTypeOK'
      BY <2>1 DEF TypeOK, WindowTypeOK, ValidDid
    <2> QED
      BY <1>1, <1>2, <2>1, <2>2
         DEF TypeOK, ResolveErrors, ResolveIdentityProfile
  <1> QED  BY <1>3, <1>4

LEMMA LineageReadType ==
    ASSUME TypeOK, ResolveSingletonLineage
    PROVE  TypeOK'
  <1> DEFINE did == ParseDid(request)
  <1>1. pc = "lineage" /\ request \in Texts /\ Parses(request)
    BY ParseIsValid DEF TypeOK, WindowTypeOK, ResolveSingletonLineage
  <1>2. did \in Did
    BY <1>1, ParseType
  <1>3. UNCHANGED chain /\ ChainTypeOK /\ ChainTypeOK'
    BY DEF TypeOK, ChainTypeOK, ResolveSingletonLineage
  <1>4. CASE did.launcher_id \in Live
    <2>1. TipLineage(did.launcher_id) \in [tip : Coins, members : SUBSET Coins]
      BY <1>3, <1>4, TipLineageType
    <2>2. /\ pc' = "scan" /\ UNCHANGED <<window, chosen, answer>>
          /\ singleton' = IdentitySingleton(did, TipLineage(did.launcher_id))
      BY <1>4 DEF ResolveSingletonLineage
    <2>3. singleton' \in Singletons
      BY <1>2, <2>1, <2>2 DEF Singletons, IdentitySingleton
    <2>4. WindowTypeOK'
      BY <2>2 DEF TypeOK, WindowTypeOK, ValidDid
    <2> QED  BY <1>1, <1>3, <2>2, <2>3, <2>4 DEF TypeOK
  <1>5. CASE did.launcher_id \notin Live
    BY <1>3, <1>5, FailType DEF ResolveSingletonLineage, ResolveErrors
  <1> QED  BY <1>4, <1>5

LEMMA ScanType ==
    ASSUME TypeOK, FindStoresForDid
    PROVE  TypeOK'
  <1>1. pc = "scan" /\ UNCHANGED chain /\ ChainTypeOK /\ ChainTypeOK'
    BY DEF TypeOK, ChainTypeOK, FindStoresForDid
  <1>2. PICK c \in Scans(singleton.did) :
          \/ Fail("NoProfile")
          \/ Fail("AmbiguousProfile")
          \/ \E i \in DOMAIN c :
                /\ chosen' = c[i]
                /\ pc' = "fetch"
                /\ UNCHANGED <<window, singleton, answer>>
    BY DEF FindStoresForDid
  <1>3. CASE Fail("NoProfile") \/ Fail("AmbiguousProfile")
    BY <1>1, <1>3, FailType DEF ResolveErrors
  <1>4. ASSUME NEW i \in DOMAIN c, chosen' = c[i], pc' = "fetch",
               UNCHANGED <<window, singleton, answer>>
        PROVE  TypeOK'
    <2>1. chosen' \in ChainStoreStates
      BY <1>1, <1>4, CandidateIsStore, StateOfType
    <2>2. WindowTypeOK'
      BY <1>4 DEF TypeOK, WindowTypeOK, ValidDid
    <2> QED  BY <1>1, <1>4, <2>1, <2>2 DEF TypeOK, Singletons, ChainStoreStates
  <1> QED  BY <1>2, <1>3, <1>4

\* What the construction of an IdentityProfile returns for a body that hashes
\* to the chosen root is a result of the call.
LEMMA IdentityProfileType ==
    ASSUME TypeOK, pc = "fetch", NEW b \in Bodies,
           BuildRoot(b) = chosen.root_hash
    PROVE  IdentityProfile(b) \in Results
  <1>1. singleton \in Singletons /\ chosen \in ChainStoreStates
    BY DEF TypeOK
  <1>2. chosen.store \in StoreRecords /\ BuildRoot(b) \in Roots
    BY <1>1 DEF ChainStoreStates
  <1> QED
    BY <1>1, <1>2 DEF IdentityProfile, Results, IdentityProfiles, ResolveErrors

LEMMA FetchType ==
    ASSUME TypeOK, FetchProfile
    PROVE  TypeOK'
  <1>1. pc = "fetch" /\ UNCHANGED chain
    BY DEF FetchProfile
  <1>2. PICK b \in Bodies : IF BuildRoot(b) # chosen.root_hash
                            THEN Fail("StaleOrTamperedRoot")
                            ELSE Return(IdentityProfile(b))
    BY DEF FetchProfile, Served
  <1>3. CASE BuildRoot(b) # chosen.root_hash
    BY <1>1, <1>2, <1>3, FailType DEF ResolveErrors
  <1>4. CASE BuildRoot(b) = chosen.root_hash
    BY <1>1, <1>2, <1>4, IdentityProfileType, ReturnType
  <1> QED  BY <1>3, <1>4

LEMMA ChainMovesType ==
    ASSUME TypeOK, ChainMoves
    PROVE  TypeOK'
  <1>1. ChainTypeOK'
    BY ChainTypeStep DEF TypeOK, ChainMoves, WidenWindow
  <1>2. WindowTypeOK'
    BY WidenWindowType DEF TypeOK, ChainMoves
  <1>3. UNCHANGED <<request, pc, singleton, chosen, answer>>
    BY DEF ChainMoves, WidenWindow
  <1> QED  BY <1>1, <1>2, <1>3 DEF TypeOK

\* Every reachable state is well typed, whatever the chain and the source do.
THEOREM TypeCorrect == Spec => []TypeOK
  <1>1. Init => TypeOK
    <2> SUFFICES ASSUME Init PROVE TypeOK
      OBVIOUS
    <2>1. ChainTypeOK
      BY ChainAssumption DEF Init, ChainInit, ChainTypeOK
    <2>2. WindowTypeOK
      BY DEF Init, ClosedWindow, WindowTypeOK
    <2> QED  BY <2>1, <2>2 DEF Init, ClosedWindow, TypeOK
  <1>2. TypeOK /\ [Next]_vars => TypeOK'
    <2> SUFFICES ASSUME TypeOK, [Next]_vars PROVE TypeOK'
      OBVIOUS
    <2>1. ASSUME NEW u \in Texts, ResolveIdentityProfile(u) PROVE TypeOK'
      BY <2>1, CallType
    <2>2. CASE ResolverStep
      BY <2>2, LineageReadType, ScanType, FetchType, ReadFailsType
         DEF ResolverStep
    <2>3. CASE ChainMoves
      BY <2>3, ChainMovesType
    <2>4. CASE UNCHANGED vars
      BY <2>4 DEF vars, TypeOK, ChainTypeOK, WindowTypeOK, ValidDid
    <2> QED  BY <2>1, <2>2, <2>3, <2>4 DEF Next
  <1> QED  BY <1>1, <1>2, PTL DEF Spec

----------------------------------------------------------------------------
\* The chain only adds to what it said of a DID or a store: a lineage grows,
\* and a store keeps the coin that launched it.
LEMMA ChainGrows ==
    ASSUME ChainTypeOK, ChainNext
    PROVE  /\ \A d \in LauncherIds : Lineage(d) \subseteq Lineage(d)'
           /\ \A s \in Launched : s \in Launched' /\ store'[s].parent = store[s].parent
  <1> USE ChainAssumption DEF ChainTypeOK, Launched
  <1> DEFINE Grows == /\ \A d \in LauncherIds : tip[d] \in Nat /\ tip'[d] \in Nat /\ tip[d] <= tip'[d]
                      /\ \A s \in Launched : s \in Launched' /\ store'[s].parent = store[s].parent
  <1>0. NoStore \notin StoreStates /\ ChainTypeOK'
    BY ChainTypeStep
  <1>1. ASSUME NEW d \in LauncherIds, LaunchDid(d) \/ SpendDid(d) \/ MeltDid(d)
        PROVE  Grows
    BY <1>1 DEF LaunchDid, SpendDid, MeltDid
  <1>2. ASSUME NEW s \in StoreIds, NEW t \in Texts, NEW r \in Roots,
               NEW d \in LauncherIds, LaunchStoreFromDid(s, d, t, r)
        PROVE  Grows
    BY <1>0, <1>2 DEF LaunchStoreFromDid, NewStore
  <1>3. ASSUME NEW s \in StoreIds, NEW t \in Texts, NEW r \in Roots,
               NEW c \in ForeignCoins, LaunchStoreElsewhere(s, c, t, r)
        PROVE  Grows
    BY <1>0, <1>3 DEF LaunchStoreElsewhere, NewStore
  <1>4. ASSUME NEW s \in StoreIds, NEW t \in Texts, NEW r \in Roots,
               UpdateStore(s, t, r)
        PROVE  Grows
    <2>1. store[s] \in StoreStates /\ store'[s].parent = store[s].parent
      BY <1>4 DEF UpdateStore, StoreStates
    <2>2. [store[s] EXCEPT !.description = t, !.root = r, !.updates = @ + 1]
            \in StoreStates
      BY <1>4, <2>1 DEF UpdateStore, StoreStates
    <2>3. store'[s] # NoStore
      BY <1>0, <1>4, <2>2 DEF UpdateStore
    <2>4. UNCHANGED tip /\ \A x \in StoreIds \ {s} : store'[x] = store[x]
      BY <1>4 DEF UpdateStore
    <2>5. \A d \in LauncherIds :
            tip[d] \in Nat /\ tip'[d] \in Nat /\ tip[d] <= tip'[d]
      BY <2>4
    <2>6. \A x \in Launched : x \in Launched' /\ store'[x].parent = store[x].parent
      BY <2>1, <2>3, <2>4
    <2> QED  BY <2>5, <2>6
  <1>5. Grows
    BY <1>1, <1>2, <1>3, <1>4 DEF ChainNext
  <1> QED  BY <1>5 DEF Lineage, Coin

\* An open call resolves a DID: its request parses to the DID's launcher.
LEMMA OpenCall ==
    ASSUME TypeOK, pc # "idle"
    PROVE  /\ request \in Texts /\ request # NoRequest
           /\ Parses(request) /\ ValidDid(request)
           /\ Anchor(request) \in LauncherIds
  <1>1. request \in Texts /\ request # NoRequest /\ ValidDid(request)
    BY DEF TypeOK, WindowTypeOK
  <1>2. Parses(request)
    BY <1>1, ParseIsValid
  <1>3. ParseDid(request) \in Did /\ ParseDid(request).launcher_id = Anchor(request)
    BY <1>1, <1>2, ParseType
  <1> QED  BY <1>1, <1>2, <1>3 DEF Did

\* A store the DID owns is one the code names by it, and the reverse.
LEMMA OwnedIsNamed ==
    ASSUME TypeOK, pc # "idle", NEW s \in Launched
    PROVE  s \in NamedBy(ParseDid(request))
                <=> Trim[store[s].description] = Trim[request]
  <1>1. store[s].description \in Texts
    BY DEF TypeOK, ChainTypeOK, Launched, StoreStates
  <1>2. Parses(request)
    BY OpenCall
  <1> QED  BY <1>1, <1>2 DEF NamedBy, ParseDid, Parses

\* What the filter keeps of a scan are stores the DID owned when it was made.
LEMMA AuthenticIsOwned ==
    ASSUME TypeOK, LearntStaysTrue, pc = "scan",
           NEW c \in Scans(singleton.did), NEW i \in Authentic(c)
    PROVE  \E s \in Owned(request) : c[i] = StateOf(s)
  <1>1. i \in DOMAIN c /\ IsAuthoritativeProfile(c[i].store, singleton)
    BY DEF Authentic
  <1>2. PICK s \in Launched : c[i] = StateOf(s)
    BY <1>1, CandidateIsStore
  <1>3. /\ c[i].store.description = store[s].description
        /\ c[i].store.launcher_coin.parent_coin_info = store[s].parent
    BY <1>2, StateOfType DEF TypeOK
  <1>4. /\ Parses(store[s].description)
        /\ ParseDid(store[s].description) = ParseDid(request)
        /\ store[s].parent \in Lineage(Anchor(request))
    BY <1>1, <1>3 DEF IsAuthoritativeProfile, IsAuthoritative, EvaluatePairing,
                      Contains, LearntStaysTrue, LineageIsPast
  <1>5. s \in NamedBy(ParseDid(request))
    BY <1>4 DEF NamedBy
  <1> QED  BY <1>2, <1>4, <1>5, OwnedIsNamed DEF Owned

\* A store that was the DID's all along is among what the filter keeps.
LEMMA ThroughoutIsAuthentic ==
    ASSUME TypeOK, LearntStaysTrue, pc = "scan",
           NEW c \in Scans(singleton.did), NEW s \in throughout
    PROVE  \E i \in Authentic(c) : c[i] = StateOf(s)
  <1>1. /\ singleton.did = ParseDid(request)
        /\ store[s].parent \in singleton.lineage.members
        /\ s \in Owned(request)
    BY OpenCall DEF LearntStaysTrue, LineageIsPast, WindowIsCurrent
  <1>2. s \in Launched /\ s \in NamedBy(ParseDid(request))
    BY <1>1, OwnedIsNamed DEF Owned
  <1>3. PICK i \in DOMAIN c : c[i] = StateOf(s)
    BY <1>1, <1>2 DEF Scans
  <1>4. /\ c[i].store.description = store[s].description
        /\ c[i].store.launcher_coin.parent_coin_info = store[s].parent
    BY <1>2, <1>3, StateOfType DEF TypeOK
  <1>5. IsAuthoritativeProfile(c[i].store, singleton)
    BY <1>1, <1>2, <1>4 DEF IsAuthoritativeProfile, IsAuthoritative,
                            EvaluatePairing, Contains, NamedBy
  <1> QED  BY <1>3, <1>5 DEF Authentic

----------------------------------------------------------------------------
LEMMA CallLearns ==
    ASSUME TypeOK, LearntStaysTrue, NEW u \in Texts, ResolveIdentityProfile(u)
    PROVE  LearntStaysTrue'
  <1>1. UNCHANGED chain /\ UNCHANGED <<singleton, chosen>> /\ pc = "idle"
    BY DEF ResolveIdentityProfile
  <1>2. CASE Parses(u)
    <2>1. pc' = "lineage" /\ OpenWindow(u)
      BY <1>2 DEF ResolveIdentityProfile
    <2>2. WindowIsCurrent'
      BY <1>1, <2>1
         DEF WindowIsCurrent, OpenWindow, Owned, Rooted, Contested, Anchored,
             Launched, Lineage, Live
    <2> QED
      BY <2>1, <2>2 DEF LearntStaysTrue, LineageIsPast, ChoiceIsOwned
  <1>3. CASE ~Parses(u)
    <2>1. UNCHANGED <<pc, window>> /\ request' = NoRequest
      BY <1>1, <1>3 DEF ResolveIdentityProfile, TypeOK
    <2> QED
      BY <1>1, <2>1 DEF LearntStaysTrue, WindowIsCurrent, LineageIsPast,
                        ChoiceIsOwned
  <1> QED  BY <1>2, <1>3

LEMMA ReturnLearns == pc' = "idle" /\ CloseWindow => LearntStaysTrue'
  BY DEF CloseWindow, LearntStaysTrue, WindowIsCurrent, LineageIsPast,
         ChoiceIsOwned

\* The window facts depend on the chain and the window alone.
LEMMA WindowUndisturbed ==
    ASSUME WindowIsCurrent, UNCHANGED chain, UNCHANGED window
    PROVE  WindowIsCurrent'
  <1>1. Launched' = Launched /\ Live' = Live
    BY DEF Launched, Live
  <1>2. Owned(request)' = Owned(request)
    BY <1>1 DEF Owned, Lineage
  <1>3. /\ Rooted(request)' = Rooted(request)
        /\ Contested(request)' = Contested(request)
        /\ Anchored(request)' = Anchored(request)
    BY <1>1, <1>2 DEF Rooted, Contested, Anchored
  <1> QED  BY <1>2, <1>3 DEF WindowIsCurrent

LEMMA LineageReadLearns ==
    ASSUME TypeOK, LearntStaysTrue, ResolveSingletonLineage
    PROVE  LearntStaysTrue'
  <1> DEFINE did == ParseDid(request)
  <1>1. pc = "lineage" /\ UNCHANGED chain /\ did.launcher_id = Anchor(request)
    BY OpenCall, ParseType DEF ResolveSingletonLineage
  <1>2. CASE did.launcher_id \notin Live
    BY <1>2, ReturnLearns DEF ResolveSingletonLineage, Fail, Return
  <1>3. CASE did.launcher_id \in Live
    <2>1. /\ pc' = "scan" /\ UNCHANGED window
          /\ singleton' = IdentitySingleton(did, TipLineage(did.launcher_id))
      BY <1>3 DEF ResolveSingletonLineage
    <2>2. anchored
      BY <1>1, <1>3, OpenCall
         DEF LearntStaysTrue, WindowIsCurrent, Anchored
    <2>3. singleton'.did = did
          /\ singleton'.lineage.members = Lineage(Anchor(request))
      BY <1>1, <1>3, <2>1, TipLineageType DEF TypeOK, IdentitySingleton
    <2>4. \A s \in throughout : store[s].parent \in Lineage(Anchor(request))
      BY <1>1, OpenCall DEF LearntStaysTrue, WindowIsCurrent, Owned
    <2>5. Lineage(Anchor(request))' = Lineage(Anchor(request))
      BY <1>1, <2>1 DEF Lineage
    <2>6. LineageIsPast'
      BY <1>1, <2>1, <2>2, <2>3, <2>4, <2>5 DEF LineageIsPast
    <2> QED
      BY <1>1, <2>1, <2>6, WindowUndisturbed DEF LearntStaysTrue, ChoiceIsOwned
  <1> QED  BY <1>2, <1>3

LEMMA ScanLearns ==
    ASSUME TypeOK, LearntStaysTrue, FindStoresForDid
    PROVE  LearntStaysTrue'
  <1>1. pc = "scan" /\ UNCHANGED chain
    BY DEF FindStoresForDid
  <1>2. PICK c \in Scans(singleton.did) :
          \/ Fail("NoProfile")
          \/ Fail("AmbiguousProfile")
          \/ \E i \in DOMAIN c :
                /\ Authentic(c) = {i}
                /\ chosen' = c[i]
                /\ pc' = "fetch"
                /\ UNCHANGED <<window, singleton, answer>>
    BY DEF FindStoresForDid
  <1>3. CASE Fail("NoProfile") \/ Fail("AmbiguousProfile")
    BY <1>3, ReturnLearns DEF Fail, Return
  <1>4. ASSUME NEW i \in DOMAIN c, Authentic(c) = {i}, chosen' = c[i],
               pc' = "fetch", UNCHANGED <<window, singleton, answer>>
        PROVE  LearntStaysTrue'
    <2>1. PICK s \in Owned(request) : c[i] = StateOf(s)
      BY <1>1, <1>4, AuthenticIsOwned
    <2>2. s \in Launched /\ <<s, store[s].root>> \in witnessed
      BY <1>1, <2>1, OpenCall DEF LearntStaysTrue, WindowIsCurrent, Rooted, Owned
    <2>3. LauncherId(chosen'.store) = s /\ chosen'.root_hash = store[s].root
      BY <1>4, <2>1, <2>2, StateOfType DEF TypeOK
    <2>4. ASSUME NEW t \in throughout PROVE t = s
      <3>1. c[i] = StateOf(t)
        BY <1>1, <1>4, ThroughoutIsAuthentic
      <3>2. t \in Launched
        BY <1>1, OpenCall DEF LearntStaysTrue, WindowIsCurrent, Owned
      <3>3. /\ LauncherId(StateOf(t).store) = t
            /\ LauncherId(StateOf(s).store) = s
        BY <2>2, <3>2, StateOfType DEF TypeOK
      <3> QED  BY <2>1, <3>1, <3>3
    <2>5. StoreBelongsToDid(chosen.store, singleton)'
      BY <1>4 DEF Authentic, StoreBelongsToDid
    <2>6. ChoiceIsOwned'
      BY <1>4, <2>2, <2>3, <2>4, <2>5 DEF ChoiceIsOwned
    <2>7. LineageIsPast'
      BY <1>1, <1>4 DEF LearntStaysTrue, LineageIsPast, Lineage
    <2> QED
      BY <1>1, <1>4, <2>6, <2>7, WindowUndisturbed DEF LearntStaysTrue
  <1> QED  BY <1>2, <1>3, <1>4

LEMMA ChainMovesLearns ==
    ASSUME TypeOK, LearntStaysTrue, ChainMoves
    PROVE  LearntStaysTrue'
  <1>1. /\ UNCHANGED <<request, pc, singleton, chosen>>
        /\ ChainNext /\ WidenWindow /\ ChainTypeOK
    BY DEF ChainMoves, WidenWindow, TypeOK
  <1>2. CASE pc = "idle"
    BY <1>1, <1>2 DEF TypeOK, LearntStaysTrue, WindowIsCurrent, LineageIsPast,
                      ChoiceIsOwned
  <1>3. CASE pc # "idle"
    <2>1. request # NoRequest /\ Anchor(request) \in LauncherIds
      BY <1>3, OpenCall
    <2>2. /\ anchored' = (anchored \/ Anchored(request)')
          /\ anchorless' = (anchorless \/ ~Anchored(request)')
          /\ throughout' = throughout \cap Owned(request)'
          /\ witnessed' = witnessed \cup Rooted(request)'
          /\ contested' = (contested \/ Contested(request)')
      BY <1>1, <2>1 DEF WidenWindow
    <2>3. WindowIsCurrent'
      BY <1>1, <2>2 DEF WindowIsCurrent
    <2>4. LineageIsPast'
      <3> SUFFICES ASSUME pc \in {"scan", "fetch"} PROVE LineageIsPast'
        BY <1>1 DEF LineageIsPast
      <3>1. Lineage(Anchor(request)) \subseteq Lineage(Anchor(request))'
        BY <1>1, <2>1, ChainGrows
      <3>2. \A s \in throughout' : store'[s].parent = store[s].parent
        BY <1>1, <2>1, <2>2, ChainGrows
           DEF LearntStaysTrue, WindowIsCurrent, Owned
      <3>3. anchored'
        BY <2>2 DEF LearntStaysTrue, LineageIsPast
      <3> QED
        BY <1>1, <2>2, <3>1, <3>2, <3>3 DEF LearntStaysTrue, LineageIsPast
    <2>5. ChoiceIsOwned'
      BY <1>1, <2>2 DEF LearntStaysTrue, ChoiceIsOwned
    <2> QED  BY <2>3, <2>4, <2>5 DEF LearntStaysTrue
  <1> QED  BY <1>2, <1>3

\* What an open call has learnt stays true however the chain moves.
THEOREM LearntInvariant == Spec => []LearntStaysTrue
  <1>1. Init => LearntStaysTrue
    BY DEF Init, ClosedWindow, LearntStaysTrue, WindowIsCurrent, LineageIsPast,
           ChoiceIsOwned
  <1>2. TypeOK /\ LearntStaysTrue /\ [Next]_vars => LearntStaysTrue'
    <2> SUFFICES ASSUME TypeOK, LearntStaysTrue, [Next]_vars
                 PROVE  LearntStaysTrue'
      OBVIOUS
    <2>1. ASSUME NEW u \in Texts, ResolveIdentityProfile(u)
          PROVE  LearntStaysTrue'
      BY <2>1, CallLearns
    <2>2. CASE ResolveSingletonLineage
      BY <2>2, LineageReadLearns
    <2>3. CASE FindStoresForDid
      BY <2>3, ScanLearns
    <2>4. CASE FetchProfile
      BY <2>4, ReturnLearns DEF FetchProfile, Fail, Return
    <2>5. ASSUME NEW read, ReadFails(read) PROVE LearntStaysTrue'
      BY <2>5, ReturnLearns DEF ReadFails, Fail, Return
    <2>6. CASE ChainMoves
      BY <2>6, ChainMovesLearns
    <2>7. CASE UNCHANGED vars
      BY <2>7, WindowUndisturbed DEF vars, LearntStaysTrue, LineageIsPast,
                                     ChoiceIsOwned, Lineage
    <2> QED
      BY <2>1, <2>2, <2>3, <2>4, <2>5, <2>6, <2>7 DEF Next, ResolverStep
  <1> QED  BY <1>1, <1>2, TypeCorrect, PTL DEF Spec

----------------------------------------------------------------------------
\* The contract's instance speaks of the same chain and the same window.
LEMMA SameWindow ==
    /\ \A u : /\ Contract!ValidDid(u) <=> ValidDid(u)
              /\ Contract!OpenWindow(u) <=> OpenWindow(u)
    /\ Contract!CloseWindow <=> CloseWindow
    /\ Contract!ClosedWindow <=> ClosedWindow
    /\ Contract!ChainInit <=> ChainInit
  BY DEF Contract!ValidDid, ValidDid, Contract!OpenWindow, OpenWindow,
         Contract!CloseWindow, CloseWindow, Contract!ClosedWindow, ClosedWindow,
         Contract!ChainInit, ChainInit, Contract!Anchored, Anchored,
         Contract!Owned, Owned, Contract!Rooted, Rooted, Contract!Contested,
         Contested, Contract!Anchor, Anchor, Contract!Launched, Launched,
         Contract!Lineage, Lineage, Contract!Live, Live, Contract!Coin, Coin

LEMMA SameChainNext == Contract!ChainNext <=> ChainNext
  BY DEF Contract!ChainNext, ChainNext, Contract!LaunchDid, LaunchDid,
         Contract!SpendDid, SpendDid, Contract!MeltDid, MeltDid,
         Contract!LaunchStoreFromDid, LaunchStoreFromDid,
         Contract!LaunchStoreElsewhere, LaunchStoreElsewhere,
         Contract!UpdateStore, UpdateStore, Contract!NewStore, NewStore,
         Contract!Live, Live, Contract!Launched, Launched,
         Contract!Coin, Coin

LEMMA SameWidenWindow == WidenWindow => Contract!WidenWindow
  BY SameChainNext
     DEF Contract!WidenWindow, WidenWindow, Contract!Anchored, Anchored,
         Contract!Owned, Owned, Contract!Rooted, Rooted, Contract!Contested,
         Contested, Contract!Anchor, Anchor, Contract!Launched, Launched,
         Contract!Lineage, Lineage, Contract!Live, Live, Contract!Coin, Coin,
         Contract!window

\* A failing call answers the contract, if the contract justifies the error.
LEMMA FailAnswers ==
    ASSUME TypeOK, pc # "idle", NEW error \in ResolveErrors \ {"Format"},
           Fail(error), UNCHANGED chain,
           Contract!Justified([kind |-> error])
    PROVE  Contract!Answer
  <1>1. answer' = [kind |-> error] /\ CloseWindow /\ request # NoRequest
    BY OpenCall DEF Fail, Return
  <1>2. error # "Ok"
    BY DEF ResolveErrors
  <1>3. Verdict' = [kind |-> error]
    BY <1>1, <1>2 DEF Verdict
  <1>4. [kind |-> error] \in Contract!Verdicts
    BY DEF Contract!Verdicts, ResolveErrors
  <1> QED  BY <1>1, <1>3, <1>4, SameWindow DEF Contract!Answer, Contract!chain

LEMMA CallRefines ==
    ASSUME TypeOK, NEW u \in Texts, ResolveIdentityProfile(u)
    PROVE  Contract!Ask \/ Contract!Reject
  <1>1. request = NoRequest /\ UNCHANGED chain
    BY DEF TypeOK, ResolveIdentityProfile
  <1>2. CASE Parses(u)
    <2>1. Contract!ValidDid(u) /\ Contract!OpenWindow(u)
      BY <1>2, ParseIsValid, SameWindow DEF ResolveIdentityProfile
    <2>2. Verdict' = NoAnswer
      BY <1>2 DEF ResolveIdentityProfile, Verdict
    <2> QED  BY <1>1, <2>1, <2>2 DEF Contract!Ask, Contract!chain
  <1>3. CASE ~Parses(u)
    <2>1. ~Contract!ValidDid(u)
      BY <1>3, ParseIsValid, SameWindow
    <2>2. answer' = [kind |-> "InvalidDid"] /\ UNCHANGED window
      BY <1>3 DEF ResolveIdentityProfile
    <2>3. Verdict' = [kind |-> "InvalidDid"]
      BY <2>2 DEF Verdict
    <2> QED  BY <1>1, <2>1, <2>2, <2>3
                DEF Contract!Reject, Contract!chain, Contract!window
  <1> QED  BY <1>2, <1>3

LEMMA LineageReadRefines ==
    ASSUME TypeOK, LearntStaysTrue, ResolveSingletonLineage
    PROVE  Contract!Answer \/ UNCHANGED Contract!vars
  <1>1. pc = "lineage" /\ UNCHANGED chain
        /\ ParseDid(request).launcher_id = Anchor(request)
    BY OpenCall, ParseType DEF ResolveSingletonLineage
  <1>2. CASE Anchor(request) \in Live
    BY <1>1, <1>2 DEF ResolveSingletonLineage, Contract!vars, Contract!chain,
                      Contract!window, Verdict
  <1>3. CASE Anchor(request) \notin Live
    <2>1. Fail("NoIdentitySingleton")
      BY <1>1, <1>3 DEF ResolveSingletonLineage
    <2>2. anchorless
      BY <1>1, <1>3, OpenCall DEF LearntStaysTrue, WindowIsCurrent, Anchored
    <2>3. Contract!Justified([kind |-> "NoIdentitySingleton"])
      BY <2>2 DEF Contract!Justified
    <2> QED  BY <1>1, <2>1, <2>3, FailAnswers DEF ResolveErrors
  <1> QED  BY <1>2, <1>3

\* Without repeated candidates, two that are kept are two stores owned.
LEMMA ScanRefines ==
    ASSUME TypeOK, LearntStaysTrue, FindStoresForDid, Repeats = FALSE
    PROVE  Contract!Answer \/ UNCHANGED Contract!vars
  <1>1. pc = "scan" /\ UNCHANGED chain /\ anchored
    BY DEF FindStoresForDid, LearntStaysTrue, LineageIsPast
  <1>2. PICK c \in Scans(singleton.did) :
          \/ Authentic(c) = {} /\ Fail("NoProfile")
          \/ (\E i, j \in Authentic(c) : i # j) /\ Fail("AmbiguousProfile")
          \/ UNCHANGED <<window, answer>>
    BY DEF FindStoresForDid
  <1>3. CASE Authentic(c) = {} /\ Fail("NoProfile")
    <2>1. throughout = {}
      BY <1>1, <1>3, ThroughoutIsAuthentic
    <2>2. Contract!Justified([kind |-> "NoProfile"])
      BY <1>1, <2>1 DEF Contract!Justified
    <2> QED  BY <1>1, <1>3, <2>2, FailAnswers DEF ResolveErrors
  <1>4. CASE (\E i, j \in Authentic(c) : i # j) /\ Fail("AmbiguousProfile")
    <2>1. PICK i \in Authentic(c), j \in Authentic(c) : i # j
      BY <1>4
    <2>2. c[i] # c[j]
      BY <2>1 DEF Scans, Authentic
    <2>3. PICK s \in Owned(request) : c[i] = StateOf(s)
      BY <1>1, <2>1, AuthenticIsOwned
    <2>4. PICK t \in Owned(request) : c[j] = StateOf(t)
      BY <1>1, <2>1, AuthenticIsOwned
    <2>5. contested
      BY <1>1, <2>2, <2>3, <2>4, OpenCall
         DEF Contested, LearntStaysTrue, WindowIsCurrent
    <2>6. Contract!Justified([kind |-> "AmbiguousProfile"])
      BY <1>1, <2>5 DEF Contract!Justified
    <2> QED  BY <1>1, <1>4, <2>6, FailAnswers DEF ResolveErrors
  <1>5. CASE UNCHANGED <<window, answer>>
    BY <1>1, <1>5 DEF Contract!vars, Contract!chain, Contract!window, Verdict
  <1> QED  BY <1>2, <1>3, <1>4, <1>5

LEMMA FetchRefines ==
    ASSUME TypeOK, LearntStaysTrue, FetchProfile
    PROVE  Contract!Answer
  <1> DEFINE s == LauncherId(chosen.store)
  <1>1. pc = "fetch" /\ UNCHANGED chain /\ anchored
    BY DEF FetchProfile, LearntStaysTrue, LineageIsPast
  <1>2. /\ StoreBelongsToDid(chosen.store, singleton)
        /\ <<s, chosen.root_hash>> \in witnessed
        /\ throughout \subseteq {s}
    BY <1>1 DEF LearntStaysTrue, ChoiceIsOwned
  <1>3. PICK b \in Bodies : IF BuildRoot(b) # chosen.root_hash
                            THEN Fail("StaleOrTamperedRoot")
                            ELSE Return(IdentityProfile(b))
    BY DEF FetchProfile, Served
  <1>4. CASE BuildRoot(b) # chosen.root_hash
    <2>1. Contract!Justified([kind |-> "StaleOrTamperedRoot"])
      BY <1>1, <1>2 DEF Contract!Justified
    <2> QED  BY <1>1, <1>3, <1>4, <2>1, FailAnswers DEF ResolveErrors
  <1>5. CASE BuildRoot(b) = chosen.root_hash
    <2> DEFINE v == [kind |-> "Ok", store |-> s, root |-> chosen.root_hash]
    <2>1. Return(IdentityProfile(b)) /\ IdentityProfile(b) \in Results
      BY <1>1, <1>3, <1>5, IdentityProfileType
    <2>2. /\ IdentityProfile(b).kind = "Ok"
          /\ IdentityProfile(b).profile.store = chosen.store
          /\ IdentityProfile(b).profile.root = chosen.root_hash
      BY <1>2, <1>5 DEF IdentityProfile
    <2>3. IdentityProfile(b) \in [kind : {"Ok"}, profile : IdentityProfiles]
      <3>1. singleton \in Singletons /\ chosen \in ChainStoreStates
        BY <1>1 DEF TypeOK
      <3>2. chosen.store \in StoreRecords /\ BuildRoot(b) \in Roots
        BY <1>5, <3>1 DEF ChainStoreStates
      <3> QED  BY <1>2, <3>1, <3>2 DEF IdentityProfile, IdentityProfiles
    <2>4. answer' = IdentityProfile(b) /\ answer' # NoAnswer /\ CloseWindow
      BY <2>1, <2>3, ResolverAssumption DEF Return
    <2>5. Verdict' = v
      BY <2>2, <2>4 DEF Verdict
    <2>6. v \in Contract!Verdicts
      BY <1>1, <1>2 DEF Contract!Verdicts, TypeOK, WindowTypeOK
    <2>7. Contract!Justified(v)
      BY <1>1, <1>2 DEF Contract!Justified
    <2> QED
      BY <1>1, <2>4, <2>5, <2>6, <2>7, OpenCall, SameWindow
         DEF Contract!Answer, Contract!chain
  <1> QED  BY <1>4, <1>5

LEMMA ReadFailsRefines ==
    ASSUME TypeOK, NEW read \in {"lineage", "scan", "fetch"}, ReadFails(read)
    PROVE  Contract!Answer
  <1>1. Contract!Justified([kind |-> "Chain"])
    BY DEF Contract!Justified
  <1> QED  BY <1>1, FailAnswers DEF ReadFails, ResolveErrors

\* For a source that returns each store once, however the chain moves and
\* whatever bodies the source serves, the resolver keeps its contract.
THEOREM ResolverImplementsContract ==
    ASSUME Repeats = FALSE
    PROVE  Spec => ImplementsContract
  <1>1. Init => Contract!Init
    BY SameWindow DEF Init, Contract!Init, Verdict
  <1>2. TypeOK /\ LearntStaysTrue /\ [Next]_vars => [Contract!Next]_(Contract!vars)
    <2> SUFFICES ASSUME TypeOK, LearntStaysTrue, [Next]_vars
                 PROVE  Contract!Next \/ UNCHANGED Contract!vars
      OBVIOUS
    <2>1. ASSUME NEW u \in Texts, ResolveIdentityProfile(u) PROVE Contract!Next
      BY <2>1, CallRefines DEF Contract!Next
    <2>2. CASE ResolveSingletonLineage
      BY <2>2, LineageReadRefines DEF Contract!Next
    <2>3. CASE FindStoresForDid
      BY <2>3, ScanRefines DEF Contract!Next
    <2>4. CASE FetchProfile
      BY <2>4, FetchRefines DEF Contract!Next
    <2>5. ASSUME NEW read \in {"lineage", "scan", "fetch"}, ReadFails(read)
          PROVE  Contract!Next
      BY <2>5, ReadFailsRefines DEF Contract!Next
    <2>6. CASE ChainMoves
      BY <2>6, SameWidenWindow
         DEF ChainMoves, Contract!Next, Contract!ChainMoves, Verdict
    <2>7. CASE UNCHANGED vars
      BY <2>7 DEF vars, Contract!vars, Contract!chain, Contract!window, Verdict
    <2> QED
      BY <2>1, <2>2, <2>3, <2>4, <2>5, <2>6, <2>7 DEF Next, ResolverStep
  <1> QED
    BY <1>1, <1>2, TypeCorrect, LearntInvariant, PTL
       DEF Spec, ImplementsContract, Contract!Spec

----------------------------------------------------------------------------
\* A body's identity key is the payload of the 48-byte key leaf of its root.
LEMMA KeyLeafOfBody ==
    ASSUME NEW b \in Bodies
    PROVE  LET key == ResolveKeys(b).bls_g1_public_key
           IN  KeysUnder(BuildRoot(b)) = IF key = Absent THEN {} ELSE {key}
  <1> DEFINE slot == BLS_G1_PUBLIC_KEY
             present == /\ slot \in DOMAIN b
                        /\ b[slot].tag = "Bytes" /\ b[slot].width = 48
             leaves == {l \in BuildRoot(b) : /\ l[1] = slot
                                             /\ l[2].tag = "Bytes"
                                             /\ l[2].width = 48}
  <1>1. KeysUnder(BuildRoot(b)) = {leaf[2].payload : leaf \in leaves}
    BY DEF KeysUnder
  <1>2. CASE present
    <2>1. leaves = {<<slot, b[slot]>>}
      BY <1>2 DEF BuildRoot, LeafOf
    <2>2. KeysUnder(BuildRoot(b)) = {b[slot].payload}
      <3> HIDE DEF leaves
      <3>1. <<slot, b[slot]>>[2].payload = b[slot].payload
        OBVIOUS
      <3> QED  BY <1>1, <2>1, <3>1
    <2>3. ResolveKeys(b).bls_g1_public_key = b[slot].payload
      BY <1>2 DEF ResolveKeys, BytesOfWidth
    <2> QED  BY <1>2, <2>2, <2>3, ResolverAssumption
  <1>3. CASE ~present
    <2>1. leaves = {}
      BY <1>3 DEF BuildRoot, LeafOf
    <2>2. ResolveKeys(b).bls_g1_public_key = Absent
      BY <1>3 DEF ResolveKeys, BytesOfWidth
    <2> QED  BY <1>1, <2>1, <2>2
  <1> QED  BY <1>2, <1>3

\* What a returning call means for the key its caller asks for.
KeyAnswer ==
    LET bls == ResolveBlsPublicKey(answer') IN
    bls.kind \in {"Ok", "NoIdentityKey"} =>
        \E root \in Roots :
            /\ <<LauncherId(answer'.profile.store), root>> \in witnessed
            /\ KeysUnder(root) = IF bls.kind = "Ok" THEN {bls.key} ELSE {}

LEMMA FailGivesNoKey ==
    ASSUME NEW error \in ResolveErrors, Fail(error)
    PROVE  KeyAnswer
  <1>1. answer' = [kind |-> error] /\ error \notin {"Ok", "NoIdentityKey"}
    BY DEF Fail, Return, ResolveErrors
  <1> QED  BY <1>1 DEF KeyAnswer, ResolveBlsPublicKey, ResolveDidKeys

\* The root the content was checked against is the one the choice was
\* witnessed with.
LEMMA FetchGivesCommittedKey ==
    ASSUME TypeOK, LearntStaysTrue, FetchProfile
    PROVE  KeyAnswer
  <1>1. pc = "fetch" /\ chosen \in ChainStoreStates
    BY DEF FetchProfile, TypeOK
  <1>2. <<LauncherId(chosen.store), chosen.root_hash>> \in witnessed
    BY <1>1 DEF LearntStaysTrue, ChoiceIsOwned
  <1>3. PICK b \in Bodies : IF BuildRoot(b) # chosen.root_hash
                            THEN Fail("StaleOrTamperedRoot")
                            ELSE Return(IdentityProfile(b))
    BY DEF FetchProfile, Served
  <1>4. CASE BuildRoot(b) # chosen.root_hash
    BY <1>3, <1>4, FailGivesNoKey DEF ResolveErrors
  <1>5. CASE BuildRoot(b) = chosen.root_hash
    <2> DEFINE key == ResolveKeys(b).bls_g1_public_key
    <2>1. StoreBelongsToDid(chosen.store, singleton)
      BY <1>1 DEF LearntStaysTrue, ChoiceIsOwned
    <2>2. /\ answer'.kind = "Ok"
          /\ answer'.profile.store = chosen.store
          /\ answer'.profile.metadata = b
      BY <1>3, <1>5, <2>1 DEF Return, IdentityProfile
    <2>3. chosen.root_hash \in Roots
      BY <1>1 DEF ChainStoreStates
    <2>4. KeysUnder(chosen.root_hash) = IF key = Absent THEN {} ELSE {key}
      BY <1>5, KeyLeafOfBody
    <2>5. ResolveBlsPublicKey(answer') = IF key = Absent
                                         THEN [kind |-> "NoIdentityKey"]
                                         ELSE [kind |-> "Ok", key |-> key]
      BY <2>2 DEF ResolveBlsPublicKey, ResolveDidKeys
    <2>6. KeysUnder(chosen.root_hash) =
            IF ResolveBlsPublicKey(answer').kind = "Ok"
            THEN {ResolveBlsPublicKey(answer').key} ELSE {}
      BY <2>4, <2>5
    <2> QED  BY <1>2, <2>2, <2>3, <2>6 DEF KeyAnswer
  <1> QED  BY <1>4, <1>5

\* No caller ever gets a BLS key other than one that a root of the accepted
\* store committed to while it was the DID's, nor is told there is none
\* unless such a root commits to none.
THEOREM KeysAreCommitted == Spec => KeyIsCommitted
  <1>1. TypeOK /\ LearntStaysTrue /\ [Next]_vars => [Returns => KeyAnswer]_vars
    <2> SUFFICES ASSUME TypeOK, LearntStaysTrue, Next, Returns
                 PROVE  KeyAnswer
      OBVIOUS
    <2>1. ASSUME NEW u \in Texts, ResolveIdentityProfile(u) PROVE FALSE
      BY <2>1 DEF ResolveIdentityProfile, TypeOK, Returns
    <2>2. CASE ResolveSingletonLineage \/ FindStoresForDid
      <3>1. PICK error \in ResolveErrors : Fail(error)
        BY <2>2 DEF ResolveSingletonLineage, FindStoresForDid, Returns,
                    ResolveErrors
      <3> QED  BY <3>1, FailGivesNoKey
    <2>3. CASE FetchProfile
      BY <2>3, FetchGivesCommittedKey
    <2>4. ASSUME NEW read \in {"lineage", "scan", "fetch"}, ReadFails(read)
          PROVE  KeyAnswer
      BY <2>4, FailGivesNoKey DEF ReadFails, ResolveErrors
    <2>5. CASE ChainMoves
      BY <2>5 DEF ChainMoves, WidenWindow, Returns
    <2> QED  BY <2>1, <2>2, <2>3, <2>4, <2>5 DEF Next, ResolverStep
  <1> QED
    BY <1>1, TypeCorrect, LearntInvariant, PTL
       DEF Spec, KeyIsCommitted, KeyAnswer
----------------------------------------------------------------------------
\* The other half of what a caller may expect: ImplementsContract bounds what
\* a moving chain can make of an answer; here the chain is at rest, and the
\* answer is exactly the chain's.

\* With nothing moved since the call was made, what it has read is the present.
QuietKnows ==
    quiet /\ pc \in {"scan", "fetch"} =>
        /\ Anchored(request)
        /\ singleton.lineage.members = Lineage(Anchor(request))
        /\ pc = "fetch" => \E s \in Owned(request) :
                                Owned(request) = {s} /\ chosen = StateOf(s)

\* The lineage being the present one, the filter keeps every store owned now.
LEMMA OwnedIsAuthentic ==
    ASSUME TypeOK, LearntStaysTrue, QuietKnows, quiet, pc = "scan",
           NEW c \in Scans(singleton.did), NEW s \in Owned(request)
    PROVE  \E i \in Authentic(c) : c[i] = StateOf(s)
  <1>1. /\ singleton.did = ParseDid(request)
        /\ s \in Launched
        /\ store[s].parent \in singleton.lineage.members
    BY DEF LearntStaysTrue, LineageIsPast, QuietKnows, Owned
  <1>2. s \in NamedBy(ParseDid(request))
    BY <1>1, OwnedIsNamed DEF Owned
  <1>3. PICK i \in DOMAIN c : c[i] = StateOf(s)
    BY <1>1, <1>2 DEF Scans
  <1>4. /\ c[i].store.description = store[s].description
        /\ c[i].store.launcher_coin.parent_coin_info = store[s].parent
    BY <1>1, <1>3, StateOfType DEF TypeOK
  <1>5. IsAuthoritativeProfile(c[i].store, singleton)
    BY <1>1, <1>2, <1>4 DEF IsAuthoritativeProfile, IsAuthoritative,
                            EvaluatePairing, Contains, NamedBy
  <1> QED  BY <1>3, <1>5 DEF Authentic

\* One candidate kept is one store owned, and the candidate is its state.
LEMMA OneKeptIsOneOwned ==
    ASSUME TypeOK, LearntStaysTrue, QuietKnows, quiet, pc = "scan",
           NEW c \in Scans(singleton.did), NEW i, Authentic(c) = {i}
    PROVE  \E s \in Owned(request) : Owned(request) = {s} /\ c[i] = StateOf(s)
  <1>1. PICK s \in Owned(request) : c[i] = StateOf(s)
    BY AuthenticIsOwned
  <1>2. ASSUME NEW t \in Owned(request) PROVE t = s
    <2>1. c[i] = StateOf(t)
      BY OwnedIsAuthentic
    <2>2. s \in Launched /\ t \in Launched
      BY DEF Owned
    <2>3. LauncherId(StateOf(t).store) = t /\ LauncherId(StateOf(s).store) = s
      BY <2>2, StateOfType DEF TypeOK
    <2> QED  BY <1>1, <2>1, <2>3
  <1> QED  BY <1>1, <1>2

\* The facts read off the chain are the same in a step that leaves it alone.
LEMMA SameChainFacts ==
    ASSUME UNCHANGED chain, UNCHANGED request
    PROVE  /\ Owned(request)' = Owned(request)
           /\ Anchored(request)' = Anchored(request)
           /\ Lineage(Anchor(request))' = Lineage(Anchor(request))
  <1>1. Launched' = Launched /\ Live' = Live
    BY DEF Launched, Live
  <1>2. Lineage(Anchor(request))' = Lineage(Anchor(request))
    BY DEF Lineage
  <1> QED  BY <1>1, <1>2 DEF Owned, Anchored

LEMMA LineageReadKnows ==
    ASSUME TypeOK, QuietKnows, ResolveSingletonLineage
    PROVE  QuietKnows'
  <1>1. /\ pc = "lineage" /\ UNCHANGED chain /\ Anchor(request) \in LauncherIds
        /\ ParseDid(request).launcher_id = Anchor(request)
    BY OpenCall, ParseType DEF ResolveSingletonLineage
  <1>2. CASE Anchor(request) \in Live
    <2>1. /\ UNCHANGED window /\ pc' = "scan"
          /\ singleton' = IdentitySingleton(ParseDid(request),
                                            TipLineage(Anchor(request)))
      BY <1>1, <1>2 DEF ResolveSingletonLineage
    <2>2. singleton'.lineage.members = Lineage(Anchor(request))
      BY <1>2, <2>1, TipLineageType DEF TypeOK, IdentitySingleton
    <2>3. Anchored(request)
      BY <1>2 DEF Anchored
    <2> QED  BY <1>1, <2>1, <2>2, <2>3, SameChainFacts DEF QuietKnows
  <1>3. CASE Anchor(request) \notin Live
    BY <1>1, <1>3 DEF ResolveSingletonLineage, Fail, Return, QuietKnows
  <1> QED  BY <1>2, <1>3

LEMMA ScanKnows ==
    ASSUME TypeOK, LearntStaysTrue, QuietKnows, FindStoresForDid
    PROVE  QuietKnows'
  <1>1. pc = "scan" /\ UNCHANGED chain
    BY DEF FindStoresForDid
  <1>2. PICK c \in Scans(singleton.did) :
          \/ pc' = "idle"
          \/ \E i \in DOMAIN c :
                /\ Authentic(c) = {i}
                /\ chosen' = c[i]
                /\ pc' = "fetch"
                /\ UNCHANGED <<window, singleton, answer>>
    BY DEF FindStoresForDid, Fail, Return
  <1>3. ASSUME NEW i \in DOMAIN c, Authentic(c) = {i}, chosen' = c[i],
               pc' = "fetch", UNCHANGED <<window, singleton, answer>>, quiet
        PROVE  QuietKnows'
    <2>1. PICK s \in Owned(request) : Owned(request) = {s} /\ c[i] = StateOf(s)
      BY <1>1, <1>3, OneKeptIsOneOwned
    <2> QED  BY <1>1, <1>3, <2>1, SameChainFacts DEF QuietKnows, StateOf
  <1> QED  BY <1>2, <1>3 DEF QuietKnows

LEMMA QuietInvariant == Spec => []QuietKnows
  <1>1. Init => QuietKnows
    BY DEF Init, QuietKnows
  <1>2. TypeOK /\ LearntStaysTrue /\ QuietKnows /\ [Next]_vars => QuietKnows'
    <2> SUFFICES ASSUME TypeOK, LearntStaysTrue, QuietKnows, [Next]_vars
                 PROVE  QuietKnows'
      OBVIOUS
    <2>1. ASSUME NEW u \in Texts, ResolveIdentityProfile(u) PROVE QuietKnows'
      BY <2>1 DEF ResolveIdentityProfile, QuietKnows
    <2>2. CASE ResolveSingletonLineage
      BY <2>2, LineageReadKnows
    <2>3. CASE FindStoresForDid
      BY <2>3, ScanKnows
    <2>4. CASE pc' = "idle"
      BY <2>4 DEF QuietKnows
    <2>5. CASE FetchProfile \/ \E read \in {"lineage", "scan", "fetch"} : ReadFails(read)
      BY <2>4, <2>5 DEF FetchProfile, ReadFails, Fail, Return
    <2>6. CASE ChainMoves
      BY <2>6 DEF ChainMoves, WidenWindow, TypeOK, QuietKnows
    <2>7. CASE UNCHANGED vars
      BY <2>7, SameChainFacts DEF vars, QuietKnows, StateOf
    <2> QED  BY <2>1, <2>2, <2>3, <2>5, <2>6, <2>7 DEF Next, ResolverStep
  <1> QED  BY <1>1, <1>2, TypeCorrect, LearntInvariant, PTL DEF Spec

----------------------------------------------------------------------------
Exact == \/ Verdict' = AtomicAnswer(request)
         \/ FaultShows(Verdict', request)

\* A failing call gives the error as its verdict.
LEMMA FailVerdict ==
    ASSUME NEW error, error # "Ok", Fail(error)
    PROVE  Verdict' = [kind |-> error]
  BY DEF Fail, Return, Verdict

LEMMA LineageReadExact ==
    ASSUME TypeOK, ResolveSingletonLineage, Returns
    PROVE  Exact
  <1>1. pc = "lineage" /\ ParseDid(request).launcher_id = Anchor(request)
    BY OpenCall, ParseType DEF ResolveSingletonLineage
  <1>2. ~Anchored(request) /\ Fail("NoIdentitySingleton")
    BY <1>1 DEF ResolveSingletonLineage, Returns, Anchored
  <1> QED  BY <1>2, FailVerdict DEF Exact, AtomicAnswer

LEMMA ScanExact ==
    ASSUME TypeOK, LearntStaysTrue, QuietKnows, FindStoresForDid, Returns,
           quiet, Repeats = FALSE
    PROVE  Exact
  <1>1. pc = "scan" /\ Anchored(request)
    BY DEF FindStoresForDid, QuietKnows
  <1>2. PICK c \in Scans(singleton.did) :
          \/ Authentic(c) = {} /\ Fail("NoProfile")
          \/ (\E i, j \in Authentic(c) : i # j) /\ Fail("AmbiguousProfile")
          \/ UNCHANGED window
    BY DEF FindStoresForDid
  <1>3. CASE Authentic(c) = {} /\ Fail("NoProfile")
    <2>1. Owned(request) = {}
      BY <1>1, <1>3, OwnedIsAuthentic
    <2> QED  BY <1>1, <1>3, <2>1, FailVerdict DEF Exact, AtomicAnswer
  <1>4. CASE (\E i, j \in Authentic(c) : i # j) /\ Fail("AmbiguousProfile")
    <2>1. PICK i \in Authentic(c), j \in Authentic(c) : i # j
      BY <1>4
    <2>2. c[i] # c[j]
      BY <2>1 DEF Scans, Authentic
    <2>3. PICK s \in Owned(request) : c[i] = StateOf(s)
      BY <1>1, <2>1, AuthenticIsOwned
    <2>4. PICK t \in Owned(request) : c[j] = StateOf(t)
      BY <1>1, <2>1, AuthenticIsOwned
    <2>5. Contested(request) /\ Owned(request) # {}
      BY <2>2, <2>3, <2>4 DEF Contested
    <2> QED  BY <1>1, <1>4, <2>5, FailVerdict DEF Exact, AtomicAnswer
  <1>5. CASE UNCHANGED window
    BY <1>5 DEF Returns
  <1> QED  BY <1>2, <1>3, <1>4, <1>5

LEMMA FetchExact ==
    ASSUME TypeOK, LearntStaysTrue, QuietKnows, FetchProfile, quiet
    PROVE  Exact
  <1>1. pc = "fetch" /\ Anchored(request)
    BY DEF FetchProfile, QuietKnows
  <1>2. PICK s \in Owned(request) : Owned(request) = {s} /\ chosen = StateOf(s)
    BY <1>1 DEF QuietKnows
  <1>3. LauncherId(chosen.store) = s /\ chosen.root_hash = store[s].root
    BY <1>2, StateOfType DEF TypeOK, Owned
  <1>4. AtomicAnswer(request) =
            [kind |-> "Ok", store |-> s, root |-> store[s].root]
    <2>1. ~Contested(request)
      BY <1>2 DEF Contested
    <2> QED  BY <1>1, <1>2, <2>1 DEF AtomicAnswer
  <1>5. PICK b \in Served(s) : IF BuildRoot(b) # chosen.root_hash
                               THEN Fail("StaleOrTamperedRoot")
                               ELSE Return(IdentityProfile(b))
    BY <1>3 DEF FetchProfile
  <1>6. CASE BuildRoot(b) # chosen.root_hash
    <2>1. SourceFaults
      BY <1>3, <1>5, <1>6 DEF Served
    <2> QED  BY <1>4, <1>5, <1>6, <2>1, FailVerdict DEF Exact, FaultShows
  <1>7. CASE BuildRoot(b) = chosen.root_hash
    <2>1. b \in Bodies
      BY <1>5 DEF Served
    <2>2. StoreBelongsToDid(chosen.store, singleton)
      BY <1>1 DEF LearntStaysTrue, ChoiceIsOwned
    <2>3. /\ IdentityProfile(b).kind = "Ok"
          /\ IdentityProfile(b).profile.store = chosen.store
          /\ IdentityProfile(b).profile.root = store[s].root
      BY <1>3, <1>7, <2>2 DEF IdentityProfile
    <2>4. IdentityProfile(b) # NoAnswer
      <3>1. singleton \in Singletons /\ chosen \in ChainStoreStates
        BY <1>1 DEF TypeOK
      <3>2. chosen.store \in StoreRecords /\ BuildRoot(b) \in Roots
        BY <1>7, <3>1 DEF ChainStoreStates
      <3>3. IdentityProfile(b) \in [kind : {"Ok"}, profile : IdentityProfiles]
        BY <2>1, <2>2, <3>1, <3>2 DEF IdentityProfile, IdentityProfiles
      <3> QED  BY <3>3, ResolverAssumption
    <2>5. answer' = IdentityProfile(b)
      BY <1>5, <1>7 DEF Return
    <2>6. Verdict' = [kind |-> "Ok", store |-> s, root |-> store[s].root]
      BY <1>3, <2>3, <2>4, <2>5 DEF Verdict
    <2> QED  BY <1>4, <2>6 DEF Exact
  <1> QED  BY <1>6, <1>7

LEMMA ReadFailsExact ==
    ASSUME NEW read, ReadFails(read)
    PROVE  Exact
  BY FailVerdict DEF ReadFails, Exact, FaultShows

\* With a source that returns each store once and a chain at rest, the answer
\* of the three reads is the one a single atomic look at the chain gives,
\* errors included; a source without faults leaves no exception at all.
THEOREM QuietCallsAreExact ==
    ASSUME Repeats = FALSE
    PROVE  Spec => ExactWhenQuiet
  <1>1. TypeOK /\ LearntStaysTrue /\ QuietKnows /\ [Next]_vars
            => [Returns /\ quiet => Exact]_vars
    <2> SUFFICES ASSUME TypeOK, LearntStaysTrue, QuietKnows, Next, Returns, quiet
                 PROVE  Exact
      OBVIOUS
    <2>1. ASSUME NEW u \in Texts, ResolveIdentityProfile(u) PROVE FALSE
      BY <2>1 DEF ResolveIdentityProfile, TypeOK, Returns
    <2>2. CASE ResolveSingletonLineage
      BY <2>2, LineageReadExact
    <2>3. CASE FindStoresForDid
      BY <2>3, ScanExact
    <2>4. CASE FetchProfile
      BY <2>4, FetchExact
    <2>5. ASSUME NEW read \in {"lineage", "scan", "fetch"}, ReadFails(read)
          PROVE  Exact
      BY <2>5, ReadFailsExact
    <2>6. CASE ChainMoves
      BY <2>6 DEF ChainMoves, WidenWindow, Returns
    <2> QED  BY <2>1, <2>2, <2>3, <2>4, <2>5, <2>6 DEF Next, ResolverStep
  <1> QED
    BY <1>1, TypeCorrect, LearntInvariant, QuietInvariant, PTL
       DEF Spec, ExactWhenQuiet, Exact
=============================================================================
