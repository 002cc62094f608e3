------------------------ MODULE UpdateAuthority_proofs ------------------------
(* Theorems about UpdateAuthority, for every set of parties and every number *)
(* of blocks and events: what the record decides is what the history says.   *)
EXTENDS UpdateAuthority, TLAPS

Events == [to : Parties, kind : DelegationKind \cup {"Revocation", "Transfer"},
           until : Expiries]

Records == [owner_puzzle_hash : Parties, delegations : SUBSET WriterDelegation,
            current_height : 0..MaxHeight]

Typed ==
    /\ owner \in Parties
    /\ delegations \subseteq WriterDelegation
    /\ \A d1, d2 \in delegations : d1.delegate = d2.delegate => d1 = d2
    /\ height \in 0..MaxHeight
    /\ log \in Seq(Events) /\ Len(log) <= MaxEvents
    /\ record \in Records /\ record.current_height <= height
    /\ readAt \in Nat /\ readAt <= Len(log)

\* An entry says what the event it was last written for says.
Agrees(d, event) ==
    IF event.kind = "Revocation" THEN d.revoked
    ELSE ~d.revoked /\ d.kind = event.kind /\ d.expires_at = event.until

\* A party has one entry, from the last word about it, or neither.
Mirrors(party) ==
    \/ LastWordOn(party) = {} /\ EntryOf(party) = {}
    \/ \E i \in LastWordOn(party), d \in EntryOf(party) :
        /\ LastWordOn(party) = {i} /\ EntryOf(party) = {d}
        /\ Agrees(d, log[i])

\* Nothing was said about the party since the record was read.
Untold(party) == \A i \in LastWordOn(party) : i <= readAt

RecordHolds(party) ==
    {d \in record.delegations : d.delegate = party} = EntryOf(party)

Inv ==
    /\ Typed
    /\ \A party \in Parties : Mirrors(party)
    /\ \A party \in Parties : Untold(party) => RecordHolds(party)

----------------------------------------------------------------------------
\* One more event is the last word about the party it concerns, and changes
\* nothing about the others; a transfer is a word about no delegation.
LEMMA AppendedWord ==
    ASSUME Typed, NEW event \in Events, log' = Append(log, event),
           NEW party \in Parties
    PROVE  /\ LastWordOn(party)' =
                IF event.to = party /\ event.kind # "Transfer"
                THEN {Len(log) + 1} ELSE LastWordOn(party)
           /\ \A i \in 1..Len(log) : log'[i] = log[i]
           /\ log'[Len(log) + 1] = event
           /\ Len(log') = Len(log) + 1
           /\ log' \in Seq(Events)
  <1>1. /\ log \in Seq(Events) /\ log' \in Seq(Events) /\ Len(log) \in Nat
        /\ Len(log') = Len(log) + 1
        /\ \A i \in 1..Len(log) : log'[i] = log[i]
        /\ log'[Len(log) + 1] = event
    BY DEF Typed
  <1>2. CASE event.to = party /\ event.kind # "Transfer"
    BY <1>1, <1>2 DEF LastWordOn
  <1>3. CASE ~(event.to = party /\ event.kind # "Transfer")
    <2>1. ASSUME NEW i \in 1..Len(log)
          PROVE  i \in LastWordOn(party)' <=> i \in LastWordOn(party)
      BY <1>1, <1>3 DEF LastWordOn
    <2>2. Len(log) + 1 \notin LastWordOn(party)'
      BY <1>1, <1>3 DEF LastWordOn
    <2> QED  BY <1>1, <1>3, <2>1, <2>2 DEF LastWordOn
  <1> QED  BY <1>1, <1>2, <1>3

\* An event that leaves a party's entry and ownership alone leaves it mirrored.
LEMMA OthersAreMirrored ==
    ASSUME Typed, NEW event \in Events, log' = Append(log, event),
           NEW party \in Parties, Mirrors(party),
           event.to # party \/ event.kind = "Transfer",
           EntryOf(party)' = EntryOf(party)
    PROVE  Mirrors(party)'
  <1>1. LastWordOn(party)' = LastWordOn(party)
    BY AppendedWord
  <1>2. \A i \in LastWordOn(party) : log'[i] = log[i]
    BY AppendedWord DEF LastWordOn
  <1> QED  BY <1>1, <1>2 DEF Mirrors, Agrees

\* A record keeps the entry of a party the event is no word about.
LEMMA StillHeld ==
    ASSUME Inv, NEW event \in Events, log' = Append(log, event),
           UNCHANGED <<record, readAt>>, NEW party \in Parties,
           event.to # party \/ event.kind = "Transfer",
           EntryOf(party)' = EntryOf(party), Untold(party)'
    PROVE  RecordHolds(party)'
  <1>1. LastWordOn(party)' = LastWordOn(party)
    BY AppendedWord DEF Inv
  <1>2. Untold(party)
    BY <1>1 DEF Untold
  <1> QED  BY <1>2 DEF Inv, RecordHolds

\* A word about the party is one the record has not heard.
LEMMA TellingIsHeard ==
    ASSUME Typed, NEW event \in Events, log' = Append(log, event),
           UNCHANGED readAt, NEW party \in Parties,
           event.to = party, event.kind # "Transfer"
    PROVE  ~Untold(party)'
  <1>1. LastWordOn(party)' = {Len(log) + 1}
    BY AppendedWord
  <1>2. readAt <= Len(log) /\ readAt \in Nat /\ Len(log) \in Nat
    BY DEF Typed
  <1> QED  BY <1>1, <1>2 DEF Untold

----------------------------------------------------------------------------
\* An event that keeps one entry a delegate keeps the types.
LEMMA EventTyped ==
    ASSUME Typed, NEW event \in Events, log' = Append(log, event),
           Len(log) < MaxEvents, UNCHANGED <<record, readAt, height>>,
           owner' \in Parties, delegations' \subseteq WriterDelegation,
           \A d1, d2 \in delegations' : d1.delegate = d2.delegate => d1 = d2
    PROVE  Typed'
  <1>1. Len(log') = Len(log) + 1 /\ log' \in Seq(Events) /\ Len(log) \in Nat
    BY AppendedWord DEF Typed
  <1> QED  BY <1>1, AuthorityAssumption DEF Typed

\* What an act does to the entries: the party's own is rewritten, the other
\* parties' stay.
LEMMA GrantStep ==
    ASSUME Inv, NEW to \in Parties, NEW kind \in DelegationKind,
           NEW expiry \in Expiries, Grant(to, kind, expiry)
    PROVE  Inv'
  <1> DEFINE event == [to |-> to, kind |-> kind, until |-> expiry]
             entry == [delegate |-> to, kind |-> kind, revoked |-> FALSE,
                       expires_at |-> expiry]
  <1>1. /\ event \in Events /\ log' = Append(log, event) /\ Typed
        /\ Len(log) < MaxEvents /\ UNCHANGED <<record, readAt, owner, height>>
        /\ delegations' = (delegations \ EntryOf(to)) \cup {entry}
        /\ entry \in WriterDelegation
    BY DEF Grant, Record, Events, Inv, WriterDelegation
  <1>2. EntryOf(to)' = {entry}
    BY <1>1 DEF EntryOf
  <1>3. \A p \in Parties \ {to} : EntryOf(p)' = EntryOf(p)
    BY <1>1 DEF EntryOf
  <1>4. Typed'
    <2>1. /\ delegations' \subseteq WriterDelegation
          /\ \A d1, d2 \in delegations' : d1.delegate = d2.delegate => d1 = d2
      <3>1. entry.delegate = to
        OBVIOUS
      <3> HIDE DEF entry
      <3> QED  BY <1>1, <3>1 DEF Typed, EntryOf
    <2>2. owner' \in Parties
      BY <1>1 DEF Typed
    <2> QED  BY <1>1, <2>1, <2>2, EventTyped
  <1>5. ASSUME NEW p \in Parties PROVE Mirrors(p)'
    <2>1. CASE p = to
      <3>1. LastWordOn(p)' = {Len(log) + 1} /\ log'[Len(log) + 1] = event
        BY <1>1, <2>1, AppendedWord DEF DelegationKind
      <3>2. Agrees(entry, event)
        BY DEF Agrees, DelegationKind
      <3> QED  BY <1>2, <2>1, <3>1, <3>2 DEF Mirrors, Agrees
    <2>2. CASE p # to
      BY <1>1, <1>3, <2>2, OthersAreMirrored DEF Inv
    <2> QED  BY <2>1, <2>2
  <1>6. ASSUME NEW p \in Parties, Untold(p)' PROVE RecordHolds(p)'
    <2>1. p # to
      BY <1>1, <1>6, TellingIsHeard DEF DelegationKind
    <2> QED  BY <1>1, <1>3, <1>6, <2>1, StillHeld
  <1> QED  BY <1>4, <1>5, <1>6 DEF Inv

LEMMA RevokeStep ==
    ASSUME Inv, NEW to \in Parties, Revoke(to)
    PROVE  Inv'
  <1> DEFINE event == [to |-> to, kind |-> "Revocation", until |-> 0]
             marked == {[d EXCEPT !.revoked = TRUE] : d \in EntryOf(to)}
  <1>1. /\ event \in Events /\ log' = Append(log, event) /\ Typed
        /\ Len(log) < MaxEvents /\ UNCHANGED <<record, readAt, owner, height>>
        /\ delegations' = (delegations \ EntryOf(to)) \cup marked
        /\ EntryOf(to) # {}
    BY AuthorityAssumption DEF Revoke, Record, Events, Expiries, Inv
  <1>2. PICK d \in EntryOf(to) : EntryOf(to) = {d}
    BY <1>1 DEF Typed, EntryOf
  <1> DEFINE entry == [d EXCEPT !.revoked = TRUE]
  <1>3. /\ marked = {entry} /\ entry \in WriterDelegation
        /\ entry.revoked = TRUE /\ entry.delegate = to
    BY <1>1, <1>2 DEF EntryOf, Typed, WriterDelegation
  <1>4. EntryOf(to)' = {entry}
    BY <1>1, <1>3 DEF EntryOf
  <1>5. \A p \in Parties \ {to} : EntryOf(p)' = EntryOf(p)
    BY <1>1, <1>3 DEF EntryOf
  <1>6. Typed'
    <2>1. /\ delegations' \subseteq WriterDelegation
          /\ \A d1, d2 \in delegations' : d1.delegate = d2.delegate => d1 = d2
      BY <1>1, <1>3 DEF Typed, EntryOf
    <2>2. owner' \in Parties
      BY <1>1 DEF Typed
    <2> QED  BY <1>1, <2>1, <2>2, EventTyped
  <1>7. ASSUME NEW p \in Parties PROVE Mirrors(p)'
    <2>1. CASE p = to
      <3>1. LastWordOn(p)' = {Len(log) + 1} /\ log'[Len(log) + 1] = event
        BY <1>1, <2>1, AppendedWord
      <3>2. Agrees(entry, event)
        BY <1>3 DEF Agrees
      <3> HIDE DEF entry
      <3> QED  BY <1>4, <2>1, <3>1, <3>2 DEF Mirrors, Agrees
    <2>2. CASE p # to
      BY <1>1, <1>5, <2>2, OthersAreMirrored DEF Inv
    <2> QED  BY <2>1, <2>2
  <1>8. ASSUME NEW p \in Parties, Untold(p)' PROVE RecordHolds(p)'
    <2>1. p # to
      BY <1>1, <1>8, TellingIsHeard DEF DelegationKind
    <2> QED  BY <1>1, <1>5, <1>8, <2>1, StillHeld
  <1> QED  BY <1>6, <1>7, <1>8 DEF Inv

LEMMA TransferStep ==
    ASSUME Inv, NEW to \in Parties, Transfer(to)
    PROVE  Inv'
  <1> DEFINE event == [to |-> to, kind |-> "Transfer", until |-> 0]
  <1>1. /\ event \in Events /\ log' = Append(log, event) /\ Typed
        /\ Len(log) < MaxEvents
        /\ UNCHANGED <<record, readAt, delegations, height>> /\ owner' = to
    BY AuthorityAssumption DEF Transfer, Record, Events, Expiries, Inv
  <1>2. \A p \in Parties : EntryOf(p)' = EntryOf(p)
    BY <1>1 DEF EntryOf
  <1>3. Typed'
    BY <1>1, AppendedWord, AuthorityAssumption DEF Typed
  <1>4. ASSUME NEW p \in Parties PROVE Mirrors(p)'
    BY <1>1, <1>2, OthersAreMirrored DEF Inv
  <1>5. ASSUME NEW p \in Parties, Untold(p)' PROVE RecordHolds(p)'
    BY <1>1, <1>2, <1>5, StillHeld
  <1> QED  BY <1>3, <1>4, <1>5 DEF Inv

LEMMA ReadStep == Inv /\ Read => Inv'
  <1> SUFFICES ASSUME Inv, Read PROVE Inv'
    OBVIOUS
  <1>1. /\ record' = StoreUpdateAuthority /\ readAt' = Len(log)
        /\ UNCHANGED <<owner, delegations, height, log>>
    BY DEF Read
  <1>2. Typed'
    BY <1>1, AuthorityAssumption
       DEF Inv, Typed, Records, StoreUpdateAuthority
  <1>3. ASSUME NEW p \in Parties PROVE Mirrors(p)'
    BY <1>1 DEF Inv, Mirrors, LastWordOn, EntryOf, Agrees
  <1>4. ASSUME NEW p \in Parties PROVE RecordHolds(p)'
    BY <1>1 DEF RecordHolds, StoreUpdateAuthority, EntryOf
  <1> QED  BY <1>2, <1>3, <1>4 DEF Inv

\* All of Inv but the types depends on four variables and the history alone.
LEMMA SameRecords ==
    ASSUME Inv, Typed', UNCHANGED <<owner, delegations, log, record, readAt>>
    PROVE  Inv'
  <1>1. ASSUME NEW p \in Parties PROVE Mirrors(p)'
    <2>1. /\ LastWordOn(p)' = LastWordOn(p) /\ EntryOf(p)' = EntryOf(p)
      BY DEF LastWordOn, EntryOf
    <2> QED  BY <2>1 DEF Inv, Mirrors, Agrees
  <1>2. ASSUME NEW p \in Parties, Untold(p)' PROVE RecordHolds(p)'
    <2>1. Untold(p)
      BY <1>2 DEF Untold, LastWordOn
    <2> QED  BY <2>1 DEF Inv, RecordHolds, EntryOf
  <1> QED  BY <1>1, <1>2 DEF Inv

LEMMA BlockStep == Inv /\ NextBlock => Inv'
  <1> SUFFICES ASSUME Inv, NextBlock PROVE Inv'
    OBVIOUS
  <1>1. /\ height < MaxHeight /\ height' = height + 1
        /\ UNCHANGED <<owner, delegations, log, record, readAt>>
    BY DEF NextBlock
  <1>2. Typed'
    BY <1>1, AuthorityAssumption DEF Inv, Typed, Records
  <1> QED  BY <1>1, <1>2, SameRecords

LEMMA Invariant == Spec => []Inv
  <1>1. Init => Inv
    <2> SUFFICES ASSUME Init PROVE Inv
      OBVIOUS
    <2>1. Typed
      BY AuthorityAssumption
         DEF Init, Typed, Records, StoreUpdateAuthority
    <2>2. \A p \in Parties : Mirrors(p)
      BY DEF Init, Mirrors, LastWordOn, EntryOf
    <2>3. \A p \in Parties : RecordHolds(p)
      BY DEF Init, RecordHolds, StoreUpdateAuthority, EntryOf
    <2> QED  BY <2>1, <2>2, <2>3 DEF Inv
  <1>2. Inv /\ [Next]_vars => Inv'
    <2> SUFFICES ASSUME Inv, [Next]_vars PROVE Inv'
      OBVIOUS
    <2>1. CASE UNCHANGED vars
      <3>1. Typed'
        BY <2>1 DEF vars, Inv, Typed
      <3> QED  BY <2>1, <3>1, SameRecords DEF vars
    <2> QED
      BY <2>1, GrantStep, RevokeStep, TransferStep, ReadStep, BlockStep DEF Next
  <1> QED  BY <1>1, <1>2, PTL DEF Spec

----------------------------------------------------------------------------
\* An entry lets its party in exactly if the last word about it does.
LEMMA MirrorDecides ==
    ASSUME Inv, NEW party \in Parties
    PROVE  Authorizes(StoreUpdateAuthority, party) <=> Entitled(party)
  <1> DEFINE In(d) == DelegationAuthorizes(d, party, height)
             Says(i) == /\ log[i].kind \in {"Writer", "Admin"}
                        /\ log[i].until = NoExpiry \/ height < log[i].until
  <1>1. Authorizes(StoreUpdateAuthority, party) <=>
            party = owner \/ \E d \in EntryOf(party) : In(d)
    BY DEF Authorizes, StoreUpdateAuthority, EntryOf, DelegationAuthorizes
  <1>2. Entitled(party) <=>
            party = owner \/ \E i \in LastWordOn(party) : Says(i)
    BY DEF Entitled
  <1>3. ASSUME NEW i \in LastWordOn(party), NEW d \in EntryOf(party),
               Agrees(d, log[i])
        PROVE  In(d) <=> Says(i)
    <2>1. d.delegate = party
      BY DEF EntryOf
    <2>2. CASE log[i].kind = "Revocation"
      BY <1>3, <2>2 DEF Agrees, DelegationAuthorizes
    <2>3. CASE log[i].kind # "Revocation"
      BY <1>3, <2>1, <2>3 DEF Agrees, DelegationAuthorizes, GrantsUpdate
    <2> QED  BY <2>2, <2>3
  <1>4. (\E d \in EntryOf(party) : In(d)) <=> \E i \in LastWordOn(party) : Says(i)
    <2>1. Mirrors(party)
      BY DEF Inv
    <2>2. CASE LastWordOn(party) = {} /\ EntryOf(party) = {}
      BY <2>2
    <2>3. CASE ~(LastWordOn(party) = {} /\ EntryOf(party) = {})
      <3>1. PICK i \in LastWordOn(party), d \in EntryOf(party) :
                /\ LastWordOn(party) = {i} /\ EntryOf(party) = {d}
                /\ Agrees(d, log[i])
        BY <2>1, <2>3 DEF Mirrors
      <3>2. In(d) <=> Says(i)
        BY <1>3, <3>1
      <3> HIDE DEF In, Says
      <3> QED  BY <3>1, <3>2
    <2> QED  BY <2>2, <2>3
  <1> QED  BY <1>1, <1>2, <1>4

\* After every history, however long, the predicate decides as the history
\* entitles: the record is never more, nor less, than the owner's last words.
THEOREM RecordDecidesByHistory == Spec => []DecidesByHistory
  <1>1. Inv => DecidesByHistory
    BY MirrorDecides DEF DecidesByHistory
  <1> QED  BY <1>1, Invariant, PTL

\* What was granted for a later height is granted for an earlier one.
LEMMA EarlierIsLonger ==
    ASSUME NEW d \in WriterDelegation, NEW party, NEW now \in Nat,
           NEW before \in Nat, before <= now, DelegationAuthorizes(d, party, now)
    PROVE  DelegationAuthorizes(d, party, before)
  BY AuthorityAssumption DEF DelegationAuthorizes, WriterDelegation, Expiries

\* A record read at any earlier time errs about a party only after a transfer
\* to or from it, after a word about it, or, and then by letting it in, after
\* the end of the grant it holds.
THEOREM StaleRecordsErrOnlySo == Spec => []StaleRecordsErrTraceably
  <1>1. Inv => StaleRecordsErrTraceably
    <2> SUFFICES ASSUME Inv, NEW party \in Parties,
                        ~(Authorizes(record, party) <=> Entitled(party)),
                        ~ChangedHands(party),
                        \A i \in LastWordOn(party) : ~(i > readAt)
                 PROVE  \E i \in LastWordOn(party) :
                            RanOutSince(i) /\ Authorizes(record, party)
      BY DEF StaleRecordsErrTraceably
    <2> DEFINE before == record.current_height
               In(d, h) == DelegationAuthorizes(d, party, h)
    <2>1. /\ RecordHolds(party) /\ Typed /\ Mirrors(party)
          /\ before \in Nat /\ height \in Nat /\ before <= height
      <3>1. Untold(party)
        BY DEF Inv, Typed, Untold, LastWordOn
      <3> QED  BY <3>1, AuthorityAssumption DEF Inv, Typed, Records
    <2>2. Entitled(party) <=> Authorizes(StoreUpdateAuthority, party)
      BY MirrorDecides
    <2>3. party # owner /\ party # record.owner_puzzle_hash
      <3>1. party = owner => Entitled(party)
        BY DEF Entitled
      <3>2. party = record.owner_puzzle_hash => Authorizes(record, party)
        BY DEF Authorizes
      <3> QED  BY <3>1, <3>2 DEF ChangedHands
    <2>4. Authorizes(record, party) <=> \E d \in EntryOf(party) : In(d, before)
      <3>1. \A d : In(d, before) => d.delegate = party
        BY DEF DelegationAuthorizes
      <3>2. \A d : d \in record.delegations /\ d.delegate = party
                    <=> d \in EntryOf(party)
        BY <2>1 DEF RecordHolds
      <3>3. Authorizes(record, party)
                <=> \E d \in record.delegations : In(d, before)
        BY <2>3 DEF Authorizes
      <3> HIDE DEF In, before
      <3> QED  BY <3>1, <3>2, <3>3
    <2>5. Entitled(party) <=> \E d \in EntryOf(party) : In(d, height)
      BY <2>2, <2>3 DEF Authorizes, StoreUpdateAuthority, EntryOf,
                        DelegationAuthorizes
    <2>6. PICK d \in EntryOf(party) : In(d, before) /\ ~In(d, height)
      <3>1. ASSUME NEW d \in EntryOf(party), In(d, height)
            PROVE  In(d, before)
        <4>1. d \in WriterDelegation
          BY <2>1 DEF EntryOf, Typed
        <4> QED  BY <2>1, <3>1, <4>1, EarlierIsLonger
      <3> HIDE DEF In, before
      <3> QED  BY <2>4, <2>5, <3>1
    <2>7. PICK i \in LastWordOn(party) : Agrees(d, log[i])
      BY <2>1, <2>6 DEF Mirrors
    <2>8. RanOutSince(i)
      <3>1. /\ ~d.revoked /\ d.expires_at # NoExpiry
            /\ before < d.expires_at /\ ~(height < d.expires_at)
        BY <2>6 DEF DelegationAuthorizes
      <3>2. d.expires_at \in Nat
        <4>1. d \in WriterDelegation
          BY <2>1 DEF EntryOf, Typed
        <4> QED  BY <3>1, <4>1, AuthorityAssumption DEF WriterDelegation, Expiries
      <3>3. log[i].until = d.expires_at
        BY <2>7, <3>1 DEF Agrees
      <3> QED  BY <2>1, <3>1, <3>2, <3>3 DEF RanOutSince
    <2> QED  BY <2>4, <2>6, <2>7, <2>8
  <1> QED  BY <1>1, Invariant, PTL

\* Blocks alone give nobody authority.
THEOREM TimeGivesNothing == Spec => TimeOnlyTakes
  <1>1. Inv /\ [Next]_vars =>
            [NextBlock => \A party \in Parties :
                Authorizes(StoreUpdateAuthority, party)'
                    => Authorizes(StoreUpdateAuthority, party)]_vars
    <2> SUFFICES ASSUME Inv, NextBlock, NEW party \in Parties,
                        Authorizes(StoreUpdateAuthority, party)'
                 PROVE  Authorizes(StoreUpdateAuthority, party)
      OBVIOUS
    <2>1. height' = height + 1 /\ UNCHANGED <<owner, delegations>>
      BY DEF NextBlock
    <2>2. CASE party = owner
      BY <2>2 DEF Authorizes, StoreUpdateAuthority
    <2>3. CASE party # owner
      <3>1. PICK d \in delegations : DelegationAuthorizes(d, party, height + 1)
        BY <2>1, <2>3 DEF Authorizes, StoreUpdateAuthority
      <3>2. height \in Nat /\ d.expires_at \in Nat \cup {NoExpiry}
        BY AuthorityAssumption DEF Inv, Typed, WriterDelegation, Expiries
      <3>3. DelegationAuthorizes(d, party, height)
        BY <3>1, <3>2 DEF DelegationAuthorizes
      <3> QED  BY <3>3 DEF Authorizes, StoreUpdateAuthority
    <2> QED  BY <2>2, <2>3
  <1> QED  BY <1>1, Invariant, PTL DEF Spec, TimeOnlyTakes
=============================================================================
