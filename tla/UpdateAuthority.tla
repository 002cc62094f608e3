--------------------------- MODULE UpdateAuthority ---------------------------
(* Who may advance a store's root (authority.rs).  The chain's owner grants, *)
(* replaces and revokes CHIP-0035 delegations and may hand the store over,   *)
(* while blocks go by; the record a conforming producer reads from it holds  *)
(* one entry per delegate, marked when revoked.  The predicate decides on    *)
(* that record alone; the log remembers what really happened, in order.      *)
EXTENDS Integers, Sequences

CONSTANTS
    Parties,    \* puzzle hashes
    NoExpiry,   \* expires_at_height is None
    MaxHeight,  \* bound: blocks
    MaxEvents   \* bound: grants, revocations and transfers

VARIABLES
    owner,        \* owner_puzzle_hash
    delegations,  \* the delegations recorded on the store
    height,       \* current_height
    log,          \* history: the grants and revocations, oldest first
    record,       \* the StoreUpdateAuthority a caller resolved some time ago
    readAt        \* history: the events logged by then

vars == <<owner, delegations, height, log, record, readAt>>

ASSUME AuthorityAssumption ==
    MaxHeight \in Nat /\ MaxEvents \in Nat /\ NoExpiry \notin Nat

DelegationKind == {"Writer", "Admin", "Oracle"}
Expiries == 0..MaxHeight \cup {NoExpiry}

WriterDelegation == [delegate : Parties, kind : DelegationKind,
                     revoked : BOOLEAN, expires_at : Expiries]

GrantsUpdate(kind) == kind \in {"Writer", "Admin"}

\* Mutant of DelegationAuthorizes: valid at its expiry height, too.
DelegationAuthorizesAtExpiry(d, caller, now) ==
    /\ d.delegate = caller
    /\ GrantsUpdate(d.kind)
    /\ ~d.revoked
    /\ d.expires_at = NoExpiry \/ now <= d.expires_at

\* Mutant of DelegationAuthorizes: valid from its expiry height on.
DelegationAuthorizesAfterExpiry(d, caller, now) ==
    /\ d.delegate = caller
    /\ GrantsUpdate(d.kind)
    /\ ~d.revoked
    /\ d.expires_at = NoExpiry \/ now >= d.expires_at

\* Mutant of DelegationAuthorizes: whoever it was granted to.
DelegationAuthorizesAnyone(d, caller, now) ==
    /\ GrantsUpdate(d.kind)
    /\ ~d.revoked
    /\ d.expires_at = NoExpiry \/ now < d.expires_at

DelegationAuthorizes(d, caller, now) ==
    /\ d.delegate = caller
    /\ GrantsUpdate(d.kind)
    /\ ~d.revoked
    /\ d.expires_at = NoExpiry \/ now < d.expires_at

\* What a source resolves at this instant.
StoreUpdateAuthority ==
    [owner_puzzle_hash |-> owner, delegations |-> delegations,
     current_height |-> height]

Authorizes(authority, caller) ==
    \/ caller = authority.owner_puzzle_hash
    \/ \E d \in authority.delegations :
        DelegationAuthorizes(d, caller, authority.current_height)

Init ==
    /\ owner \in Parties /\ delegations = {} /\ height = 0 /\ log = <<>>
    /\ record = StoreUpdateAuthority /\ readAt = 0

\* A caller resolves the authority; it decides on the record from then on.
Read ==
    /\ record' = StoreUpdateAuthority /\ readAt' = Len(log)
    /\ UNCHANGED <<owner, delegations, height, log>>

EntryOf(party) == {d \in delegations : d.delegate = party}

Record(event) ==
    /\ Len(log) < MaxEvents
    /\ log' = Append(log, event)
    /\ UNCHANGED <<record, readAt>>

\* A delegate has one entry: a new grant replaces it, a revocation marks it.
Grant(party, kind, expiry) ==
    /\ delegations' = (delegations \ EntryOf(party)) \cup
            {[delegate |-> party, kind |-> kind, revoked |-> FALSE,
              expires_at |-> expiry]}
    /\ Record([to |-> party, kind |-> kind, until |-> expiry])
    /\ UNCHANGED <<owner, height>>

Revoke(party) ==
    /\ EntryOf(party) # {}
    /\ delegations' = (delegations \ EntryOf(party)) \cup
            {[d EXCEPT !.revoked = TRUE] : d \in EntryOf(party)}
    /\ Record([to |-> party, kind |-> "Revocation", until |-> 0])
    /\ UNCHANGED <<owner, height>>

\* The recorded delegations stay on the store when it changes hands.
Transfer(party) ==
    /\ party # owner
    /\ owner' = party
    /\ Record([to |-> party, kind |-> "Transfer", until |-> 0])
    /\ UNCHANGED <<delegations, height>>

NextBlock ==
    /\ height < MaxHeight
    /\ height' = height + 1
    /\ UNCHANGED <<owner, delegations, log, record, readAt>>

Next ==
    \/ \E party \in Parties :
        \/ \E kind \in DelegationKind, expiry \in Expiries :
            Grant(party, kind, expiry)
        \/ Revoke(party)
        \/ Transfer(party)
    \/ NextBlock
    \/ Read

Spec == Init /\ [][Next]_vars

----------------------------------------------------------------------------
\* What the history entitles a party to: the owner to everything, a delegate
\* to what the last grant or revocation about it says, before its end.
LastWordOn(party) ==
    {i \in 1..Len(log) :
        /\ log[i].to = party /\ log[i].kind # "Transfer"
        /\ \A j \in i + 1 .. Len(log) :
            log[j].to = party => log[j].kind = "Transfer"}

Entitled(party) ==
    \/ party = owner
    \/ \E i \in LastWordOn(party) :
        /\ log[i].kind \in {"Writer", "Admin"}
        /\ log[i].until = NoExpiry \/ height < log[i].until

\* The predicate decides exactly what the history entitles: no revoked,
\* replaced, expired or read-fee grant lets anyone in, nor is a party with a
\* live grant kept out, whatever came in between.
DecidesByHistory ==
    \A party \in Parties :
        Authorizes(StoreUpdateAuthority, party) <=> Entitled(party)

\* What a caller risks that decides on a record it read earlier: the record
\* errs about a party only if the store went to or from that party since, if
\* the last word about it was spoken since, or if the grant it holds has run
\* out since.  With neither of the first two it lets a party in too long,
\* but it never keeps one out.
ChangedHands(party) ==
    owner # record.owner_puzzle_hash /\ party \in {owner, record.owner_puzzle_hash}

RanOutSince(i) ==
    /\ log[i].until # NoExpiry
    /\ record.current_height < log[i].until /\ log[i].until <= height

StaleRecordsErrTraceably ==
    \A party \in Parties :
        \/ Authorizes(record, party) <=> Entitled(party)
        \/ ChangedHands(party)
        \/ \E i \in LastWordOn(party) :
            i > readAt \/ (RanOutSince(i) /\ Authorizes(record, party))

\* Time alone never gives authority: a party that had none gets it only by
\* an act of the owner.
TimeOnlyTakes ==
    [][NextBlock => \A party \in Parties :
            Authorizes(StoreUpdateAuthority, party)'
                => Authorizes(StoreUpdateAuthority, party)]_vars
==============================================================================
