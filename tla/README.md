# A TLA+ verification of dig-identity

`dig-identity` decides, from facts that others read off the Chia chain, *which
profile belongs to a DID*, *what that profile says* and *who may change it*.
The crate runs no thread and keeps no state of its own; its difficulty is that
the chain it is told about keeps moving while it decides, that the documents
and proofs it is handed may be old or foreign, and that every answer it gives
must nevertheless be one a caller can act on.  The modules here model that:
the resolution against a moving chain first, then the sparse Merkle tree and
its proofs, the handle an owner edits (one, and several on several devices), the
update authority, and the parts that turn on bytes and numbers: the value
codec, the identity keys and the typed view of a profile.

Paths below are relative to the repository (`src/` is the crate's root, so the
Rust sources are `src/src/*.rs`).

## 1. Inventory

| Part | State | Operations | Correct when |
|---|---|---|---|
| DID codec, `did.rs` | none | `Did::parse`, `parse_did_from_description` | accepts a trimmed canonical `did:chia:` address and nothing else |
| Pairing predicate, `pairing.rs` | none (a lineage is a value) | `SingletonLineage::new`, `contains`, `evaluate_pairing`, `is_authoritative_profile`, `store_belongs_to_did` | a store is the DID's iff it names it *and* some past or present coin of the DID launched it |
| Resolution, `resolve.rs` | the locals of one call | `resolve_identity_profile`, `resolve_did_keys`, `resolve_bls_public_key` over the trait `ChainSource` | the answer is justified by what the chain said during the call; errors are told apart; the call ends |
| Chain and its sources | DID singletons, stores (outside the crate) | three reads, each of which may fail | trusted for facts, never for decisions; the body it serves is not trusted at all |
| Profile map and key view, `profile.rs`, `keys.rs` | slot -> value | `set`, `build_root`, `resolve_keys`, text accessors | a key is handed out only if it is of the right type and width and the root commits to it |
| Merkle tree, `tree.rs`, `hash.rs`, `proof.rs` | slot -> encoded value | `set`, `set_encoded`, `remove`, `prove_*`, `verify_*` | a proof never speaks falsely of the tree under the root it verifies against |
| Identity handle, `identity_profile.rs`, `verify.rs` | metadata, committed root | `resolve`, `set`, `commit_root`, `prove_field*`, `verify_profile_field*_for_did` | a verifier with the chain's root accepts what the published profile says and nothing else |
| Update authority, `authority.rs` | none (a record of chain facts) | `grants_update`, `authorizes` | exactly the owner and the holders of a live write grant are authorized |
| Value codec, `value.rs` | one slot's bytes (in `tree.rs`) | `encode`, `decode`; `set`, `set_encoded`, `remove`, `get` | what is written is read back; a reader and a verifier agree about every stored byte string |
| BLS keys, `bls.rs` | key slots, outside the crate | derivation, `public_key_bytes`, `g1_subgroup_check`, `g1_dh`, `sign_message`, `verify_signature` | two ends of an exchange agree; nothing but a key is ever multiplied; keys of profiles and of coins stay apart |
| XCH address, `xch.rs`; slot ranges, `slot.rs` | none | `parse_xch_address`, `is_valid_xch_address`; range predicates | the address is one of the payment network; the ranges leave no id out and share none |
| `error.rs`, `lib.rs` | none | declarations | - |

How the parts interact.  `resolve_identity_profile` parses its argument with
the DID codec, then makes three calls on its `ChainSource`: the DID's singleton
lineage, the stores that may name the DID, and the body of the one store it
settled on.  Between the first two it runs nothing; after the second it filters
with the pairing predicate *and the lineage of the first*; after the third it
compares the body's root with *the root of the second*, and constructs an
`IdentityProfile`, which runs the predicate again.  The handle then lives on
its own: the owner edits it, commits its root, mints proofs; the layer above
publishes the root in a store spend, whose right `authority.rs` decides; a
verifier elsewhere checks a proof with `verify.rs` against the root it reads
from the chain.  Nothing is shared between two calls, so no locks exist and
none are modelled: all concurrency is with the chain, with other devices of the
owner, and with verifiers holding old proofs.

What is hard here, and hardly reached by a unit test:

* three reads at three instants, each decided on with what the earlier ones
  said: a DID spent or melted, a store launched, redescribed or updated in
  between; reads that fail half-way; a store returned twice; a stale body;
* launching a store spends the coin that is its parent, so "launched by the
  current coin" is true of no store: the whole past has to count;
* proofs that outlive the tree they were minted from, or are shown for another
  slot; empty values against absent ones; proofs over edits not yet committed;
* delegations granted again, revoked, handed over and read around their expiry;
* two devices that resolve the same profile, edit it and publish in turn;
* widths: a 32-byte key of an older schema in the slot of a 48-byte key; values at
  the ends of their integers, lengths at the end of the length field;
* bytes stored by a relay that does not decode them, and 48 bytes in a key
  slot that are a point of small order, or of the wrong subgroup, or infinity.

The `hazards` of `PROJECT.json` list these at the lines where they bite, with
the properties that cover each, and say which are not covered and why.

## 2. Modules

| Module | Models | Role |
|---|---|---|
| `Pairing` | `did.rs`, `pairing.rs` | operators shared by every other part |
| `ProfileData` | `profile.rs`, `keys.rs`, root as in `tree.rs`/`hash.rs` | the profile map, its root and its key view |
| `IdentityChain` | external, from the docs of `ChainSource` and `pairing.rs` | the moving chain: DIDs and stores |
| `ResolutionWindow` | - | what an observer knows of the chain during one call |
| `ResolveContract` | - | **abstract specification**: ask, the chain moves, one justified answer |
| `Resolver` | `resolve.rs` (+ `IdentityProfile::resolve`) | the detailed specification; composes all of the above |
| `Resolver_proofs` | - | theorems about `Resolver`, those for a chain at rest last |
| `ProfileTree` | `hash.rs`, `tree.rs`, `proof.rs` | the sparse Merkle tree as operators, symbolic digests |
| `TreeProofs` | `ProfileTree`'s mutating methods | a tree in use, with one proof kept across its changes |
| `IdentityHandle` | `identity_profile.rs`, `verify.rs` | owner, publishers and verifier, over `Pairing` and `ProfileTree` |
| `SharedProfile` | `identity_profile.rs` on several devices | who undoes whose publication |
| `UpdateAuthority` | `authority.rs` | the predicate over a record kept along a history, and over one read earlier |
| `ValueCodec`, `StoredValues` | `value.rs`; the slot operations of `tree.rs` | a slot written, relayed, removed and read |
| `IdentityKeys`, `KeyExchange` | `bls.rs` | profiles of several wallets publish, exchange and sign |
| `ProfileView` | `profile.rs`, `slot.rs`, `xch.rs` | a writer, and a reader who assembles the profile from what it comes by |
| `DataInduction` | - | lemmas: induction over an initial part of the naturals, existence of what a recursion defines |
| `ProfileTree_proofs` | - | theorems about the tree's operators, `TreeProofs` and `IdentityHandle` |
| `SharedProfile_proofs`, `UpdateAuthority_proofs`, `KeyExchange_proofs`, `ProfileView_proofs`, `StoredValues_proofs` | - | theorems about those modules |
| `MC*` | - | the instances TLC checks |

`Pairing` <- `IdentityChain` <- `ResolutionWindow` <- (`ResolveContract`,
`Resolver`); `Resolver` also extends `ProfileData`, and instantiates
`ResolveContract` with `verdict <- Verdict`.

### Resolver

The locals of the call are the variables: `pc` is the read it makes next,
`singleton` what the lineage read gave, `chosen` the store the scan settled on,
`answer` the `Result`.  The actions are

| Action | Code (`src/src/resolve.rs`) |
|---|---|
| `ResolveIdentityProfile(u)` | the call up to the first read: `Did::parse`, or `InvalidDid` |
| `ResolveSingletonLineage` | the lineage read and the `NoIdentitySingleton` return |
| `FindStoresForDid` | the scan, the filter, `NoProfile` and `AmbiguousProfile` |
| `FetchProfile` | the body, the root comparison, `IdentityProfile::resolve`, the return |
| `ReadFails(read)` | the `?` on each read: `Chain`, nothing else kept |
| `ChainMoves` | a step of the chain, between any two of these |

A read happens at one instant.  A scan returns every store that names the DID at
that instant and may return others, in any order, at most `MaxCandidates`
of them; with `Repeats` it may return one twice.  With `SourceFaults` a read may fail
and a body may be any body at all.  `resolve_did_keys` and `resolve_bls_public_key`
are functions of the answer and appear as operators.

One caller is enough: two calls share no state, so each of several concurrent
calls sees exactly what this one sees, a chain that moves by itself.  The
answer is cleared when the next call opens, which only keeps the state space
small.

The chain: a DID is launched once, then every spend replaces its coin by a
successor until it is melted; a store is launched by a coin of a DID (which
that same spend consumes) or by a foreign coin, with any description, and its
owner may rewrite description and root.  `Coin(d, i)` is `d`'s i-th coin, 0
being the launcher, so a lineage is an interval of past coins.

The window makes "justified by what the chain said during the call" a
statement about the chain alone.  It remembers, since the call opened, whether the
DID was live at some instant (`anchored`), whether it was not (`anchorless`), the
stores it owned all along (`throughout`), the store/root pairs it owned at some
instant (`witnessed`) and whether it owned two at once (`contested`).
`Owned` is stated with the chain's own lineage and never with the crate's
predicate.  `ResolveContract` is then short: `Ok` needs a witnessed store and
root such that no other store was owned all along; `NoProfile` needs that no
store was; and so on for the errors.

### ProfileTree, TreeProofs

A digest is its preimage, so hashing is collision-free by construction (the
assumption under which such a tree means anything).  The node rules are those of the
`sparse-merkle-tree` crate as the source describes them: the zero digest for
an all-zero subtree, height and prefix hashed into every branch.
`Reconstruct` is the fold that `verify_leaf` runs.  `TreeProofs` sets and
removes slots in any order while one proof is kept; a `prove_*` call for a slot in the
other state is an error that changes nothing, so its guard is all there is of
it.  `minted` notes what the proof was minted for, so that verification can be tried for every slot and value against
the present root.  Its variables, actions and specification have names of their own
(`TreeSpec`, `MintProof`, ...), because one module proves theorems about it and about
`IdentityHandle`, which mints proofs too.

### IdentityHandle

`metadata` and `root` are the two fields of the handle that change; `chainRoot` is what
the store carries.  `SetSlot` leaves `root` alone, `CommitRoot` recomputes it,
`Mint` proves over `metadata` with its pending edits, as the code does.
Publication by this handle (`Publish`) and by another device
(`PublishElsewhere`) are external.  `committed` and `published` are history
variables.  `mint_from_did` always fails and changes nothing: it has no action.

### SharedProfile

Each device opens what the chain carries, edits its own handle, commits and
publishes; nothing in the crate orders them.  A root is symbolic, as in
`ProfileData`, so `Content(root)` is the profile it was computed from.
`openedAt`, `touched` and `unseen` are history: the chain's root when the device
opened, the slots it has set since, and the slots that publications of other
devices have changed since.  The crate does nothing against lost updates: a
device with a stale handle undoes what others published.  `OnlyUnseenWorkIsUndone`
says how far that goes, for stale handles as for fresh ones: a publication
changes a slot its device has not set only where the chain has been changed
since the device opened, so resolving again before publishing would show its
owner everything that is about to be lost.  It takes the root check of the
resolution (a handle opened over other content would put that content back) and the
frame of `set` and `commit_root`.

### UpdateAuthority

`Authorizes` is translated from the code.  Everything else is its environment:
a producer that keeps one entry per delegate as SPEC 8.3 asks, and an owner
who grants, revokes and transfers.  `log` is the history the decision is
judged against: `Entitled` looks only at the last word said about a party.
`Read` takes a record that is decided on later, as it is, at the height it was
read at.  `StaleRecordsErrTraceably` says when that can go wrong about a party:
the store went to or from it since, the last word about it was spoken since, or
the grant it holds has run out since; and in the last case it is let in too
long, never kept out.  Words about others, read-fee grants to them included, and blocks that pass
no expiry make no difference.

### ValueCodec, StoredValues

Bytes are digits to the base `ByteBase`, the length has `LenBytes` of them and
the three integer types one, two and three, so that the overflows which the code has at
2^16, 2^32 and 2^64 happen among small numbers.  `Encode` casts the length as the code does
(what does not fit is cut off) and `Decode` makes its checks in the code's
order.  `StoredValues` is one slot of the tree: set with a value, set with bytes a
relay never decoded, removed.  `ReadersAndVerifiersAgree` ties the two uses of the
bytes together: `get` returns a value exactly if a verifier who encodes that value
arrives at the same leaf.

### IdentityKeys, KeyExchange

A derived key is a wallet's seed and a path; `Scalar` is the number each turns
out to have, different for different keys.  The curve's group is a
product of residues, `Order` by `Cofactor`: the r-subgroup is its first factor, and
infinity, points of small order and mixed points exist as in the real group.
`KeyExchange` lets any profile write its key or other bytes into its slot,
exchange with what a peer's slot holds then, and sign.

### ProfileView

The accessors (`View`) over a writer's profile and a reader's.  The reader sets
values in any order, superseded ones among them.  The slot ranges have their real
bounds.  Addresses are the abstract strings of `Pairing`, where trimming and
decoding are constant functions.

## 3. Runs

| Run | Question | Shows |
|---|---|---|
| `resolver_contract` | Can a chain that moves between the reads, or a faulty source, make the call give an unjustified answer? | No: `Resolver` implements `ResolveContract`; what was learnt stays true (`LearntStaysTrue`); a key is the one that a root the accepted store had on chain during the call commits to (`KeyIsCommitted`) |
| `resolver_answers` | With nothing moving during the call, do three reads equal one atomic look, errors included? Does a call end, whatever is served? | Yes (`ExactWhenQuiet`), except where the source's own fault shows; yes (`CallReturns`), under `FairSpec` |
| `resolver_repeats` | Is a store ever called ambiguous with itself? | **Violated**, finding 1 |
| `tree_proofs` | Can a proof that is kept, or shown for another slot, say something false? Does it stay good while the other slots do? | No (`ProofsAreSound`); yes (`ProofsOutliveTheirSlot`); `RootCommits` |
| `tree_lifted` | Is a proof of one slot always rejected for another? | **Violated**, finding 2 |
| `handle_proofs` | Does a verifier with the chain's root accept exactly the published profile, however edits, commits, publications and mints interleave? | Yes (`AcceptedClaimsArePublished`, `PublishedClaimsAreAccepted`) |
| `shared_profile` | What does a device undo that publishes from a stale handle? | Only slots others have published since it opened (`OnlyUnseenWorkIsUndone`) |
| `update_authority` | Over every short history, does the predicate decide as the history entitles? When does a record read earlier err? | Yes (`DecidesByHistory`); only after a transfer to or from the party, a word about it or the end of its grant (`StaleRecordsErrTraceably`); the passing of blocks gives nobody authority (`TimeOnlyTakes`) |
| `stored_values` | Is what is written read back at every width and length? Can stored bytes show a reader a value no verifier confirms? | Yes, and a length that does not fit reads as an error, never as another value (`ReadsBack`); no (`ReadersAndVerifiersAgree`) |
| `key_exchange` | Do two ends agree, is nothing but a key used, do keys of different purposes stay apart? | Yes (`SecretsAgree`, `OnlyKeysAreUsed`, `SignaturesNameTheirProfile`) |
| `profile_view` | Is each slot id in one range alone, and does a reader depend on slots it has never heard of? | Yes; no (both `ForeignSlotsAreIgnored`) |
| `profile_address` | Does the address an accessor returns decode as it stands? | **Violated**, finding 3 |

### Bounds, and why they are enough

* `MaxCoins = 4` in `resolver_contract`: launcher, first coin, one spend that launches
  a store before or during the call, a second that launches the other after
  the lineage was read, and one plain spend.  Fewer coins would leave out a
  store whose parent is a coin newer than the lineage next to one whose parent
  is older.  `resolver_answers` has two DIDs and takes `MaxCoins = 3`: two stores
  can then be launched by one DID, which is all that ambiguity needs.
* Two stores tell none, one and several apart; `MaxCandidates = 2` returns both of
  them, or one next to one that was over-returned.
* `MaxUpdates = 1` changes a root or a description under the call.
  `resolver_answers` has 0: its calls are judged when the chain is at rest, and a
  store redescribed before the call is one launched with that description.
* Three bodies: one with a 48-byte key, one with the 32-byte key of the old
  schema, and one with another 48-byte key that no store commits to.  For each
  root there is a stale body (the other root's) and a tampered one.
* The first instance has a name with whitespace around it and an address with
  another prefix over the same payload, so that trimming and the prefix check matter.
* `Height = 3`, three slots: two keys that differ in the last bit and one that
  differs in the first, so siblings of every height occur, occupied and empty.
  A blob with an empty payload is told apart from the empty blob.
* `MaxEvents = 3`, `MaxHeight = 2`: grant, revoke and grant again, or grant, transfer
  and transfer back, at every height before, at and after each expiry, and an
  expiry of 0.  This model stops when the bounds are used up, hence
  `CHECK_DEADLOCK FALSE` there; everywhere else deadlock is checked.
* Two devices, two slots, two values: a device can publish, open again and publish
  again between another's opening and publication, both handles can be stale, and
  a value can come back.  A third device adds nothing a device could see: to each
  one, the others are one sequence of publications.
* `ByteBase = 6`, `LenBytes = 2`: six is the fewest digits that leave room for
  every tag; lengths below 36 fit, and payloads of 35, 36, 38 and 72 bytes stand at and past
  the end, where the truncated length is 0 or small again.  Blobs have every tag byte, the unused
  one included, lengths around the true one and up to three payload bytes.
* `Order = 11`, `Cofactor = 3`: ten subgroup keys for the ten derived ones that are
  told apart, two wallets (one with two profiles), coin keys with both
  indices; infinity, a point of order 3, a mixed point and no point at all as other bytes.
* `MaxEdits = 3` different slot values, over the ids on both sides of each bound
  between the ranges (255/256, 4095/4096, 61439/61440), an address slot and a key
  slot, and addresses as written, with spaces and of another network.
* Symmetry is used for stores, parties and devices, in runs without liveness
  properties only; `resolver_answers` has none.

### Fairness

`FairSpec` assumes weak fairness of `ResolverStep` alone: a read that was made
returns, well or with an error, and the code between two reads, which contains no
loop over a read and no wait, runs on.  Nothing is assumed of the chain, which may move for ever
or stop, or of the caller.  A source that never returns makes the call hang: the
crate has no timeout, and the trait leaves that to its implementors.

## 4. Proofs

All theorems hold for every value of the constants that satisfies the named
assumptions; TLC evaluates each assumption in a run of a module that
extends its module.

| Module | Theorem | Statement |
|---|---|---|
| `Resolver_proofs` | `TypeCorrect` | `Spec => []TypeOK` |
| | `LearntInvariant` | `Spec => []LearntStaysTrue` |
| | `ResolverImplementsContract` | `Repeats = FALSE => (Spec => ImplementsContract)` |
| | `KeysAreCommitted` | `Spec => KeyIsCommitted` |
| | `QuietCallsAreExact` | `Repeats = FALSE => (Spec => ExactWhenQuiet)` |
| `ProfileTree_proofs` | `KeptProofsAreSound` | `TreeSpec => []ProofsAreSound` |
| | `KeptProofsOutliveTheirSlot` | `TreeSpec => []ProofsOutliveTheirSlot` |
| | `RootCommitsToEverySlot` | `TreeSpec => []RootCommits` |
| | `HandleTypeCorrect` | `Spec => []TypeOK` (`IdentityHandle`) |
| | `OnlyPublishedClaimsAreAccepted` | `Spec => []AcceptedClaimsArePublished` |
| | `EveryPublishedClaimIsAccepted` | `Spec => []PublishedClaimsAreAccepted` |
| `SharedProfile_proofs` | `TypeCorrect` | `Spec => []TypeOK` |
| | `UndoesOnlyUnseenWork` | `Spec => OnlyUnseenWorkIsUndone` |
| `UpdateAuthority_proofs` | `RecordDecidesByHistory` | `Spec => []DecidesByHistory` |
| | `StaleRecordsErrOnlySo` | `Spec => []StaleRecordsErrTraceably` |
| | `TimeGivesNothing` | `Spec => TimeOnlyTakes` |
| `KeyExchange_proofs` | `TypeCorrect` | `Spec => []TypeOK` |
| | `SecretsNeedKeys` | `Spec => []OnlyKeysAreUsed` |
| | `ExchangesAgree` | `Spec => []SecretsAgree` |
| | `SignaturesAreBound` | `Spec => []SignaturesNameTheirProfile` |
| `ProfileView_proofs` | `ForeignSlotsDoNotShow` | `Spec => []ForeignSlotsAreIgnored` |
| `StoredValues_proofs` | `WritesAreReadBack` | `Spec => []ReadsBack` |
| | `ReadersAgreeWithVerifiers` | `Spec => []ReadersAndVerifiersAgree` |

### The resolver

Assumptions: `CodecAssumption` (trimming is idempotent, the codec is a
function), `ChainAssumption`, `RequestAssumption` and `ResolverAssumption`, which concern
the sets the constants range over.  `Repeats = FALSE` is needed: finding 1 is the
counterexample without it.

The contract speaks of the whole call, the resolver only of what
it read, so a step of the resolver can be mapped to `Answer` only if what was
learnt at the earlier reads still implies something about the window now.
That is `LearntStaysTrue`, and it needs three parts.  `WindowIsCurrent`: the
window includes the present instant.  `LineageIsPast`: the lineage read is
contained in the DID's lineage of now, and contains the parent of every store
owned *throughout* the call, because such a store was already owned at the
instant of the lineage read.  `ChoiceIsOwned`: the chosen store and its root are in
`witnessed`, and no other store is in `throughout`.  They are inductive together
because the chain only grows (`ChainGrows`: lineages only get longer, a
store's parent never changes), while `throughout` only shrinks and
`witnessed` only grows.  With `LineageIsPast` the filter of the scan finds
every store of `throughout` (`ThroughoutIsAuthentic`) and nothing that is not
owned (`AuthenticIsOwned`); each branch of `FindStoresForDid` and
`FetchProfile` then picks its disjunct of `Justified`.
`KeysAreCommitted` uses `ChoiceIsOwned` again: the root the content was checked
against is one that the chosen store is witnessed with, and content of that
root has the key leaf, or none, that the root commits to (`KeyLeafOfBody`).

`QuietCallsAreExact` adds `QuietKnows`: as long as nothing has moved since the
call opened, the lineage read is the DID's *present* lineage and the chosen store
is the *only* one owned.  Then the filter keeps exactly the stores owned now
(`OwnedIsAuthentic`, `OneKeptIsOneOwned`), and each exit of the call is the
corresponding case of the atomic answer.  With `SourceFaults = FALSE` the
exception in the property is empty, so the theorem covers that case with nothing excused.

### Recursion and induction

The tree and the codec compute by recursion (the levels of the tree, the
fold that verifies a proof, the digits of a number), and what they compute is
needed for *every* height and width.  The library's induction theorems take a
predicate as a parameter, which the provers cannot instantiate.  `DataInduction`
states induction with a *set* instead: `LeastElement` is the well-foundedness of `<` on the
naturals, and `Upward` and `Downward` follow from it (a set that holds 0, or `n`, and is
closed under the next level, or the one below, holds all of `0..n`).  A proof takes the set of
the levels at which the claim is true.

A recursive function is, formally, *some* function that satisfies its equation, so
each proof first shows that there is one (`LevelsExist`, `FoldExists`,
`RestExists`, `NumberExists`, `PowerExists`: a solution up to `n - 1` extends to
`n`), and from then on uses the equation alone (`LevelsDef`, `ReconstructDef`, ...).

### The tree

Assumptions: `TreeAssumption` (keys of `Height` bits, different for different
slots; no value encodes to nothing).

Soundness needs nothing of where the proof comes from.  With the prefix fixed,
`Merge` is injective in its two children and zero only for two zeros
(`MergeInjective`); so if folding any siblings whatever into a leaf's digest gives the
root, then going down from the root the fold agrees at every level with the tree's own digest
on the slot's path, and at the bottom the two leaves are equal (`OnlyTheLeafVerifies`).
A leaf's digest binds its slot and value (`LeafInjective`), hence
`KeptProofsAreSound`, for old proofs and for proofs of other slots alike.

Completeness goes upwards.  A change of one slot changes no digest beside its path
(`OffThePathNothingChanges`), so the siblings taken then are those of now, and
folding them into what the slot holds now gives the present root
(`ProofOfTheLeafVerifies`).  The invariant this takes is `TreeInv`: types, and
`NoteIsTrue`, that the kept proof is the one the note describes.  `RootDetermines` is the
same descent over all prefixes at once: equal roots, equal levels, equal leaves.

### The handle, and several of them

For one handle the invariant `HandleInv` adds to `TypeOK` (the committed root is that of the
metadata last resolved or committed, the chain's of what was published)
`FieldIsMinted`: the proof in circulation was minted over the metadata noted with
it, and claims what stood in its slot there.  An accepted claim has passed the
pairing, which by `HandleAssumption` only the DID's own store does, and the
fold against the root of what is published, which by the soundness of the tree makes it
true; a claim over what is published, or over what is committed, passes
both by its completeness.

For several handles,
`TypeOK` (of each device, its pending and its committed profile differ from what it
opened only in slots it has set) is inductive together with the shape of the handles, and
with `MovedOnly`: since a device opened, the chain has moved only in the slots
of `touched` and `unseen`.  Before a publication, then, the chain and the root to be
published both differ from what was opened in those slots alone, which is
`OnlyUnseenWorkIsUndone`.  `RootDetermines` (a root has one profile) is what lets the
proof speak of the content of a root.

### The update authority

`Mirrors`: a party has either no entry and no word in the log about it, or
exactly one of each, and they agree.  This is inductive over grants, revocations
and transfers of any number (`AppendedWord` says what one more event does to the
last words), and gives `DecidesByHistory` at once.  For a stale record the
invariant also holds `RecordHolds`: for a party about which no word has been
spoken since the record was read (`Untold`), the record has the present entries.
If the store did not change hands about that party either, record and history can
differ only in the height they are compared with, and an earlier height only
lets in more (`EarlierIsLonger`).

### The keys

From `KeyAssumption` (the order has no zero divisors, which is what its being
prime is used for) and `DerivationAssumption` (no two derived keys collide).  The
subgroup check passes exactly the points of `Keys`; the product of two keys is a key;
multiplication commutes up to the remainder; paths of different profiles, and of
profiles and coins, differ in a component, so their keys differ.

### The view

From `SlotAssumption`, ids are numbers.  The accessors read standard slots
only (`StandardSlotsAgree`), and `RangesPartition` shows that each id is in exactly one
of the four ranges.

### The codec

From `CodecWidths` (a byte has room for every tag, the length field has a
digit) and `ByteStrings` (payloads and blobs are made of bytes).  The remainders
that `ToBytes` writes and the numbers that `FromBytes` reads off undo each other:
`WriteThenRead` for every number below `Power(width)`, `ReadThenWrite` for every
byte string, so an encoding and its value determine each other.
`FromBytesBound` says that a length field never reads as `Power(LenBytes)` or more, which is why a payload
that does not fit is always taken for a wrong length and never for another value.  With
the checks of `Decode` in their order this gives `DecodesEncoded` and
`OnlyItsEncodingDecodes`.  `WroteThat`, that the slot holds what the
last write leaves there, is the invariant; it is inductive as it stands.

### Only model-checked

`CallReturns`: liveness under fairness is beyond this prover.  The
properties of the three runs that end in a violation are refuted by TLC.  Every
other property of a run is proved.

## 5. Findings

1. `resolver_repeats`: the check counts records, not stores.  A source that
   returns the only store twice makes the call fail with `AmbiguousProfile`,
   although `src/src/resolve.rs:91` calls over-returning safe.
2. `tree_lifted`: `verify_membership` (`src/src/proof.rs:38`) documents that a
   proof lifted from another slot yields `Ok(false)`.  Minted from a tree in which the other
   slot's siblings are the same, it verifies.  What it shows is true of the
   tree (`ProofsAreSound`): only the documented reason is wrong.
3. `profile_address`: the accessor checks the trimmed address and returns the
   string as it stands, while `src/src/profile.rs:77` calls the returned string
   safe to use as a payment destination.  With a space around it, it does not decode.

Three more disagreements with the docs are small enough to be read off the models:

* The doc of `AmbiguousProfile` (`src/src/resolve.rs:125`) says that authority
  "MUST NOT be guessed".  The lineage is read before the stores
  (`src/src/resolve.rs:161` and `:172`), so a second store launched by a coin newer than the lineage
  is filtered out, and the other one is accepted although both are the DID's when the
  scan is made.  The contract allows it: the accepted store was the DID's,
  and the second was not during the whole call.
* `src/SPEC.md:452` says that minted proofs verify against `root()`; between `set` and
  `commit_root` they are minted over the pending edits, and do not.  The doc of
  the method says what the code does, and `PublishedClaimsAreAccepted` when they verify.
* `src/src/value.rs:88` casts the payload's length to 32 bits.  A longer payload
  is written with a wrong header; by `ReadsBack` it reads as an error.

## 6. Not modelled

* `error.rs` and `lib.rs` declare and re-export; the error variants appear as the
  kinds of the answers.  `mint_from_did` is a stub that always fails, and
  `StoreOwnershipProof` bundles two records for calls that are modelled.
* Reorganisations of the chain and the melting of a store: the trait
  `ChainSource` has no way to report either in the middle of a call, and the code
  handles neither.  A source that lies about lineages or roots, which the crate
  trusts for facts (it may fail, over-return, and serve any body).
* Which spellings of one DID the bech32m codec accepts
  (`src/src/pairing.rs:141` compares texts besides launcher ids): the codec is external.
* I/O errors of the tree: its store is in memory.
* The elliptic curve, the bech32m codec, EIP-2333 and SHA-256 themselves, wording
  and display.

To repeat the checks: `tlc -config <run>.cfg <module>` for each run of
`PROJECT.json`, and `tlapm` on `DataInduction.tla` and each `*_proofs.tla`.
