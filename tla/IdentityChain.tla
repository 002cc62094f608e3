--------------------------- MODULE IdentityChain ---------------------------
(* The part of the Chia chain a resolution reads, as the documentation of    *)
(* ChainSource describes it: DID singletons, which every spend recreates as  *)
(* a new coin until they are melted, and profile stores, each launched by    *)
(* one coin and later updated by its owner.  None of it is code of the       *)
(* crate; it moves on its own between any two reads of the resolver.         *)
EXTENDS Pairing, Integers

CONSTANTS
    StoreIds,      \* launcher ids of profile stores
    ForeignCoins,  \* coins of no DID singleton, which may launch a store too
    Roots,         \* the roots a store can commit to
    MaxCoins,      \* bound: coins a DID singleton has after its launcher
    MaxUpdates,    \* bound: updates of one store's metadata
    NoStore        \* a store that was not launched yet

VARIABLES
    tip,     \* tip[d]: index of d's newest coin; 0 before d is launched
    melted,  \* the DIDs whose singleton was spent without a successor
    store    \* store[s]: what the chain says of store s

chain == <<tip, melted, store>>

Coin(d, i) == <<d, i>>
DidCoins == LauncherIds \X (0..MaxCoins)
Coins == DidCoins \cup ForeignCoins

StoreStates == [parent : Coins, description : Texts, root : Roots,
                updates : 0..MaxUpdates]

ASSUME ChainAssumption ==
    /\ MaxCoins \in Nat \ {0}
    /\ MaxUpdates \in Nat
    /\ NoStore \notin StoreStates
    /\ ForeignCoins \cap (LauncherIds \X Nat) = {}

Launched == {s \in StoreIds : store[s] # NoStore}
Live == {d \in LauncherIds : tip[d] > 0 /\ d \notin melted}
Lineage(d) == IF tip[d] = 0 THEN {} ELSE {Coin(d, i) : i \in 0..tip[d]}

ChainTypeOK ==
    /\ tip \in [LauncherIds -> 0..MaxCoins]
    /\ melted \subseteq LauncherIds
    /\ store \in [StoreIds -> StoreStates \cup {NoStore}]

ChainInit ==
    /\ tip = [d \in LauncherIds |-> 0]
    /\ melted = {}
    /\ store = [s \in StoreIds |-> NoStore]

LaunchDid(d) ==
    /\ tip[d] = 0
    /\ tip' = [tip EXCEPT ![d] = 1]
    /\ UNCHANGED <<melted, store>>

\* Any spend of the singleton: the tip coin is consumed and recreated.
SpendDid(d) ==
    /\ d \in Live
    /\ tip[d] < MaxCoins
    /\ tip' = [tip EXCEPT ![d] = @ + 1]
    /\ UNCHANGED <<melted, store>>

MeltDid(d) ==
    /\ d \in Live
    /\ melted' = melted \cup {d}
    /\ UNCHANGED <<tip, store>>

NewStore(s, parent, description, root) ==
    store' = [store EXCEPT ![s] = [parent |-> parent,
                                   description |-> description,
                                   root |-> root, updates |-> 0]]

\* The DID coin that launches a store is spent by the same spend, so the
\* store's parent is a past coin of the lineage as soon as it exists.
LaunchStoreFromDid(s, d, description, root) ==
    /\ store[s] = NoStore
    /\ d \in Live
    /\ tip[d] < MaxCoins
    /\ NewStore(s, Coin(d, tip[d]), description, root)
    /\ tip' = [tip EXCEPT ![d] = @ + 1]
    /\ UNCHANGED melted

LaunchStoreElsewhere(s, coin, description, root) ==
    /\ store[s] = NoStore
    /\ NewStore(s, coin, description, root)
    /\ UNCHANGED <<tip, melted>>

\* A store's owner may rewrite its description as well as its root.
UpdateStore(s, description, root) ==
    /\ s \in Launched
    /\ store[s].updates < MaxUpdates
    /\ <<description, root>> # <<store[s].description, store[s].root>>
    /\ store' = [store EXCEPT ![s].description = description,
                              ![s].root = root,
                              ![s].updates = @ + 1]
    /\ UNCHANGED <<tip, melted>>

ChainNext ==
    \/ \E d \in LauncherIds : LaunchDid(d) \/ SpendDid(d) \/ MeltDid(d)
    \/ \E s \in StoreIds, t \in Texts, r \in Roots :
        \/ \E d \in LauncherIds : LaunchStoreFromDid(s, d, t, r)
        \/ \E c \in ForeignCoins : LaunchStoreElsewhere(s, c, t, r)
        \/ UpdateStore(s, t, r)
============================================================================
