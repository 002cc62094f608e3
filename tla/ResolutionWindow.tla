-------------------------- MODULE ResolutionWindow --------------------------
(* What an observer of the chain knows about one resolution: everything the  *)
(* chain said between the moment the call was made and now.  The chain keeps *)
(* moving while a call is open, so a correct answer can only be judged       *)
(* against this window.  The facts here are stated from the chain itself,    *)
(* not with the resolver's own predicate.                                    *)
EXTENDS IdentityChain

CONSTANT NoRequest  \* no call is open

VARIABLES
    request,     \* the did_uri of the open call, or NoRequest
    anchored,    \* at some instant of the call the DID had a live coin
    anchorless,  \* at some instant of the call it had none
    throughout,  \* stores the DID owned at every instant of the call
    witnessed,   \* <<s, r>>: at some instant the DID owned s, with root r
    contested,   \* at some instant the DID owned two stores or more
    quiet        \* the chain has not moved since the call was made

window == <<request, anchored, anchorless, throughout, witnessed, contested,
            quiet>>

ASSUME RequestAssumption == NoRequest \notin Texts

ValidDid(u) == LET a == Decode[Trim[u]]
               IN  a # NoAddress /\ a.prefix = "did:chia:"

Anchor(u) == Decode[Trim[u]].puzzle_hash

\* A DID owns the stores that name it now and were launched by one of its
\* own coins, whichever of them that was.
Owned(u) == {s \in Launched : /\ Trim[store[s].description] = Trim[u]
                              /\ store[s].parent \in Lineage(Anchor(u))}

Anchored(u) == Anchor(u) \in Live
Rooted(u) == {<<s, store[s].root>> : s \in Owned(u)}
Contested(u) == \E s1, s2 \in Owned(u) : s1 # s2

WindowTypeOK ==
    /\ request \in {u \in Texts : ValidDid(u)} \cup {NoRequest}
    /\ throughout \subseteq StoreIds
    /\ witnessed \subseteq StoreIds \X Roots
    /\ {anchored, anchorless, contested, quiet} \subseteq BOOLEAN

ClosedWindow ==
    /\ request = NoRequest
    /\ anchored = FALSE /\ anchorless = FALSE /\ contested = FALSE
    /\ throughout = {} /\ witnessed = {}
    /\ quiet = TRUE

OpenWindow(u) ==
    /\ request' = u
    /\ anchored' = Anchored(u)
    /\ anchorless' = ~Anchored(u)
    /\ throughout' = Owned(u)
    /\ witnessed' = Rooted(u)
    /\ contested' = Contested(u)
    /\ quiet' = TRUE

\* The chain takes a step, seen by the open call if there is one.
WidenWindow ==
    /\ ChainNext
    /\ UNCHANGED request
    /\ IF request = NoRequest
       THEN UNCHANGED window
       ELSE /\ anchored' = (anchored \/ Anchored(request)')
            /\ anchorless' = (anchorless \/ ~Anchored(request)')
            /\ throughout' = throughout \cap Owned(request)'
            /\ witnessed' = witnessed \cup Rooted(request)'
            /\ contested' = (contested \/ Contested(request)')
            /\ quiet' = FALSE

CloseWindow ==
    /\ request' = NoRequest
    /\ anchored' = FALSE /\ anchorless' = FALSE /\ contested' = FALSE
    /\ throughout' = {} /\ witnessed' = {}
    /\ quiet' = TRUE
=============================================================================
