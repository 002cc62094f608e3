--------------------------- MODULE ResolveContract ---------------------------
(* What resolve_identity_profile promises its caller, with the three chain   *)
(* reads gone: a call is made, the chain moves, and one answer comes back    *)
(* that something on chain during the call justifies.                        *)
EXTENDS ResolutionWindow

CONSTANT NoAnswer  \* no call was answered yet, or one is open

VARIABLE verdict   \* the last answer: NoAnswer, an error, or an accepted store

vars == <<chain, window, verdict>>

\* The answers that what the chain said during the call justifies.
Justified(v) ==
    \* A store the DID owned during the call, under a root it had then; and
    \* never when another store was the DID's all along.
    \/ /\ v.kind = "Ok"
       /\ anchored
       /\ <<v.store, v.root>> \in witnessed
       /\ throughout \subseteq {v.store}
    \* The DID was unlaunched or melted at some instant.
    \/ v.kind = "NoIdentitySingleton" /\ anchorless
    \* No store was the DID's all along: one that was is always found.
    \/ v.kind = "NoProfile" /\ anchored /\ throughout = {}
    \* Two stores were the DID's at one instant.
    \/ v.kind = "AmbiguousProfile" /\ anchored /\ contested
    \* A store could have been accepted, had its content been right.
    \/ /\ v.kind = "StaleOrTamperedRoot"
       /\ anchored
       /\ \E w \in witnessed : throughout \subseteq {w[1]}
    \* The source may fail at any read.
    \/ v.kind = "Chain"

Verdicts == [kind : {"Ok"}, store : StoreIds, root : Roots]
            \cup [kind : {"NoIdentitySingleton", "NoProfile",
                          "AmbiguousProfile", "StaleOrTamperedRoot", "Chain",
                          "InvalidDid"}]

Init == ChainInit /\ ClosedWindow /\ verdict = NoAnswer

Reject ==
    /\ request = NoRequest
    /\ \E u \in Texts : ~ValidDid(u)
    /\ verdict' = [kind |-> "InvalidDid"]
    /\ UNCHANGED <<chain, window>>

Ask ==
    /\ request = NoRequest
    /\ \E u \in Texts : ValidDid(u) /\ OpenWindow(u)
    /\ verdict' = NoAnswer
    /\ UNCHANGED chain

Answer ==
    /\ request # NoRequest
    /\ \E v \in Verdicts : Justified(v) /\ verdict' = v
    /\ CloseWindow
    /\ UNCHANGED chain

ChainMoves == WidenWindow /\ UNCHANGED verdict

Next == Reject \/ Ask \/ Answer \/ ChainMoves

Spec == Init /\ [][Next]_vars
==============================================================================
