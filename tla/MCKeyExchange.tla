---------------------------- MODULE MCKeyExchange ----------------------------
(* Two wallets, one with two profiles, over a subgroup of order 11 with      *)
(* cofactor 3; a slot may hold its key, infinity, a point of small order, a  *)
(* point outside the subgroup, or no point at all.                              *)
EXTENDS KeyExchange

MCProfiles == {[seed |-> "s1", ix |-> 0], [seed |-> "s1", ix |-> 1],
               [seed |-> "s2", ix |-> 0]}

\* Every path used, and the bare prefix, has a scalar of its own.
MCScalar ==
    LET number == [s1 |-> 0, s2 |-> 1]
        paths == {<<12381, 8444, app, n>> : app \in {9, 2}, n \in {0, 1}}
                 \cup {IDENTITY_PATH_PREFIX}
    IN  [sk \in [seed : Seeds, path : paths] |->
            IF Len(sk.path) = 3 THEN 9 + number[sk.seed]
            ELSE 1 + sk.path[4] + (IF sk.path[3] = 2 THEN 2 ELSE 0)
                   + 4 * number[sk.seed]]

MCOtherBytes == {Infinity, <<0, 1>>, <<2, 1>>, Malformed}
==============================================================================
