---------------------------- MODULE MCProfileView ----------------------------
(* Ids at the ends of the ranges and the slots the view reads; an address,   *)
(* the same with spaces around it, one of another network, and byte strings  *)
(* of both widths.                                                           *)
EXTENDS ProfileView

MCTexts == {"xch1A", " xch1A ", "txch1A"}
MCTrim == [t \in MCTexts |-> IF t = " xch1A " THEN "xch1A" ELSE t]
MCDecode == [t \in MCTexts |->
    CASE t = "xch1A"  -> [prefix |-> "xch", puzzle_hash |-> "A"]
      [] t = "txch1A" -> [prefix |-> "txch", puzzle_hash |-> "A"]
      [] OTHER        -> NoAddress]

MCValues ==
    {[tag |-> "Utf8", width |-> 5, payload |-> t] : t \in MCTexts}
    \cup {[tag |-> "Bytes", width |-> w, payload |-> "key"] : w \in {32, 48}}
==============================================================================
