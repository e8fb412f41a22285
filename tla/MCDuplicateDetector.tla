------------------------ MODULE MCDuplicateDetector ------------------------
(* Two trades of one stream equal in content, told apart by the venue's    *)
(* number, a trade of another stream under a number already used, and two  *)
(* quotes that differ in what the hash leaves out, as two trades without a *)
(* number may.  Capacity 2 and a window of 2 ticks make both ways of       *)
(* forgetting happen within the calls allowed.                             *)
EXTENDS DuplicateDetector

CONSTANT MaxCalls   \* bound on the calls of is_duplicate()

MCSpec == Init /\ [][stats.seen < MaxCalls /\ Next]_vars

Trade(asset, number, content) ==
    [stream |-> asset, sequence |-> number, hashed |-> content, unhashed |-> "-"]

Quote(asset, content, size) ==
    [stream |-> asset, sequence |-> None, hashed |-> content, unhashed |-> size]

MCEvents == {Trade("BTC", 1, "100x1"), Trade("BTC", 2, "100x1"), Trade("ETH", 1, "100x1"),
             Quote("BTC", "100/101", "5x5"), Quote("BTC", "100/101", "5x9")}

MCTimes == 0..5
=============================================================================
