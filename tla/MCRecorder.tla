----------------------------- MODULE MCRecorder -----------------------------
(* One trade stream and one quote stream.  The frames are those that make  *)
(* the interesting cases: a trade, a frame overlapping it with one more, a *)
(* jump, a frame that may come late into that jump and skips one number    *)
(* itself, a quote without a number, and one frame of each kind that       *)
(* carries no events; each may be delivered again.                         *)
EXTENDS Recorder

Trade(n, verdict) ==
    [stream |-> "trades", sequence |-> n, hashed |-> "-", unhashed |-> "-",
     quality |-> verdict]

Quote ==
    [stream |-> "bbo", sequence |-> None, hashed |-> "99/101", unhashed |-> "5/5",
     quality |-> "WARNING"]

Data(events, traders) == [kind |-> "data", events |-> events, traders |-> traders]
Other(kind) == [kind |-> kind, events |-> <<>>, traders |-> 0]

First == Data(<<Trade(1, "VALID")>>, 2)
Overlap == Data(<<Trade(1, "VALID"), Trade(2, "INVALID")>>, 2)
Jump == Data(<<Trade(5, "VALID")>>, 0)
Late == Data(<<Trade(2, "VALID"), Trade(4, "VALID")>>, 0)
QuoteFrame == Data(<<Quote>>, 0)

MCStreams == {"trades", "bbo"}
MCSeqNumbers == 1..5
MCAllFrames == {First, Overlap, Jump, Late, QuoteFrame, Other("control"),
                Other("unparseable"), Other("unnormalizable"), Other("rejected")}
=============================================================================
