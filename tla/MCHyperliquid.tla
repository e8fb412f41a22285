---------------------------- MODULE MCHyperliquid ----------------------------
(* The venue's connection and what is made of its frames, one at a time:   *)
(* one rests where it began while the other takes its steps.               *)
(*                                                                         *)
(* Connection: delays of 5, 10, 10, ... seconds, the capped ones off by    *)
(* one either way, within a clock long enough for an outage of all the     *)
(* attempts allowed, before or after a connection.                         *)
(* Frames of every channel.  The fields range over every form a parser     *)
(* tells apart, the numbers over both sides of each limit of the schemas   *)
(* and of the quality engine: trades with up to two entries, each a good   *)
(* one with at most one field changed; every pair of quote levels; books   *)
(* with up to two levels a side; contexts with any two fields changed.     *)
EXTENDS WebSocketSource, Normalization

Number(n) == [form |-> "number", n |-> n]
Fraction(n) == [form |-> "fraction", n |-> n]
NotFinite == [form |-> "notfinite", n |-> 0]
Other(form) == [form |-> form, n |-> 0]

Unreadable == {Other("missing"), Other("empty"), Other("boolean"), Other("float"), Other("text")}

Prices == {Number(100), Number(112), Fraction(104), Number(0), Number(-1), NotFinite}
Sizes == {Number(1), Number(0), Number(-1), NotFinite}
VenueTimes == {Number(t) : t \in {10, 6, 7, 11, 12, 0, -5, 100, 101}}

(* One field changed to one of values.                                     *)
Changed(record, field, values) == {[record EXCEPT ![field] = v] : v \in values}

GoodTrade ==
    [named |-> TRUE, side |-> "B", px |-> Number(100), sz |-> Number(1),
     time |-> Number(10), tid |-> Number(7), users |-> <<"w1", "w2">>]

MCTrades ==
    {GoodTrade, Malformed}
    \cup Changed(GoodTrade, "named", {FALSE})
    \cup Changed(GoodTrade, "side", {"A", "C"})
    \cup Changed(GoodTrade, "px", Prices \cup Unreadable)
    \cup Changed(GoodTrade, "sz", Sizes \cup {Other("missing")})
    \cup Changed(GoodTrade, "time", VenueTimes \cup {Fraction(10), Other("missing")})
    \cup Changed(GoodTrade, "tid", {Other("missing"), Other("text")})
    \cup Changed(GoodTrade, "users", {Malformed, <<>>, <<"w1", "w1">>, <<"w2">>})

Level(px, sz, n) == [px |-> px, sz |-> sz, n |-> n]

Levels ==
    {Level(px, Number(1), Number(3)) : px \in Prices}
    \cup {Level(Number(100), sz, Other("missing")) : sz \in Sizes}
    \cup {Level(Other("float"), Number(1), Number(3)), Level(Number(100), Number(1), Other("text")),
          Malformed}

Quotes ==
    [named : {TRUE}, bid : Levels \cup {Null}, ask : Levels \cup {Null},
     time : {Number(10), Number(0), Number(12)}]
    \cup Changed([named |-> TRUE, bid |-> Level(Number(100), Number(1), Number(3)),
                  ask |-> Level(Number(104), Number(1), Number(3)), time |-> Number(10)],
                 "time", VenueTimes \cup Unreadable)

Sides ==
    {<<>>, Malformed, <<Level(Number(112), Number(1), Number(3))>>}
    \cup {<<Level(Number(100), Number(1), Number(3)), deep>> : deep \in Levels}

Books ==
    [named : BOOLEAN, bids : Sides, asks : Sides, time : {Number(10), Number(101)}]

GoodContext ==
    [named |-> TRUE, funding |-> Number(1), openInterest |-> Number(5),
     markPx |-> Number(100), oraclePx |-> Number(100), unused |-> Number(1)]

ContextFields == {"funding", "openInterest", "markPx", "oraclePx", "unused"}
ContextValues == {Number(0), Number(-1), NotFinite, Other("missing"), Other("empty"), Other("float")}

Contexts ==
    UNION {Changed(c, field, ContextValues) :
              c \in UNION {Changed(GoodContext, f, ContextValues) : f \in ContextFields},
              field \in ContextFields}

Frame(channel, data) == [channel |-> channel, data |-> data]

MCVenueFrames ==
    {Malformed, Frame("pong", Null), Frame("trades", Malformed), Frame("bbo", Malformed)}
    \cup {Frame("trades", <<>>)}
    \cup {Frame("trades", <<t>>) : t \in MCTrades}
    \cup {Frame("trades", <<t, u>>) : t, u \in MCTrades}
    \cup {Frame("bbo", q) : q \in Quotes}
    \cup {Frame("l2Book", b) : b \in Books}
    \cup {Frame("activeAssetCtx", c) : c \in Contexts}
    \cup {Frame("activeAssetCtx",
                [GoodContext EXCEPT !.funding = Other("missing"), !.openInterest = Other("missing"),
                                    !.markPx = Other("empty"), !.oraclePx = Other("missing")])}

MCReadingsOfNow == {9, 10}
MCMalformedOnly == {Malformed}

(* One of the initial states of the frames.                                *)
FramesRest == frame = Malformed /\ stage = "parsing"

MCInit == Init /\ NormalizationInit

MCNext ==
    \/ FramesRest /\ Next /\ UNCHANGED normalizationVars
    \/ Init /\ NormalizationNext /\ UNCHANGED vars

MCSpec == MCInit /\ [][MCNext]_<<vars, normalizationVars>>
=============================================================================
