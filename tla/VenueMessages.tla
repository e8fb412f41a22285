--------------------------- MODULE VenueMessages ---------------------------
(***************************************************************************)
(* The pure part of the way from a frame of the venue to events: which     *)
(* frames parse (hyperliquid/messages.py), what one record becomes         *)
(* (hyperliquid/normalize.py), what the event schemas refuse               *)
(* (schemas/market_event.py, trader_event.py), and the quality verdict on  *)
(* one event (services/market_data/quality.py).                            *)
(*                                                                         *)
(* A field is told apart by what the parsers look at: its JSON type, and   *)
(* the number it stands for.  Malformed is a value of a type other than    *)
(* the one expected.  Numbers are integers here; decimals are exact in the *)
(* code, and nothing but their order and the spread ratio is computed.     *)
(***************************************************************************)
EXTENDS Integers, Sequences

CONSTANTS
    MAX_PLAUSIBLE_VENUE_MS,     \* a venue time beyond it is a unit error
    MAX_PLAUSIBLE_SOURCE_DELAY,
    MAX_PLAUSIBLE_CLOCK_SKEW,
    MaxSpreadPercent,           \* MAX_PLAUSIBLE_SPREAD_FRACTION
    Wallets,                    \* the parties a trade may name
    Malformed,                  \* JSON of another type
    Null                        \* JSON's null, Python's None

ASSUME LimitsAssumption ==
    /\ MAX_PLAUSIBLE_VENUE_MS \in Nat
    /\ MAX_PLAUSIBLE_SOURCE_DELAY \in Nat
    /\ MAX_PLAUSIBLE_CLOCK_SKEW \in Nat
    /\ MaxSpreadPercent \in Nat

(* "number" is an integer or its text; "fraction" a text int() refuses;    *)
(* "notfinite" the texts NaN and Infinity, which Decimal() accepts.        *)
Forms == {"number", "fraction", "notfinite", "missing", "empty", "boolean", "float", "text"}

Field == [form : Forms, n : Int]

ASSUME NullAssumption == Null \notin Field /\ Null \notin Int

(* What a frame of each channel is made of, where it is of the JSON types  *)
(* expected.                                                               *)
LevelFields == [px : Field, sz : Field, n : Field]
BookSides == Seq(LevelFields \cup {Malformed}) \cup {Malformed}
TradeFields ==
    [named : BOOLEAN, side : STRING, px : Field, sz : Field, time : Field, tid : Field,
     users : Seq(Wallets) \cup {Malformed}]
BookFields == [named : BOOLEAN, bids : BookSides, asks : BookSides, time : Field]
BboFields ==
    [named : BOOLEAN, bid : LevelFields \cup {Malformed, Null},
     ask : LevelFields \cup {Malformed, Null}, time : Field]
AssetFields ==
    [named : BOOLEAN, funding : Field, openInterest : Field, markPx : Field,
     oraclePx : Field, unused : Field]

DATA_CHANNELS == {"trades", "l2Book", "bbo", "activeAssetCtx"}

----------------------------------------------------------------------------
(* Mutants.                                                                *)

PossibleQuantity_NotZero(v) == v # Null => v.form # "notfinite" /\ v.n > 0

Ahead_SignSwapped(event, receivedAt) ==
    event.time # Null /\ receivedAt - event.time > MAX_PLAUSIBLE_CLOCK_SKEW

----------------------------------------------------------------------------
(* Reading a frame.                                                        *)

Readable(v) == v.form \in {"number", "fraction", "notfinite"}              \* _decimal()
OptionallyReadable(v) == v.form \in {"missing", "empty"} \/ Readable(v)
IsInteger(v) == v.form = "number"                                          \* _int()
OptionallyInteger(v) == v.form = "missing" \/ IsInteger(v)

LevelReadable(level) ==
    /\ level # Malformed
    /\ Readable(level.px)
    /\ Readable(level.sz)
    /\ OptionallyInteger(level.n)

TradeReadable(entry) ==
    /\ entry # Malformed
    /\ entry.named
    /\ entry.side \in {"B", "A"}
    /\ Readable(entry.px)
    /\ Readable(entry.sz)
    /\ IsInteger(entry.time)
    /\ OptionallyInteger(entry.tid)

BookReadable(data) ==
    /\ data.bids # Malformed /\ data.asks # Malformed
    /\ data.named
    /\ \A side \in {data.bids, data.asks} : \A i \in DOMAIN side : LevelReadable(side[i])
    /\ IsInteger(data.time)

BboReadable(data) ==
    /\ data.named
    /\ \A level \in {data.bid, data.ask} : level # Null => LevelReadable(level)
    /\ IsInteger(data.time)

(* Fields nothing is made of have to be readable too.                      *)
ContextReadable(data) ==
    /\ data.named
    /\ \A v \in {data.funding, data.openInterest, data.markPx, data.oraclePx, data.unused} :
          OptionallyReadable(v)

(* parse_message() returns rather than raises.                             *)
FrameReadable(frame) ==
    /\ frame # Malformed
    /\ frame.channel \in DATA_CHANNELS => frame.data # Malformed
    /\ frame.channel = "trades" => \A i \in DOMAIN frame.data : TradeReadable(frame.data[i])
    /\ frame.channel = "l2Book" => BookReadable(frame.data)
    /\ frame.channel = "bbo" => BboReadable(frame.data)
    /\ frame.channel = "activeAssetCtx" => ContextReadable(frame.data)

(* Every frame of the venue, readable or not, is one of these.             *)
IsVenueFrame(frame) ==
    frame # Malformed =>
        /\ frame.channel = "trades" => frame.data \in Seq(TradeFields \cup {Malformed}) \cup {Malformed}
        /\ frame.channel = "l2Book" => frame.data \in BookFields \cup {Malformed}
        /\ frame.channel = "bbo" => frame.data \in BboFields \cup {Malformed}
        /\ frame.channel = "activeAssetCtx" => frame.data \in AssetFields \cup {Malformed}

IsData(frame) == frame.channel \in DATA_CHANNELS

(* The records of a readable data frame: one, or the entries of a trades   *)
(* frame.                                                                  *)
RecordsOf(frame) == IF frame.channel = "trades" THEN frame.data ELSE <<frame.data>>

----------------------------------------------------------------------------
(* One record.                                                             *)

Given(v) == v.form \notin {"missing", "empty"}

(* Top of book: the first level of a side, whatever the order of the rest. *)
BestOf(levels) == IF levels = <<>> THEN Null ELSE Head(levels)

BidOf(channel, record) == IF channel = "bbo" THEN record.bid ELSE BestOf(record.bids)
AskOf(channel, record) == IF channel = "bbo" THEN record.ask ELSE BestOf(record.asks)

NoQuote(channel, record) ==
    /\ channel \in {"bbo", "l2Book"}
    /\ BidOf(channel, record) = Null
    /\ AskOf(channel, record) = Null

(* _venue_time() refuses; the asset context has no time.                   *)
TimeRefused(channel, record) ==
    /\ channel # "activeAssetCtx"
    /\ record.time.n <= 0 \/ record.time.n > MAX_PLAUSIBLE_VENUE_MS

(* NormalizationError: raised before any event of the record is built.     *)
Unnormalizable(channel, record) ==
    NoQuote(channel, record) \/ TimeRefused(channel, record)

Blank ==
    [type |-> Null, time |-> Null, sequence |-> Null, price |-> Null, quantity |-> Null,
     bid |-> Null, bidQuantity |-> Null, ask |-> Null, askQuantity |-> Null,
     fundingRate |-> Null, openInterest |-> Null]

TradeEvent(entry) ==
    [Blank EXCEPT !.type = "TRADE", !.time = entry.time.n, !.price = entry.px,
                  !.quantity = entry.sz,
                  !.sequence = IF entry.tid.form = "missing" THEN Null ELSE entry.tid.n]

QuoteEvent(channel, record) ==
    LET bid == BidOf(channel, record)
        ask == AskOf(channel, record)
    IN  [Blank EXCEPT
            !.type = IF channel = "bbo" THEN "BBO" ELSE "L2_SNAPSHOT",
            !.time = record.time.n,
            !.bid = IF bid = Null THEN Null ELSE bid.px,
            !.bidQuantity = IF bid = Null THEN Null ELSE bid.sz,
            !.ask = IF ask = Null THEN Null ELSE ask.px,
            !.askQuantity = IF ask = Null THEN Null ELSE ask.sz]

(* One event per populated variable, each with our receipt time only.      *)
ContextEvents(record) ==
    LET If(v, event) == IF Given(v) THEN <<event>> ELSE <<>>
    IN  If(record.funding,
           [Blank EXCEPT !.type = "FUNDING", !.fundingRate = record.funding])
        \o If(record.openInterest,
              [Blank EXCEPT !.type = "OPEN_INTEREST", !.openInterest = record.openInterest])
        \o If(record.markPx, [Blank EXCEPT !.type = "MARK_PRICE", !.price = record.markPx])
        \o If(record.oraclePx, [Blank EXCEPT !.type = "ORACLE_PRICE", !.price = record.oraclePx])

MarketEventsOf(channel, record) ==
    CASE channel = "trades" -> <<TradeEvent(record)>>
      [] channel \in {"bbo", "l2Book"} -> <<QuoteEvent(channel, record)>>
      [] OTHER -> ContextEvents(record)

UsersOf(entry) == IF entry.users = Malformed THEN <<>> ELSE entry.users

(* The first party that is not the wallet itself.                          *)
Counterparty(users, wallet) ==
    LET others == SelectSeq(users, LAMBDA other : other # wallet)
    IN  IF others = <<>> THEN Null ELSE Head(others)

TraderEventsOf(channel, record) ==
    IF channel # "trades" THEN <<>>
    ELSE [i \in DOMAIN UsersOf(record) |->
            [wallet |-> UsersOf(record)[i],
             counterparty |-> Counterparty(UsersOf(record), UsersOf(record)[i]),
             price |-> record.px,
             quantity |-> record.sz]]

----------------------------------------------------------------------------
(* The schemas.  A non-finite decimal is refused by the field's type.      *)

Finite(v) == v.form # "notfinite"
PossiblePrice(v) == v # Null => Finite(v) /\ v.n > 0
PossibleQuantity(v) == v # Null => Finite(v) /\ v.n >= 0

HasRequired(event) ==
    /\ event.type = "TRADE" => event.price # Null /\ event.quantity # Null
    /\ event.type = "BBO" => event.bid # Null \/ event.ask # Null
    /\ event.type = "FUNDING" => event.fundingRate # Null

Quoted(event) == event.bid # Null /\ event.ask # Null

PossibleMarketEvent(event) ==
    /\ HasRequired(event)
    /\ \A v \in {event.price, event.bid, event.ask} : PossiblePrice(v)
    /\ \A v \in {event.quantity, event.bidQuantity, event.askQuantity, event.openInterest} :
          PossibleQuantity(v)
    /\ event.fundingRate # Null => Finite(event.fundingRate)
    /\ Quoted(event) => event.bid.n <= event.ask.n

PossibleTraderEvent(event) ==
    /\ PossiblePrice(event.price)
    /\ PossibleQuantity(event.quantity)
    /\ event.price.n * event.quantity.n >= 0        \* notional

(* ValidationError: some event of the record is refused as it is built.    *)
Rejected(channel, record) ==
    \/ \E i \in DOMAIN MarketEventsOf(channel, record) :
          ~ PossibleMarketEvent(MarketEventsOf(channel, record)[i])
    \/ \E i \in DOMAIN TraderEventsOf(channel, record) :
          ~ PossibleTraderEvent(TraderEventsOf(channel, record)[i])

----------------------------------------------------------------------------
(* The verdict on one event, received at receivedAt and looked at now.     *)

ZeroTrade(event) == event.type = "TRADE" /\ event.quantity.n = 0

Late(event, receivedAt) ==
    event.time # Null /\ receivedAt - event.time > MAX_PLAUSIBLE_SOURCE_DELAY

Ahead(event, receivedAt) ==
    event.time # Null /\ event.time - receivedAt > MAX_PLAUSIBLE_CLOCK_SKEW

(* spread / mid > MAX_PLAUSIBLE_SPREAD_FRACTION, with mid = (bid + ask) / 2 *)
WideSpread(event) ==
    /\ Quoted(event)
    /\ 200 * (event.ask.n - event.bid.n) > MaxSpreadPercent * (event.bid.n + event.ask.n)

Verdict(event, receivedAt, now) ==
    CASE ZeroTrade(event) \/ Late(event, receivedAt) \/ receivedAt > now -> "INVALID"
      [] Ahead(event, receivedAt) \/ WideSpread(event) -> "WARNING"
      [] OTHER -> "VALID"

(* DataQualityStatus.usable_for_training                                   *)
UsableForTraining(status) == status = "VALID"
=============================================================================
