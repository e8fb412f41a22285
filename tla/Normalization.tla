--------------------------- MODULE Normalization ---------------------------
(***************************************************************************)
(* One frame on its way through the recorder: parse_message(), then        *)
(* normalize() record by record, then the quality verdict on each event    *)
(* that came of it.  The operators are those of VenueMessages; here is the *)
(* order they are applied in, and what is left when one of them raises.    *)
(*                                                                         *)
(* Recorder has only the outcome, as the kind of a frame: this module says *)
(* which frames end up in which kind.                                      *)
(***************************************************************************)
EXTENDS VenueMessages, FiniteSets

CONSTANTS
    VenueFrames,    \* what the venue may send
    ReceivedAt,     \* timestamps.local_receive_time
    ReadingsOfNow   \* clock.now() at the verdict; a wall clock may step back

ASSUME VenueAssumption ==
    /\ \A f \in VenueFrames : IsVenueFrame(f)
    /\ ReceivedAt \in Nat
    /\ ReadingsOfNow \subseteq Nat

VARIABLES
    frame,      \* the frame received
    stage,      \* "parsing", "normalizing", "assessing", "done"
    rest,       \* records still to normalize
    market,     \* market events made so far
    traders,    \* trader events made so far
    verdicts,   \* quality status of the market events assessed so far
    outcome     \* Null, or the kind of frame it turned out to be

normalizationVars == <<frame, stage, rest, market, traders, verdicts, outcome>>

----------------------------------------------------------------------------
(* Mutant.                                                                 *)

NormalizationRaises_KeepsEarlier ==
    /\ stage = "normalizing"
    /\ rest # <<>>
    /\ Unnormalizable(frame.channel, Head(rest))
    /\ rest' = Tail(rest)
    /\ UNCHANGED <<frame, stage, market, traders, verdicts, outcome>>

----------------------------------------------------------------------------
NormalizationInit ==
    /\ frame \in VenueFrames
    /\ stage = "parsing"
    /\ rest = <<>>
    /\ market = <<>>
    /\ traders = <<>>
    /\ verdicts = <<>>
    /\ outcome = Null

(* The exception leaves normalize() with what it had made so far.          *)
Discard(kind) ==
    /\ outcome' = kind
    /\ stage' = "done"
    /\ rest' = <<>>
    /\ market' = <<>>
    /\ traders' = <<>>
    /\ UNCHANGED <<frame, verdicts>>

(* MessageParseError                                                       *)
ParseRaises ==
    /\ stage = "parsing"
    /\ ~ FrameReadable(frame)
    /\ Discard("unparseable")

(* Any other channel is kept without interpretation and yields no event.   *)
ParseControl ==
    /\ stage = "parsing"
    /\ FrameReadable(frame)
    /\ ~ IsData(frame)
    /\ Discard("control")

ParseData ==
    /\ stage = "parsing"
    /\ FrameReadable(frame)
    /\ IsData(frame)
    /\ rest' = RecordsOf(frame)
    /\ stage' = "normalizing"
    /\ UNCHANGED <<frame, market, traders, verdicts, outcome>>

----------------------------------------------------------------------------
(* NormalizationError: caught by the recorder, which counts the frame.     *)
NormalizationRaises ==
    /\ stage = "normalizing"
    /\ rest # <<>>
    /\ Unnormalizable(frame.channel, Head(rest))
    /\ Discard("unnormalizable")

(* ValidationError: caught by nobody.                                      *)
SchemaRaises ==
    /\ stage = "normalizing"
    /\ rest # <<>>
    /\ ~ Unnormalizable(frame.channel, Head(rest))
    /\ Rejected(frame.channel, Head(rest))
    /\ Discard("rejected")

NormalizeRecord ==
    /\ stage = "normalizing"
    /\ rest # <<>>
    /\ ~ Unnormalizable(frame.channel, Head(rest))
    /\ ~ Rejected(frame.channel, Head(rest))
    /\ market' = market \o MarketEventsOf(frame.channel, Head(rest))
    /\ traders' = traders \o TraderEventsOf(frame.channel, Head(rest))
    /\ rest' = Tail(rest)
    /\ UNCHANGED <<frame, stage, verdicts, outcome>>

Normalized ==
    /\ stage = "normalizing"
    /\ rest = <<>>
    /\ outcome' = "data"
    /\ stage' = "assessing"
    /\ UNCHANGED <<frame, rest, market, traders, verdicts>>

(* QualityEngine.validate(), as each event is accepted in turn.  (One that *)
(* is a duplicate is dropped before, which is in Recorder.)                *)
Assess ==
    /\ stage = "assessing"
    /\ Len(verdicts) < Len(market)
    /\ \E now \in ReadingsOfNow :
          verdicts' = Append(verdicts, Verdict(market[Len(verdicts) + 1], ReceivedAt, now))
    /\ UNCHANGED <<frame, stage, rest, market, traders, outcome>>

Assessed ==
    /\ stage = "assessing"
    /\ Len(verdicts) = Len(market)
    /\ stage' = "done"
    /\ UNCHANGED <<frame, rest, market, traders, verdicts, outcome>>

NormalizationNext ==
    \/ ParseRaises
    \/ ParseControl
    \/ ParseData
    \/ NormalizationRaises
    \/ SchemaRaises
    \/ NormalizeRecord
    \/ Normalized
    \/ Assess
    \/ Assessed

NormalizationSpec == NormalizationInit /\ [][NormalizationNext]_normalizationVars

----------------------------------------------------------------------------
(* A number that cannot be a price, or a quantity.                         *)
ImpossiblePrice(v) == v.form = "notfinite" \/ v.n <= 0
ImpossibleQuantity(v) == v.form = "notfinite" \/ v.n < 0

LevelImpossible(level) ==
    level # Null /\ (ImpossiblePrice(level.px) \/ ImpossibleQuantity(level.sz))

(* What makes a record impossible, read off the fields of the frame.  The  *)
(* levels of a book below its best are not among them.                     *)
RecordImpossible(record) ==
    CASE frame.channel = "trades" -> ImpossiblePrice(record.px) \/ ImpossibleQuantity(record.sz)
      [] frame.channel = "activeAssetCtx" ->
            \/ \E v \in {record.markPx, record.oraclePx} : Given(v) /\ ImpossiblePrice(v)
            \/ Given(record.openInterest) /\ ImpossibleQuantity(record.openInterest)
            \/ Given(record.funding) /\ record.funding.form = "notfinite"
      [] OTHER ->
            LET bid == BidOf(frame.channel, record)
                ask == AskOf(frame.channel, record)
            IN  \/ LevelImpossible(bid) \/ LevelImpossible(ask)
                \/ bid # Null /\ ask # Null /\ bid.px.n > ask.px.n

(* Which frames are refused by the schemas, after they parsed and before   *)
(* anything of them is kept (what that does to the recorder is             *)
(* KeepsRunning of Recorder): exactly those with an impossible record and  *)
(* no record up to it that is undatable or without a quote, which would    *)
(* have been caught before.  A zero quantity, a one-sided quote, a         *)
(* negative funding rate or a bad level deep in a book is never refused.   *)
RejectedForCause ==
    stage \in {"assessing", "done"} /\ FrameReadable(frame) /\ IsData(frame) =>
        LET records == RecordsOf(frame)
            fatal(i) == /\ RecordImpossible(records[i])
                        /\ \A j \in 1 .. i : ~ Unnormalizable(frame.channel, records[j])
        IN  outcome = "rejected" <=> \E i \in DOMAIN records : fatal(i)

(* The variables an asset context states.                                  *)
Populated(record) ==
    {f \in {"funding", "openInterest", "markPx", "oraclePx"} : Given(record[f])}

(* The places of trade entries that name a wallet.                         *)
WalletsNamed(entries) ==
    UNION {{i} \X DOMAIN UsersOf(entries[i]) : i \in DOMAIN entries}

(* The events of a frame state all of its facts.                           *)
EveryFact ==
    CASE frame.channel = "trades" ->
            /\ Len(market) = Len(frame.data)
            /\ \A i \in DOMAIN market :
                  market[i].price = frame.data[i].px /\ market[i].time = frame.data[i].time.n
            /\ Len(traders) = Cardinality(WalletsNamed(frame.data))
      [] frame.channel = "activeAssetCtx" ->
            /\ {market[i].type : i \in DOMAIN market} =
                  {CASE f = "funding" -> "FUNDING" [] f = "openInterest" -> "OPEN_INTEREST"
                     [] f = "markPx" -> "MARK_PRICE" [] OTHER -> "ORACLE_PRICE" :
                      f \in Populated(frame.data)}
            /\ traders = <<>>
      [] OTHER -> Len(market) = 1 /\ traders = <<>>

(* All or nothing: a frame whose records normalize yields every fact of    *)
(* it -- an event for each trade, in order, and one for each wallet that   *)
(* each trade names, an event for each populated variable of a context --  *)
(* and a frame that fails in any record yields none, though the records    *)
(* before it had their events already.                                     *)
FactsComplete ==
    stage \in {"assessing", "done"} =>
        IF outcome = "data" THEN EveryFact ELSE market = <<>> /\ traders = <<>>

(* What a market event may say: possible values, a quote neither crossed   *)
(* nor wide, a trade of some quantity, a venue time close to its receipt.  *)
Plausible(event) ==
    LET quote == {event.bid, event.ask} \ {Null}
    IN  /\ \A v \in (quote \cup {event.price}) \ {Null} : ~ ImpossiblePrice(v)
        /\ \A v \in {event.quantity, event.openInterest} \ {Null} : ~ ImpossibleQuantity(v)
        /\ event.type = "TRADE" => event.quantity.n > 0
        /\ Quoted(event) =>
              LET spread == event.ask.n - event.bid.n
              IN  spread >= 0 /\ 200 * spread <= MaxSpreadPercent * (event.ask.n + event.bid.n)
        /\ event.time # Null =>
              /\ event.time > 0
              /\ event.time \in (ReceivedAt - MAX_PLAUSIBLE_SOURCE_DELAY)
                                .. (ReceivedAt + MAX_PLAUSIBLE_CLOCK_SKEW)

(* Three mechanisms -- the time check, the schemas, the quality engine --  *)
(* keep bad data out of a training dataset, each relying on the others     *)
(* ("The schema already rejects the clearly impossible ... so reaching     *)
(* here means those passed", quality.py): an event that is usable for      *)
(* training has possible values, a quote that is neither crossed nor wide, *)
(* a trade with a quantity, and a venue time, when it has one, that is     *)
(* plausible against its receipt.                                          *)
UsableIsPlausible ==
    \A i \in DOMAIN verdicts : UsableForTraining(verdicts[i]) => Plausible(market[i])
=============================================================================
