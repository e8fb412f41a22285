------------------------- MODULE HyperliquidProofs -------------------------
(***************************************************************************)
(* Proofs about what is specific to the venue (libs/exchange/hyperliquid). *)
(*                                                                         *)
(* First the reconnecting source, for any policy, any number of attempts   *)
(* allowed and any behaviour of the venue: an outage is stamped with its   *)
(* first error, no sleep outlasts the cap and its jitter, and the source   *)
(* gives up after exactly the failures it is allowed.                      *)
(*                                                                         *)
(* Then the way of a frame through the parser, the normalizer, the schemas *)
(* and the quality engine, for frames of any content, any limits and any   *)
(* readings of the clock: what is refused has a cause, a frame yields all  *)
(* of its facts or none, and only plausible events are usable for training.*)
(* What is normalized, record by record, is counted along (FactsUpTo), so  *)
(* that nothing has to be proved by induction over a frame's records.      *)
(***************************************************************************)
EXTENDS WebSocketSource, Normalization, SequenceTheorems, FiniteSetTheorems, TLAPS

(* The attempt counter counts the failures since a connection was open,    *)
(* the attempt under way included, and never passes the limit.             *)
AttemptsCounted ==
    /\ pc \in {"starting", "waiting", "open", "returned"} => attempt = failedInARow
    /\ pc = "connecting" => attempt = failedInARow + 1
    /\ pc \in {"starting", "waiting"} => ~Exhausted(attempt)
    /\ pc = "connecting" /\ MaxAttempts # None => attempt <= MaxAttempts
    /\ pc = "open" => attempt = 0 /\ failingSince = None

IInv == TypeOK /\ AttemptsCounted /\ OutageStamped /\ SleepBounded /\ GivesUpInTime

----------------------------------------------------------------------------
(* The jitter of a shorter delay is no longer (delay_for).                 *)
LEMMA JitterMonotone ==
    ASSUME NEW a \in Nat, NEW b \in Nat, a <= b
    PROVE  Jitter(a) \in Nat /\ Jitter(b) \in Nat /\ Jitter(a) <= Jitter(b)
  <1> DEFINE x == a * JitterPercent
             y == b * JitterPercent
  <1>1. JitterPercent \in Nat
    BY PolicyAssumption
  <1>2. x \in Nat /\ y \in Nat /\ x <= y
    BY <1>1
  <1> HIDE DEF x, y
  <1>3. x \div 100 \in Nat /\ y \div 100 \in Nat /\ x \div 100 <= y \div 100
    BY <1>2
  <1>. QED  BY <1>3 DEF Jitter, x, y

(* No delay is longer than the cap and its jitter (delay_for).             *)
LEMMA DelaysCapped ==
    ASSUME NEW a \in Nat, DelayDefined(a), NEW delay \in DelaysFor(a)
    PROVE  LongestDelay \in Nat /\ delay \in 0 .. LongestDelay
  <1> DEFINE seconds == InitialSeconds * Multiplier ^ (a - 1)
             capped == Capped(seconds)
  <1>1. Multiplier ^ (a - 1) \in Nat
    <2>1. a - 1 \in 0 .. MaxExponent
      BY PolicyAssumption DEF DelayDefined
    <2>. QED  BY <2>1, PowersAssumption
  <1>2. seconds \in Nat
    BY <1>1, PolicyAssumption
  <1> HIDE DEF seconds
  <1>3. capped \in Nat /\ MaximumSeconds \in Nat /\ capped <= MaximumSeconds
    BY <1>2, PolicyAssumption DEF Capped
  <1>4. delay \in 0 .. capped + Jitter(capped)
    BY DEF DelaysFor, seconds
  <1> HIDE DEF capped
  <1>5. /\ Jitter(capped) \in Nat /\ Jitter(MaximumSeconds) \in Nat
        /\ Jitter(capped) <= Jitter(MaximumSeconds)
    BY <1>3, JitterMonotone
  <1>. QED  BY <1>3, <1>4, <1>5 DEF LongestDelay

(* The longest delay is a number.                                          *)
LEMMA LongestIsNatural == LongestDelay \in Nat
  BY PolicyAssumption, JitterMonotone DEF LongestDelay

(* What the except clause does with a failed attempt or connection.        *)
LEMMA DisconnectedFacts ==
    ASSUME TypeOK, Disconnected
    PROVE  /\ now' = now /\ attempt' = attempt
           /\ pc' \in {"waiting", "returned", "raised"}
           /\ wakeAt' \in 0 .. MaxTime + LongestDelay
           /\ pc' = "waiting" => wakeAt' <= now + LongestDelay /\ ~Exhausted(attempt)
           /\ pc' = "returned" => Exhausted(attempt)
           /\ pc' = "raised" => ~Exhausted(attempt)
  <1>1. now \in 0 .. MaxTime /\ attempt \in Nat /\ MaxTime \in Nat
        /\ wakeAt \in 0 .. MaxTime + LongestDelay
    BY PolicyAssumption DEF TypeOK, Times
  <1>2. CASE Exhausted(attempt)
    BY <1>1, <1>2 DEF Disconnected
  <1>3. CASE ~Exhausted(attempt) /\ ~DelayDefined(attempt)
    BY <1>1, <1>3 DEF Disconnected
  <1>4. CASE ~Exhausted(attempt) /\ DelayDefined(attempt)
    <2>1. PICK delay \in DelaysFor(attempt) : wakeAt' = now + delay
      BY <1>4 DEF Disconnected
    <2>2. LongestDelay \in Nat /\ delay \in 0 .. LongestDelay
      BY <1>1, <1>4, <2>1, DelaysCapped
    <2>3. pc' = "waiting" /\ now' = now /\ attempt' = attempt
      BY <1>4 DEF Disconnected
    <2>. QED  BY <1>1, <1>4, <2>1, <2>2, <2>3
  <1>. QED  BY <1>2, <1>3, <1>4

----------------------------------------------------------------------------
(* The initial state.                                                      *)
LEMMA InitIInv == Init => IInv
  BY PolicyAssumption, LongestIsNatural
     DEF Init, IInv, TypeOK, Times, AttemptsCounted, Exhausted, OutageStamped,
         SleepBounded, GivesUpInTime

(* Every step keeps the invariant.                                         *)
LEMMA NextIInv == IInv /\ [Next]_vars => IInv'
  <1> SUFFICES ASSUME IInv, [Next]_vars PROVE IInv'
    OBVIOUS
  <1>1. /\ TypeOK /\ now \in 0 .. MaxTime /\ MaxTime \in Nat /\ attempt \in Nat
        /\ failedInARow \in Nat /\ LongestDelay \in Nat
    BY PolicyAssumption, LongestIsNatural DEF IInv, TypeOK, Times
  <1>2. CASE Tick
    BY <1>1, <1>2 DEF Tick, history, IInv, TypeOK, Times, AttemptsCounted, Exhausted,
                      OutageStamped, SleepBounded, GivesUpInTime
  <1>3. CASE Connect
    BY <1>1, <1>3, PolicyAssumption
       DEF Connect, history, IInv, TypeOK, AttemptsCounted, Exhausted,
           OutageStamped, SleepBounded, GivesUpInTime
  <1>4. CASE Open
    BY <1>1, <1>4 DEF Open, Opened, IInv, TypeOK, AttemptsCounted, Exhausted,
                      OutageStamped, SleepBounded, GivesUpInTime
  <1>5. CASE AttemptFails
    <2>1. pc = "connecting" /\ Disconnected /\ failedInARow' = failedInARow + 1
      BY <1>5 DEF AttemptFails
    <2>2. TypeOK' /\ OutageStamped'
      BY <1>1, <1>5, <2>1, DisconnectedFacts
         DEF AttemptFails, Disconnected, Stamped, IInv, TypeOK, Times, OutageStamped
    <2>3. AttemptsCounted' /\ SleepBounded' /\ GivesUpInTime'
      BY <1>1, <2>1, DisconnectedFacts, PolicyAssumption
         DEF IInv, AttemptsCounted, Exhausted, SleepBounded, GivesUpInTime
    <2>. QED  BY <2>2, <2>3 DEF IInv
  <1>6. CASE ConnectionErrors
    <2>1. pc = "open" /\ Disconnected /\ failedInARow' = failedInARow /\ failingSince' = now
      BY <1>6 DEF ConnectionErrors
    <2>2. TypeOK' /\ OutageStamped'
      BY <1>1, <1>6, <2>1, DisconnectedFacts
         DEF Disconnected, Stamped, IInv, TypeOK, Times, AttemptsCounted, OutageStamped
    <2>3. AttemptsCounted' /\ SleepBounded' /\ GivesUpInTime'
      BY <1>1, <2>1, DisconnectedFacts, PolicyAssumption
         DEF IInv, AttemptsCounted, Exhausted, SleepBounded, GivesUpInTime
    <2>. QED  BY <2>2, <2>3 DEF IInv
  <1>7. CASE ConnectionCloses
    BY <1>1, <1>7, PolicyAssumption
       DEF ConnectionCloses, history, IInv, TypeOK, AttemptsCounted, Exhausted,
           OutageStamped, SleepBounded, GivesUpInTime
  <1>8. CASE UNCHANGED vars
    BY <1>8 DEF vars, history, IInv, TypeOK, AttemptsCounted, Exhausted,
                OutageStamped, SleepBounded, GivesUpInTime
  <1>. QED  BY <1>2, <1>3, <1>4, <1>5, <1>6, <1>7, <1>8 DEF Next

----------------------------------------------------------------------------
(* Every reachable state satisfies the inductive invariant.                *)
THEOREM Invariance == Spec => []IInv
  BY InitIInv, NextIInv, PTL DEF Spec

(* Every reachable state is well typed.                                    *)
THEOREM TypeCorrect == Spec => []TypeOK
  BY Invariance, PTL DEF IInv

(* The stamp of an outage is its first error, whatever follows (frames()). *)
THEOREM OutageStampedOnce == Spec => []OutageStamped
  BY Invariance, PTL DEF IInv

(* No sleep is longer than the cap and its jitter (delay_for).             *)
THEOREM SleepsBounded == Spec => []SleepBounded
  BY Invariance, PTL DEF IInv

(* The source gives up after MaxAttempts failures in a row since its last  *)
(* connection, neither sooner nor later (frames()).                        *)
THEOREM GivesUpOnTime == Spec => []GivesUpInTime
  BY Invariance, PTL DEF IInv

----------------------------------------------------------------------------
(* The way of a frame.                                                     *)

Kinds ==
    {"TRADE", "BBO", "L2_SNAPSHOT", "FUNDING", "OPEN_INTEREST", "MARK_PRICE", "ORACLE_PRICE"}

FieldOrNull == Field \cup {Null}
IntOrNull == Int \cup {Null}

(* The market events normalize() can build.                                *)
MarketEvent ==
    [type : Kinds, time : IntOrNull, sequence : IntOrNull, price : FieldOrNull,
     quantity : FieldOrNull, bid : FieldOrNull, bidQuantity : FieldOrNull,
     ask : FieldOrNull, askQuantity : FieldOrNull, fundingRate : FieldOrNull,
     openInterest : FieldOrNull]

TraderEvents ==
    {[wallet |-> w, counterparty |-> Counterparty(us, w), price |-> p, quantity |-> q] :
        us \in Seq(Wallets), w \in Wallets, p \in Field, q \in Field}

(* What a record is once parse_message() let its frame pass.               *)
IsRecord(channel, record) ==
    /\ channel \in DATA_CHANNELS
    /\ channel = "trades" => record \in TradeFields
    /\ channel \in {"bbo", "l2Book"} =>
          /\ BidOf(channel, record) \in LevelFields \cup {Null}
          /\ AskOf(channel, record) \in LevelFields \cup {Null}
          /\ record.time \in Field
    /\ channel = "activeAssetCtx" => record \in AssetFields

AnyRecord == TradeFields \cup {Malformed} \cup BookFields \cup BboFields \cup AssetFields

(* What normalize() and the schemas leave of an event.                     *)
EventSound(event) ==
    /\ event \in MarketEvent
    /\ PossibleMarketEvent(event)
    /\ event.time # Null => event.time > 0

----------------------------------------------------------------------------
Records == RecordsOf(frame)

(* How many records have been normalized.                                  *)
Read == Len(Records) - Len(rest)

WalletsUpTo(k) == UNION {{i} \X DOMAIN UsersOf(Records[i]) : i \in 1 .. k}

(* The events made of the first k records state the facts of these.        *)
TradeFacts(k) ==
    /\ Len(market) = k
    /\ \A i \in 1 .. k :
          market[i].price = Records[i].px /\ market[i].time = Records[i].time.n
    /\ IsFiniteSet(WalletsUpTo(k))
    /\ Len(traders) = Cardinality(WalletsUpTo(k))

FactsUpTo(k) ==
    CASE frame.channel = "trades" -> TradeFacts(k)
      [] frame.channel = "activeAssetCtx" ->
            /\ market = IF k = 0 THEN <<>> ELSE ContextEvents(frame.data)
            /\ traders = <<>>
      [] OTHER -> Len(market) = k /\ traders = <<>>

Empty == rest = <<>> /\ market = <<>> /\ traders = <<>>

NormalizationTypeOK ==
    /\ frame \in VenueFrames
    /\ stage \in {"parsing", "normalizing", "assessing", "done"}
    /\ rest \in Seq(AnyRecord)
    /\ market \in Seq(MarketEvent)
    /\ traders \in Seq(TraderEvents)
    /\ verdicts \in Seq({"VALID", "WARNING", "INVALID"})

(* Before the frame is parsed nothing is made of it.                       *)
NothingYet ==
    /\ stage \in {"parsing", "normalizing"} => verdicts = <<>> /\ outcome = Null
    /\ stage = "parsing" => Empty

(* The records read so far passed, and their events state them.            *)
ReadSoFar ==
    stage = "normalizing" =>
        /\ FrameReadable(frame) /\ IsData(frame)
        /\ Read \in 0 .. Len(Records)
        /\ \A i \in DOMAIN rest : rest[i] = Records[Read + i]
        /\ \A i \in 1 .. Read :
              ~ Unnormalizable(frame.channel, Records[i]) /\ ~ Rejected(frame.channel, Records[i])
        /\ FactsUpTo(Read)

EventsSound == \A i \in DOMAIN market : EventSound(market[i])

VerdictsFollow == Len(verdicts) <= Len(market)

NormalizationIInv ==
    /\ NormalizationTypeOK
    /\ NothingYet
    /\ ReadSoFar
    /\ EventsSound
    /\ VerdictsFollow
    /\ RejectedForCause
    /\ FactsComplete
    /\ UsableIsPlausible

----------------------------------------------------------------------------
(* parse_message() lets only well-formed records pass.                     *)
LEMMA TradesAreTyped ==
    ASSUME NEW f \in VenueFrames, FrameReadable(f), f.channel = "trades"
    PROVE  f.data \in Seq(TradeFields)
  <1>1. f # Malformed /\ f.data # Malformed /\ \A i \in DOMAIN f.data : f.data[i] # Malformed
    BY DEF FrameReadable, TradeReadable, DATA_CHANNELS
  <1>2. f.data \in Seq(TradeFields \cup {Malformed})
    BY <1>1, VenueAssumption DEF IsVenueFrame
  <1>3. Len(f.data) \in Nat /\ DOMAIN f.data = 1 .. Len(f.data)
    BY <1>2
  <1>4. \A i \in 1 .. Len(f.data) : f.data[i] \in TradeFields
    BY <1>1, <1>2, <1>3
  <1>. QED
    <2>1. f.data = [i \in 1 .. Len(f.data) |-> f.data[i]]
      BY <1>2
    <2>. QED  BY <1>3, <1>4, <2>1, IsASeq

(* The best level of a readable side of a book.                            *)
LEMMA BestIsTyped ==
    ASSUME NEW levels \in BookSides, levels # Malformed,
           \A i \in DOMAIN levels : LevelReadable(levels[i])
    PROVE  BestOf(levels) \in LevelFields \cup {Null}
  <1>1. levels \in Seq(LevelFields \cup {Malformed})
    BY DEF BookSides
  <1>2. CASE levels = <<>>
    BY <1>2 DEF BestOf
  <1>3. CASE levels # <<>>
    <2>1. 1 \in DOMAIN levels /\ Head(levels) = levels[1]
      BY <1>1, <1>3
    <2>2. levels[1] \in LevelFields \cup {Malformed} /\ levels[1] # Malformed
      BY <1>1, <2>1 DEF LevelReadable
    <2>. QED  BY <1>3, <2>1, <2>2 DEF BestOf
  <1>. QED  BY <1>2, <1>3

(* A readable book is a record of its channel.                             *)
LEMMA BooksAreTyped ==
    ASSUME NEW f \in VenueFrames, FrameReadable(f), f.channel = "l2Book"
    PROVE  f.data \in BookFields /\ IsRecord("l2Book", f.data)
  <1>1. f # Malformed /\ f.data # Malformed /\ BookReadable(f.data)
    BY DEF FrameReadable, DATA_CHANNELS
  <1>2. f.data \in BookFields
    BY <1>1, VenueAssumption DEF IsVenueFrame
  <1>3. f.data.bids \in BookSides /\ f.data.asks \in BookSides /\ f.data.time \in Field
    BY <1>2 DEF BookFields
  <1>4. /\ f.data.bids # Malformed /\ \A i \in DOMAIN f.data.bids : LevelReadable(f.data.bids[i])
        /\ f.data.asks # Malformed /\ \A i \in DOMAIN f.data.asks : LevelReadable(f.data.asks[i])
    BY <1>1 DEF BookReadable
  <1>5. BestOf(f.data.bids) \in LevelFields \cup {Null}
    BY <1>3, <1>4, BestIsTyped
  <1>6. BestOf(f.data.asks) \in LevelFields \cup {Null}
    BY <1>3, <1>4, BestIsTyped
  <1>. QED  BY <1>2, <1>3, <1>5, <1>6 DEF IsRecord, BidOf, AskOf, DATA_CHANNELS

(* A readable best bid and offer is a record of its channel.               *)
LEMMA QuotesAreTyped ==
    ASSUME NEW f \in VenueFrames, FrameReadable(f), f.channel = "bbo"
    PROVE  f.data \in BboFields /\ IsRecord("bbo", f.data)
  <1>1. f # Malformed /\ f.data # Malformed /\ BboReadable(f.data)
    BY DEF FrameReadable, DATA_CHANNELS
  <1>2. f.data \in BboFields
    BY <1>1, VenueAssumption DEF IsVenueFrame
  <1>3. /\ f.data.bid \in LevelFields \cup {Malformed, Null}
        /\ f.data.ask \in LevelFields \cup {Malformed, Null} /\ f.data.time \in Field
    BY <1>2 DEF BboFields
  <1>4. (f.data.bid # Null => f.data.bid # Malformed) /\ (f.data.ask # Null => f.data.ask # Malformed)
    BY <1>1 DEF BboReadable, LevelReadable
  <1>. QED  BY <1>2, <1>3, <1>4 DEF IsRecord, BidOf, AskOf, DATA_CHANNELS

(* A readable asset context is a record of its channel.                    *)
LEMMA ContextsAreTyped ==
    ASSUME NEW f \in VenueFrames, FrameReadable(f), f.channel = "activeAssetCtx"
    PROVE  f.data \in AssetFields
  <1>1. f # Malformed /\ f.data # Malformed
    BY DEF FrameReadable, DATA_CHANNELS
  <1>. QED  BY <1>1, VenueAssumption DEF IsVenueFrame

(* The records of a readable frame.                                        *)
LEMMA RecordsAreTyped ==
    ASSUME NEW f \in VenueFrames, FrameReadable(f), IsData(f)
    PROVE  /\ RecordsOf(f) \in Seq(AnyRecord)
           /\ \A i \in DOMAIN RecordsOf(f) : IsRecord(f.channel, RecordsOf(f)[i])
           /\ f.channel # "trades" => RecordsOf(f) = <<f.data>> /\ Len(RecordsOf(f)) = 1
  <1>1. CASE f.channel = "trades"
    <2>1. RecordsOf(f) = f.data /\ f.data \in Seq(TradeFields)
      BY <1>1, TradesAreTyped DEF RecordsOf
    <2>2. \A i \in DOMAIN f.data : f.data[i] \in TradeFields
      BY <2>1
    <2>3. f.data \in Seq(AnyRecord)
      BY <2>1, SeqMonotonic DEF AnyRecord
    <2>. QED  BY <1>1, <2>1, <2>2, <2>3 DEF IsRecord, DATA_CHANNELS
  <1>2. CASE f.channel # "trades"
    <2>1. f.channel \in {"l2Book", "bbo", "activeAssetCtx"}
      BY <1>2 DEF IsData, DATA_CHANNELS
    <2>2. RecordsOf(f) = <<f.data>>
      BY <1>2 DEF RecordsOf
    <2>3. f.data \in AnyRecord /\ IsRecord(f.channel, f.data)
      <3>1. CASE f.channel = "l2Book"
        BY <3>1, BooksAreTyped DEF AnyRecord
      <3>2. CASE f.channel = "bbo"
        BY <3>2, QuotesAreTyped DEF AnyRecord
      <3>3. CASE f.channel = "activeAssetCtx"
        BY <3>3, ContextsAreTyped DEF AnyRecord, IsRecord, DATA_CHANNELS
      <3>. QED  BY <2>1, <3>1, <3>2, <3>3
    <2>. QED  BY <1>2, <2>2, <2>3
  <1>. QED  BY <1>1, <1>2

----------------------------------------------------------------------------
(* The events made of a record, and what makes one impossible.             *)

LEMMA ImpossibleField ==
    ASSUME NEW v \in Field
    PROVE  /\ v # Null
           /\ v.n \in Int
           /\ PossiblePrice(v) <=> ~ ImpossiblePrice(v)
           /\ PossibleQuantity(v) <=> ~ ImpossibleQuantity(v)
           /\ Finite(v) <=> v.form # "notfinite"
  <1>1. v.n \in Int
    BY DEF Field
  <1>2. v # Null
    BY NullAssumption
  <1>. QED
    BY <1>1, <1>2 DEF PossiblePrice, PossibleQuantity, ImpossiblePrice, ImpossibleQuantity, Finite

(* Blank says nothing, and what says nothing is possible.                  *)
LEMMA BlankIsTyped ==
    /\ Null \in FieldOrNull /\ Null \in IntOrNull
    /\ PossiblePrice(Null) /\ PossibleQuantity(Null)
  BY DEF FieldOrNull, IntOrNull, PossiblePrice, PossibleQuantity

(* The event of a trade: its fields, and what makes it impossible.         *)
LEMMA TradeEventFacts ==
    ASSUME NEW r \in TradeFields, ~ Unnormalizable("trades", r)
    PROVE  LET e == TradeEvent(r)
           IN  /\ e \in MarketEvent
               /\ e.type = "TRADE" /\ e.price = r.px /\ e.quantity = r.sz
               /\ e.time = r.time.n /\ r.time.n \in Int /\ r.time.n > 0
               /\ PossibleMarketEvent(e) <=> ~ ImpossiblePrice(r.px) /\ ~ ImpossibleQuantity(r.sz)
  <1> DEFINE e == TradeEvent(r)
  <1>1. r.px \in Field /\ r.sz \in Field /\ r.time \in Field /\ r.tid \in Field
    BY DEF TradeFields
  <1>2. r.time.n \in Int /\ r.tid.n \in Int
    BY <1>1 DEF Field
  <1>3. r.time.n > 0
    BY <1>2, LimitsAssumption DEF Unnormalizable, TimeRefused
  <1>4. /\ e.type = "TRADE" /\ e.price = r.px /\ e.quantity = r.sz /\ e.time = r.time.n
        /\ e.sequence = IF r.tid.form = "missing" THEN Null ELSE r.tid.n
        /\ e.bid = Null /\ e.bidQuantity = Null /\ e.ask = Null /\ e.askQuantity = Null
        /\ e.fundingRate = Null /\ e.openInterest = Null
    BY DEF TradeEvent, Blank
  <1>5. e \in MarketEvent
    BY <1>1, <1>2 DEF TradeEvent, Blank, MarketEvent, FieldOrNull, IntOrNull, Kinds
  <1>6. r.px # Null /\ r.sz # Null
    BY <1>1, ImpossibleField
  <1> HIDE DEF e
  <1>7. PossibleMarketEvent(e) <=> PossiblePrice(r.px) /\ PossibleQuantity(r.sz)
    BY <1>4, <1>6, BlankIsTyped DEF PossibleMarketEvent, HasRequired, Quoted
  <1>8. PossibleMarketEvent(e) <=> ~ ImpossiblePrice(r.px) /\ ~ ImpossibleQuantity(r.sz)
    BY <1>1, <1>7, ImpossibleField
  <1>. QED  BY <1>2, <1>3, <1>4, <1>5, <1>8 DEF e

(* The event of a quote: its fields, and what makes it impossible.         *)
LEMMA QuoteEventFacts ==
    ASSUME NEW channel \in {"bbo", "l2Book"}, NEW r, IsRecord(channel, r),
           ~ Unnormalizable(channel, r)
    PROVE  LET e == QuoteEvent(channel, r)
               bid == BidOf(channel, r)
               ask == AskOf(channel, r)
           IN  /\ e \in MarketEvent
               /\ e.type # "TRADE" /\ e.price = Null /\ e.quantity = Null
               /\ e.time = r.time.n /\ r.time.n \in Int /\ r.time.n > 0
               /\ PossibleMarketEvent(e) <=>
                     ~ (\/ LevelImpossible(bid) \/ LevelImpossible(ask)
                        \/ bid # Null /\ ask # Null /\ bid.px.n > ask.px.n)
  <1> DEFINE e == QuoteEvent(channel, r)
             bid == BidOf(channel, r)
             ask == AskOf(channel, r)
  <1>1. r.time \in Field /\ bid \in LevelFields \cup {Null} /\ ask \in LevelFields \cup {Null}
    BY DEF IsRecord
  <1>2. r.time.n \in Int
    BY <1>1 DEF Field
  <1>3. r.time.n > 0
    BY <1>2, LimitsAssumption DEF Unnormalizable, TimeRefused
  <1>4. bid # Null \/ ask # Null
    BY DEF Unnormalizable, NoQuote
  <1>5. bid # Null => bid.px \in Field /\ bid.sz \in Field
    BY <1>1 DEF LevelFields
  <1>6. ask # Null => ask.px \in Field /\ ask.sz \in Field
    BY <1>1 DEF LevelFields
  <1> DEFINE kind == IF channel = "bbo" THEN "BBO" ELSE "L2_SNAPSHOT"
             bidPrice == IF bid = Null THEN Null ELSE bid.px
             bidQuantity == IF bid = Null THEN Null ELSE bid.sz
             askPrice == IF ask = Null THEN Null ELSE ask.px
             askQuantity == IF ask = Null THEN Null ELSE ask.sz
  <1>7. e = [Blank EXCEPT !.type = kind, !.time = r.time.n,
                          !.bid = bidPrice, !.bidQuantity = bidQuantity,
                          !.ask = askPrice, !.askQuantity = askQuantity]
    BY Zenon DEF QuoteEvent
  <1> HIDE DEF e, bid, ask
  <1>8. /\ kind \in Kinds /\ r.time.n \in IntOrNull
        /\ bidPrice \in FieldOrNull /\ bidQuantity \in FieldOrNull
        /\ askPrice \in FieldOrNull /\ askQuantity \in FieldOrNull
    BY <1>2, <1>5, <1>6 DEF Kinds, IntOrNull, FieldOrNull
  <1> HIDE DEF kind, bidPrice, bidQuantity, askPrice, askQuantity
  <1>17. /\ e.type = kind /\ e.time = r.time.n
         /\ e.bid = bidPrice /\ e.bidQuantity = bidQuantity
         /\ e.ask = askPrice /\ e.askQuantity = askQuantity
         /\ e.price = Null /\ e.quantity = Null /\ e.fundingRate = Null
         /\ e.openInterest = Null
    BY <1>7 DEF Blank
  <1>19. e \in MarketEvent
    BY <1>7, <1>8, BlankIsTyped DEF Blank, MarketEvent
  <1>18. e.type = "BBO" \/ e.type = "L2_SNAPSHOT"
    BY <1>17 DEF kind
  <1>9. /\ PossiblePrice(e.bid) /\ PossibleQuantity(e.bidQuantity) <=> ~ LevelImpossible(bid)
        /\ e.bid # Null <=> bid # Null
    <2>1. CASE bid = Null
      BY <1>17, <2>1, BlankIsTyped DEF LevelImpossible, bidPrice, bidQuantity
    <2>2. CASE bid # Null
      BY <1>5, <1>17, <2>2, ImpossibleField DEF LevelImpossible, bidPrice, bidQuantity
    <2>. QED  BY <2>1, <2>2
  <1>10. /\ PossiblePrice(e.ask) /\ PossibleQuantity(e.askQuantity) <=> ~ LevelImpossible(ask)
         /\ e.ask # Null <=> ask # Null
    <2>1. CASE ask = Null
      BY <1>17, <2>1, BlankIsTyped DEF LevelImpossible, askPrice, askQuantity
    <2>2. CASE ask # Null
      BY <1>6, <1>17, <2>2, ImpossibleField DEF LevelImpossible, askPrice, askQuantity
    <2>. QED  BY <2>1, <2>2
  <1>11. Quoted(e) <=> bid # Null /\ ask # Null
    BY <1>9, <1>10 DEF Quoted
  <1>12. bid # Null /\ ask # Null => (e.bid.n <= e.ask.n <=> ~ (bid.px.n > ask.px.n))
    BY <1>5, <1>6, <1>17, ImpossibleField DEF bidPrice, askPrice
  <1>13. HasRequired(e)
    BY <1>4, <1>9, <1>10, <1>18 DEF HasRequired
  <1>14. PossibleMarketEvent(e) <=>
            /\ PossiblePrice(e.bid) /\ PossibleQuantity(e.bidQuantity)
            /\ PossiblePrice(e.ask) /\ PossibleQuantity(e.askQuantity)
            /\ Quoted(e) => e.bid.n <= e.ask.n
    BY <1>17, <1>13, BlankIsTyped DEF PossibleMarketEvent
  <1>15. e.type # "TRADE"
    BY <1>18
  <1>16. PossibleMarketEvent(e) <=>
            ~ (\/ LevelImpossible(bid) \/ LevelImpossible(ask)
               \/ bid # Null /\ ask # Null /\ bid.px.n > ask.px.n)
    BY <1>9, <1>10, <1>11, <1>12, <1>14
  <1>. QED  BY <1>2, <1>3, <1>15, <1>16, <1>17, <1>19 DEF e, bid, ask

(* The events an asset context may yield.                                  *)
FundingEvent(r) == [Blank EXCEPT !.type = "FUNDING", !.fundingRate = r.funding]
InterestEvent(r) == [Blank EXCEPT !.type = "OPEN_INTEREST", !.openInterest = r.openInterest]
MarkEvent(r) == [Blank EXCEPT !.type = "MARK_PRICE", !.price = r.markPx]
OracleEvent(r) == [Blank EXCEPT !.type = "ORACLE_PRICE", !.price = r.oraclePx]

(* A funding rate is impossible only if it is not finite.                  *)
LEMMA FundingFacts ==
    ASSUME NEW r \in AssetFields
    PROVE  LET e == FundingEvent(r)
           IN  /\ e \in MarketEvent /\ e.type = "FUNDING" /\ e.time = Null
               /\ PossibleMarketEvent(e) <=> r.funding.form # "notfinite"
  <1> DEFINE e == FundingEvent(r)
  <1>1. r.funding \in Field
    BY DEF AssetFields
  <1>2. /\ e.type = "FUNDING" /\ e.time = Null /\ e.fundingRate = r.funding
        /\ e.price = Null /\ e.quantity = Null /\ e.bid = Null /\ e.bidQuantity = Null
        /\ e.ask = Null /\ e.askQuantity = Null /\ e.openInterest = Null
    BY DEF FundingEvent, Blank
  <1>3. e \in MarketEvent
    BY <1>1 DEF FundingEvent, Blank, MarketEvent, FieldOrNull, IntOrNull, Kinds
  <1> HIDE DEF e
  <1>4. PossibleMarketEvent(e) <=> r.funding.form # "notfinite"
    BY <1>1, <1>2, BlankIsTyped, ImpossibleField DEF PossibleMarketEvent, HasRequired, Quoted
  <1>. QED  BY <1>2, <1>3, <1>4 DEF e

(* An open interest is impossible if it is not finite or negative.         *)
LEMMA InterestFacts ==
    ASSUME NEW r \in AssetFields
    PROVE  LET e == InterestEvent(r)
           IN  /\ e \in MarketEvent /\ e.type = "OPEN_INTEREST" /\ e.time = Null
               /\ PossibleMarketEvent(e) <=> ~ ImpossibleQuantity(r.openInterest)
  <1> DEFINE e == InterestEvent(r)
  <1>1. r.openInterest \in Field
    BY DEF AssetFields
  <1>2. /\ e.type = "OPEN_INTEREST" /\ e.time = Null /\ e.openInterest = r.openInterest
        /\ e.price = Null /\ e.quantity = Null /\ e.bid = Null /\ e.bidQuantity = Null
        /\ e.ask = Null /\ e.askQuantity = Null /\ e.fundingRate = Null
    BY DEF InterestEvent, Blank
  <1>3. e \in MarketEvent
    BY <1>1 DEF InterestEvent, Blank, MarketEvent, FieldOrNull, IntOrNull, Kinds
  <1> HIDE DEF e
  <1>4. PossibleMarketEvent(e) <=> ~ ImpossibleQuantity(r.openInterest)
    BY <1>1, <1>2, BlankIsTyped, ImpossibleField DEF PossibleMarketEvent, HasRequired, Quoted
  <1>. QED  BY <1>2, <1>3, <1>4 DEF e

(* The mark and oracle prices are impossible as any price is.              *)
LEMMA PriceFacts ==
    ASSUME NEW r \in AssetFields
    PROVE  /\ LET e == MarkEvent(r)
              IN  /\ e \in MarketEvent /\ e.type = "MARK_PRICE" /\ e.time = Null
                  /\ PossibleMarketEvent(e) <=> ~ ImpossiblePrice(r.markPx)
           /\ LET e == OracleEvent(r)
              IN  /\ e \in MarketEvent /\ e.type = "ORACLE_PRICE" /\ e.time = Null
                  /\ PossibleMarketEvent(e) <=> ~ ImpossiblePrice(r.oraclePx)
  <1>1. ASSUME NEW kind \in {"MARK_PRICE", "ORACLE_PRICE"}, NEW v \in Field
        PROVE  LET e == [Blank EXCEPT !.type = kind, !.price = v]
               IN  /\ e \in MarketEvent /\ e.type = kind /\ e.time = Null
                   /\ PossibleMarketEvent(e) <=> ~ ImpossiblePrice(v)
    <2> DEFINE e == [Blank EXCEPT !.type = kind, !.price = v]
    <2>1. /\ e.type = kind /\ e.time = Null /\ e.price = v
          /\ e.openInterest = Null /\ e.quantity = Null /\ e.bid = Null /\ e.bidQuantity = Null
          /\ e.ask = Null /\ e.askQuantity = Null /\ e.fundingRate = Null
      BY DEF Blank
    <2>2. e \in MarketEvent
      BY DEF Blank, MarketEvent, FieldOrNull, IntOrNull, Kinds
    <2> HIDE DEF e
    <2>3. PossibleMarketEvent(e) <=> ~ ImpossiblePrice(v)
      BY <2>1, BlankIsTyped, ImpossibleField DEF PossibleMarketEvent, HasRequired, Quoted
    <2>. QED  BY <2>1, <2>2, <2>3 DEF e
  <1>2. r.markPx \in Field /\ r.oraclePx \in Field
    BY DEF AssetFields
  <1>. QED  BY <1>1, <1>2 DEF MarkEvent, OracleEvent

(* The elements of two sequences, one after the other.                     *)
LEMMA RangeOfConcatenation ==
    ASSUME NEW S, NEW s \in Seq(S), NEW t \in Seq(S)
    PROVE  s \o t \in Seq(S) /\ Range(s \o t) = Range(s) \cup Range(t)
  <1>1. s \o t \in Seq(S)
    OBVIOUS
  <1>2. ASSUME NEW x \in Range(s) \cup Range(t)
        PROVE  x \in Range(s \o t)
    <2>1. CASE x \in Range(s)
      <3>1. PICK i \in 1 .. Len(s) : x = s[i]
        BY <2>1 DEF Range
      <3>2. i \in 1 .. Len(s \o t) /\ (s \o t)[i] = x
        BY <3>1
      <3>. QED  BY <1>1, <3>2 DEF Range
    <2>2. CASE x \in Range(t)
      <3>1. PICK i \in 1 .. Len(t) : x = t[i]
        BY <2>2 DEF Range
      <3>2. Len(s) + i \in 1 .. Len(s \o t) /\ (s \o t)[Len(s) + i] = x
        BY <3>1
      <3>. QED  BY <1>1, <3>2 DEF Range
    <2>. QED  BY <1>2, <2>1, <2>2
  <1>3. ASSUME NEW x \in Range(s \o t)
        PROVE  x \in Range(s) \cup Range(t)
    <2>1. PICK i \in 1 .. Len(s \o t) : x = (s \o t)[i]
      BY <1>1, <1>3 DEF Range
    <2>2. CASE i <= Len(s)
      BY <2>1, <2>2 DEF Range
    <2>3. CASE i > Len(s)
      <3>1. i - Len(s) \in 1 .. Len(t) /\ x = t[i - Len(s)]
        BY <2>1, <2>3
      <3>. QED  BY <3>1 DEF Range
    <2>. QED  BY <2>1, <2>2, <2>3
  <1>. QED  BY <1>1, <1>2, <1>3

(* The events of a context are those of its populated variables.           *)
LEMMA ContextEventFacts ==
    ASSUME NEW r \in AssetFields
    PROVE  /\ ContextEvents(r) \in Seq(MarketEvent)
           /\ Range(ContextEvents(r)) =
                 (IF Given(r.funding) THEN {FundingEvent(r)} ELSE {})
                 \cup (IF Given(r.openInterest) THEN {InterestEvent(r)} ELSE {})
                 \cup (IF Given(r.markPx) THEN {MarkEvent(r)} ELSE {})
                 \cup (IF Given(r.oraclePx) THEN {OracleEvent(r)} ELSE {})
  <1> DEFINE If(v, event) == IF Given(v) THEN <<event>> ELSE <<>>
             a == If(r.funding, FundingEvent(r))
             b == If(r.openInterest, InterestEvent(r))
             c == If(r.markPx, MarkEvent(r))
             d == If(r.oraclePx, OracleEvent(r))
  <1>1. ContextEvents(r) = a \o b \o c \o d
    BY Zenon DEF ContextEvents, FundingEvent, InterestEvent, MarkEvent, OracleEvent
  <1>2. ASSUME NEW v, NEW e \in MarketEvent
        PROVE  /\ If(v, e) \in Seq(MarketEvent)
               /\ Range(If(v, e)) = IF Given(v) THEN {e} ELSE {}
    <2>1. If(v, e) \in Seq(MarketEvent)
      OBVIOUS
    <2>2. CASE Given(v)
      BY <2>2 DEF Range
    <2>3. CASE ~ Given(v)
      BY <2>3 DEF Range
    <2>. QED  BY <2>1, <2>2, <2>3
  <1>3. /\ FundingEvent(r) \in MarketEvent /\ InterestEvent(r) \in MarketEvent
        /\ MarkEvent(r) \in MarketEvent /\ OracleEvent(r) \in MarketEvent
    BY FundingFacts, InterestFacts, PriceFacts
  <1>4. /\ a \in Seq(MarketEvent) /\ b \in Seq(MarketEvent)
        /\ c \in Seq(MarketEvent) /\ d \in Seq(MarketEvent)
        /\ Range(a) = IF Given(r.funding) THEN {FundingEvent(r)} ELSE {}
        /\ Range(b) = IF Given(r.openInterest) THEN {InterestEvent(r)} ELSE {}
        /\ Range(c) = IF Given(r.markPx) THEN {MarkEvent(r)} ELSE {}
        /\ Range(d) = IF Given(r.oraclePx) THEN {OracleEvent(r)} ELSE {}
    BY <1>2, <1>3
  <1> HIDE DEF a, b, c, d
  <1>5. /\ a \in Seq(MarketEvent) /\ b \in Seq(MarketEvent)
        /\ c \in Seq(MarketEvent) /\ d \in Seq(MarketEvent)
    BY <1>4
  <1> DEFINE ab == a \o b
             abc == ab \o c
  <1>6. ab \in Seq(MarketEvent) /\ Range(ab) = Range(a) \cup Range(b)
    BY <1>5, RangeOfConcatenation
  <1> HIDE DEF ab
  <1>7. ab \in Seq(MarketEvent)
    BY <1>6
  <1>8. abc \in Seq(MarketEvent) /\ Range(abc) = Range(ab) \cup Range(c)
    BY <1>5, <1>7, RangeOfConcatenation
  <1> HIDE DEF abc
  <1>9. abc \o d \in Seq(MarketEvent) /\ Range(abc \o d) = Range(abc) \cup Range(d)
    BY <1>5, <1>8, RangeOfConcatenation
  <1>10. ContextEvents(r) = abc \o d
    BY Zenon, <1>1 DEF ab, abc
  <1>. QED  BY Zenon, <1>4, <1>6, <1>8, <1>9, <1>10

(* One trader event for each party a trade names, with its price and size. *)
LEMMA TraderEventFacts ==
    ASSUME NEW r \in TradeFields
    PROVE  /\ UsersOf(r) \in Seq(Wallets)
           /\ TraderEventsOf("trades", r) \in Seq(TraderEvents)
           /\ Len(TraderEventsOf("trades", r)) = Len(UsersOf(r))
           /\ \A i \in DOMAIN TraderEventsOf("trades", r) :
                 /\ TraderEventsOf("trades", r)[i].price = r.px
                 /\ TraderEventsOf("trades", r)[i].quantity = r.sz
  <1> DEFINE us == UsersOf(r)
             E(i) == [wallet |-> us[i], counterparty |-> Counterparty(us, us[i]),
                      price |-> r.px, quantity |-> r.sz]
             events == TraderEventsOf("trades", r)
  <1>1. r.px \in Field /\ r.sz \in Field /\ r.users \in Seq(Wallets) \cup {Malformed}
    BY DEF TradeFields
  <1>2. us \in Seq(Wallets)
    BY <1>1 DEF UsersOf
  <1>3. events = [i \in DOMAIN us |-> E(i)]
    BY DEF TraderEventsOf
  <1> HIDE DEF us, events
  <1>4. Len(us) \in Nat /\ DOMAIN us = 1 .. Len(us)
    BY <1>2
  <1>5. ASSUME NEW i \in 1 .. Len(us)
        PROVE  E(i) \in TraderEvents
    <2>1. us[i] \in Wallets
      BY <1>2, <1>4
    <2>2. \E u \in Seq(Wallets), w \in Wallets, p \in Field, q \in Field :
             E(i) = [wallet |-> w, counterparty |-> Counterparty(u, w), price |-> p, quantity |-> q]
      <3>. USE <1>1, <1>2, <2>1
      <3>. WITNESS us \in Seq(Wallets), us[i] \in Wallets, r.px \in Field, r.sz \in Field
      <3>. QED  OBVIOUS
    <2> HIDE DEF E
    <2>. QED  BY <2>2 DEF TraderEvents
  <1>6. /\ DOMAIN events = 1 .. Len(us)
        /\ \A i \in 1 .. Len(us) : events[i] = E(i)
    BY <1>3, <1>4
  <1>7. \A i \in 1 .. Len(us) : events[i] \in TraderEvents
    BY Zenon, <1>5, <1>6
  <1>8. \A i \in 1 .. Len(us) : events[i].price = r.px /\ events[i].quantity = r.sz
    BY <1>6
  <1> HIDE DEF E
  <1>9. events = [i \in 1 .. Len(us) |-> events[i]]
    BY <1>3, <1>4
  <1>10. events \in Seq(TraderEvents) /\ Len(events) = Len(us)
    BY <1>4, <1>6, <1>7, <1>9
  <1>. QED  BY <1>2, <1>6, <1>8, <1>10 DEF us, events

(* The notional of a possible price and size is not negative.              *)
LEMMA NotionalPossible ==
    ASSUME NEW a \in Int, NEW b \in Int, a > 0, b >= 0
    PROVE  a * b >= 0
  <1>1. a \in Nat /\ b \in Nat
    OBVIOUS
  <1>2. \A m, n \in Nat : m * n \in Nat
    OBVIOUS
  <1>. QED  BY <1>1, <1>2

(* A trade's trader events are possible whenever its market event is.      *)
LEMMA TradersFollowTheTrade ==
    ASSUME NEW r \in TradeFields, ~ ImpossiblePrice(r.px), ~ ImpossibleQuantity(r.sz),
           NEW i \in DOMAIN TraderEventsOf("trades", r)
    PROVE  PossibleTraderEvent(TraderEventsOf("trades", r)[i])
  <1> DEFINE e == TraderEventsOf("trades", r)[i]
  <1>1. e.price = r.px /\ e.quantity = r.sz
    BY TraderEventFacts
  <1> HIDE DEF e
  <1>2. r.px \in Field /\ r.sz \in Field
    BY DEF TradeFields
  <1>3. r.px.n \in Int /\ r.sz.n \in Int /\ r.px.n > 0 /\ r.sz.n >= 0
    BY <1>2, ImpossibleField DEF ImpossiblePrice, ImpossibleQuantity
  <1>4. r.px.n * r.sz.n >= 0
    BY <1>3, NotionalPossible
  <1>5. PossiblePrice(r.px) /\ PossibleQuantity(r.sz)
    BY <1>2, ImpossibleField
  <1>. QED  BY <1>1, <1>4, <1>5 DEF PossibleTraderEvent, e

(* What normalize() and the schemas make of one record, whichever its      *)
(* channel: its events are well-formed and dated, and some event of it is  *)
(* refused exactly when the record states an impossible number.            *)
LEMMA RecordFacts ==
    ASSUME NEW r, IsRecord(frame.channel, r), ~ Unnormalizable(frame.channel, r)
    PROVE  /\ MarketEventsOf(frame.channel, r) \in Seq(MarketEvent)
           /\ \A i \in DOMAIN MarketEventsOf(frame.channel, r) :
                 LET e == MarketEventsOf(frame.channel, r)[i]
                 IN  e.time # Null => e.time > 0
           /\ TraderEventsOf(frame.channel, r) \in Seq(TraderEvents)
           /\ Rejected(frame.channel, r) <=> RecordImpossible(r)
  <1> DEFINE ms == MarketEventsOf(frame.channel, r)
             ts == TraderEventsOf(frame.channel, r)
  <1>1. CASE frame.channel = "trades"
    <2>1. r \in TradeFields
      BY <1>1 DEF IsRecord
    <2> DEFINE e == TradeEvent(r)
    <2>2. ms = <<e>> /\ ts = TraderEventsOf("trades", r)
      BY <1>1 DEF MarketEventsOf
    <2>3. /\ e \in MarketEvent /\ e.time > 0
          /\ PossibleMarketEvent(e) <=> ~ ImpossiblePrice(r.px) /\ ~ ImpossibleQuantity(r.sz)
      BY <1>1, <2>1, TradeEventFacts
    <2> HIDE DEF e, ms, ts
    <2>4. DOMAIN ms = {1} /\ ms[1] = e /\ ms \in Seq(MarketEvent)
      BY <2>2, <2>3
    <2>5. ts \in Seq(TraderEvents)
      BY <2>1, <2>2, TraderEventFacts
    <2>6. PossibleMarketEvent(e) => \A i \in DOMAIN ts : PossibleTraderEvent(ts[i])
      BY Zenon, <2>1, <2>2, <2>3, TradersFollowTheTrade
    <2>7. Rejected(frame.channel, r) <=> ~ PossibleMarketEvent(e)
      BY Zenon, <2>4, <2>6 DEF Rejected, ms, ts
    <2>8. RecordImpossible(r) <=> ImpossiblePrice(r.px) \/ ImpossibleQuantity(r.sz)
      BY <1>1 DEF RecordImpossible
    <2>. QED  BY <2>3, <2>4, <2>5, <2>7, <2>8 DEF ms, ts
  <1>2. CASE frame.channel \in {"bbo", "l2Book"}
    <2> DEFINE e == QuoteEvent(frame.channel, r)
    <2>1. ms = <<e>> /\ ts = <<>>
      BY <1>2 DEF MarketEventsOf, TraderEventsOf
    <2>2. RecordImpossible(r) <=>
             LET bid == BidOf(frame.channel, r)
                 ask == AskOf(frame.channel, r)
             IN  \/ LevelImpossible(bid) \/ LevelImpossible(ask)
                 \/ bid # Null /\ ask # Null /\ bid.px.n > ask.px.n
      BY <1>2 DEF RecordImpossible
    <2>3. e \in MarketEvent /\ e.time > 0 /\ (PossibleMarketEvent(e) <=> ~ RecordImpossible(r))
      BY <1>2, <2>2, QuoteEventFacts
    <2> HIDE DEF e, ms, ts
    <2>4. DOMAIN ms = {1} /\ ms[1] = e /\ ms \in Seq(MarketEvent) /\ ts \in Seq(TraderEvents)
      BY <2>1, <2>3
    <2>5. DOMAIN ts = {}
      BY <2>1
    <2>6. Rejected(frame.channel, r) <=> ~ PossibleMarketEvent(e)
      BY Zenon, <2>4, <2>5 DEF Rejected, ms, ts
    <2>. QED  BY <2>3, <2>4, <2>6 DEF ms, ts
  <1>3. CASE frame.channel = "activeAssetCtx"
    <2>1. r \in AssetFields
      BY <1>3 DEF IsRecord
    <2>2. ms = ContextEvents(r) /\ ts = <<>>
      BY <1>3 DEF MarketEventsOf, TraderEventsOf
    <2>3. ms \in Seq(MarketEvent)
      BY <2>1, <2>2, ContextEventFacts
    <2>4. \A i \in DOMAIN ms : ms[i].time = Null
      <3>1. \A e \in Range(ms) : e.time = Null
        BY <2>1, <2>2, ContextEventFacts, FundingFacts, InterestFacts, PriceFacts
      <3>. QED  BY <3>1 DEF Range
    <2>5. RecordImpossible(r) <=>
             \/ \E v \in {r.markPx, r.oraclePx} : Given(v) /\ ImpossiblePrice(v)
             \/ Given(r.openInterest) /\ ImpossibleQuantity(r.openInterest)
             \/ Given(r.funding) /\ r.funding.form = "notfinite"
      BY <1>3 DEF RecordImpossible
    <2>6. (\E e \in Range(ms) : ~ PossibleMarketEvent(e)) <=> RecordImpossible(r)
      BY <2>1, <2>2, <2>5, ContextEventFacts, FundingFacts, InterestFacts, PriceFacts
    <2> HIDE DEF ms, ts
    <2>7. (\E i \in DOMAIN ms : ~ PossibleMarketEvent(ms[i])) <=> RecordImpossible(r)
      BY Zenon, <2>6 DEF Range
    <2>8. DOMAIN ts = {} /\ ts \in Seq(TraderEvents)
      BY <2>2
    <2>9. Rejected(frame.channel, r) <=> RecordImpossible(r)
      BY Zenon, <2>7, <2>8 DEF Rejected, ms, ts
    <2>. QED  BY <2>3, <2>4, <2>8, <2>9 DEF ms, ts
  <1>. QED  BY <1>1, <1>2, <1>3 DEF IsRecord, DATA_CHANNELS

----------------------------------------------------------------------------
(* The verdict looks only at what the schemas leave open.                  *)
LEMMA VerdictFacts ==
    ASSUME NEW e, NEW t, NEW u
    PROVE  /\ Verdict(e, t, u) \in {"VALID", "WARNING", "INVALID"}
           /\ Verdict(e, t, u) = "VALID" =>
                 ~ ZeroTrade(e) /\ ~ Late(e, t) /\ ~ Ahead(e, t) /\ ~ WideSpread(e)
  <1>1. CASE ZeroTrade(e) \/ Late(e, t) \/ t > u
    BY <1>1 DEF Verdict
  <1>2. CASE ~ (ZeroTrade(e) \/ Late(e, t) \/ t > u) /\ (Ahead(e, t) \/ WideSpread(e))
    BY <1>2 DEF Verdict
  <1>3. CASE ~ (ZeroTrade(e) \/ Late(e, t) \/ t > u) /\ ~ (Ahead(e, t) \/ WideSpread(e))
    BY <1>3 DEF Verdict
  <1>. QED  BY <1>1, <1>2, <1>3

(* What the schemas pass and the quality engine calls valid is plausible.  *)
LEMMA ValidIsPlausible ==
    ASSUME NEW e, EventSound(e), NEW reading, Verdict(e, ReceivedAt, reading) = "VALID"
    PROVE  Plausible(e)
  <1>1. e \in MarketEvent /\ PossibleMarketEvent(e) /\ (e.time # Null => e.time > 0)
    BY DEF EventSound
  <1>2. /\ e.price \in FieldOrNull /\ e.quantity \in FieldOrNull /\ e.bid \in FieldOrNull
        /\ e.ask \in FieldOrNull /\ e.openInterest \in FieldOrNull /\ e.time \in IntOrNull
    BY <1>1 DEF MarketEvent
  <1>3. ~ ZeroTrade(e) /\ ~ Late(e, ReceivedAt) /\ ~ Ahead(e, ReceivedAt) /\ ~ WideSpread(e)
    BY VerdictFacts
  <1>4. \A v \in (({e.bid, e.ask} \ {Null}) \cup {e.price}) \ {Null} : ~ ImpossiblePrice(v)
    <2>1. ASSUME NEW v \in {e.bid, e.ask, e.price}, v # Null
          PROVE  ~ ImpossiblePrice(v)
      <3>1. v \in Field /\ PossiblePrice(v)
        BY <1>1, <1>2, <2>1 DEF PossibleMarketEvent, FieldOrNull
      <3>. QED  BY <3>1, ImpossibleField
    <2>. QED  BY <2>1
  <1>5. \A v \in {e.quantity, e.openInterest} \ {Null} : ~ ImpossibleQuantity(v)
    <2>1. ASSUME NEW v \in {e.quantity, e.openInterest}, v # Null
          PROVE  ~ ImpossibleQuantity(v)
      <3>1. v \in Field /\ PossibleQuantity(v)
        BY <1>1, <1>2, <2>1 DEF PossibleMarketEvent, FieldOrNull
      <3>. QED  BY <3>1, ImpossibleField
    <2>. QED  BY <2>1
  <1>6. ASSUME e.type = "TRADE"
        PROVE  e.quantity.n > 0
    <2>1. e.quantity # Null
      BY <1>1, <1>6 DEF PossibleMarketEvent, HasRequired
    <2>2. e.quantity \in Field
      BY <1>2, <2>1 DEF FieldOrNull
    <2>3. e.quantity.n \in Int /\ ~ ImpossibleQuantity(e.quantity)
      BY <1>5, <2>1, <2>2, ImpossibleField
    <2>. QED  BY <1>3, <1>6, <2>3 DEF ZeroTrade, ImpossibleQuantity
  <1>7. ASSUME Quoted(e)
        PROVE  LET spread == e.ask.n - e.bid.n
               IN  spread >= 0 /\ 200 * spread <= MaxSpreadPercent * (e.ask.n + e.bid.n)
    <2>1. e.bid \in Field /\ e.ask \in Field
      BY <1>2, <1>7 DEF FieldOrNull, Quoted
    <2>2. e.bid.n \in Int /\ e.ask.n \in Int
      BY <2>1, ImpossibleField
    <2>3. e.bid.n <= e.ask.n
      BY <1>1, <1>7 DEF PossibleMarketEvent
    <2>4. ~ (200 * (e.ask.n - e.bid.n) > MaxSpreadPercent * (e.bid.n + e.ask.n))
      BY <1>3, <1>7 DEF WideSpread
    <2>5. e.bid.n + e.ask.n = e.ask.n + e.bid.n /\ e.ask.n + e.bid.n \in Int
      BY <2>2
    <2> DEFINE mid == e.ask.n + e.bid.n
               limit == MaxSpreadPercent * mid
    <2>6. ~ (200 * (e.ask.n - e.bid.n) > limit)
      BY <2>4, <2>5
    <2>7. limit \in Int
      <3> HIDE DEF mid
      <3>1. mid \in Int
        BY <2>5 DEF mid
      <3>. QED  BY <3>1, LimitsAssumption
    <2> HIDE DEF limit
    <2>8. 200 * (e.ask.n - e.bid.n) <= limit /\ e.ask.n - e.bid.n >= 0
      BY <2>2, <2>3, <2>6, <2>7
    <2>. QED  BY <2>8 DEF limit
  <1>8. ASSUME e.time # Null
        PROVE  /\ e.time > 0
               /\ e.time \in (ReceivedAt - MAX_PLAUSIBLE_SOURCE_DELAY)
                              .. (ReceivedAt + MAX_PLAUSIBLE_CLOCK_SKEW)
    <2>1. e.time \in Int /\ e.time > 0
      BY <1>1, <1>2, <1>8 DEF IntOrNull
    <2>. QED  BY <1>3, <1>8, <2>1, LimitsAssumption, VenueAssumption DEF Late, Ahead
  <1>9. e.type = "TRADE" => e.quantity.n > 0
    BY <1>6
  <1>10. Quoted(e) =>
            LET spread == e.ask.n - e.bid.n
            IN  spread >= 0 /\ 200 * spread <= MaxSpreadPercent * (e.ask.n + e.bid.n)
    BY Zenon, <1>7
  <1>11. e.time # Null =>
            /\ e.time > 0
            /\ e.time \in (ReceivedAt - MAX_PLAUSIBLE_SOURCE_DELAY)
                           .. (ReceivedAt + MAX_PLAUSIBLE_CLOCK_SKEW)
    BY Zenon, <1>8
  <1>. QED  BY Zenon, <1>4, <1>5, <1>9, <1>10, <1>11 DEF Plausible

----------------------------------------------------------------------------
(* The wallets named by the first records, one record at a time.           *)
LEMMA NoWalletsYet ==
    WalletsUpTo(0) = {} /\ IsFiniteSet(WalletsUpTo(0)) /\ Cardinality(WalletsUpTo(0)) = 0
  BY FS_EmptySet DEF WalletsUpTo

(* One more record adds the wallets it names.                              *)
LEMMA WalletsOfNext ==
    ASSUME NEW k \in Nat, IsFiniteSet(WalletsUpTo(k)),
           UsersOf(Records[k + 1]) \in Seq(Wallets)
    PROVE  /\ IsFiniteSet(WalletsUpTo(k + 1))
           /\ Cardinality(WalletsUpTo(k + 1)) =
                 Cardinality(WalletsUpTo(k)) + Len(UsersOf(Records[k + 1]))
  <1> DEFINE us == UsersOf(Records[k + 1])
             n == Len(us)
             next == {k + 1} \X (1 .. n)
  <1>1. n \in Nat /\ DOMAIN us = 1 .. n
    OBVIOUS
  <1>2. WalletsUpTo(k + 1) = WalletsUpTo(k) \cup next
    <2>1. 1 .. (k + 1) = (1 .. k) \cup {k + 1}
      OBVIOUS
    <2>. QED  BY <1>1, <2>1 DEF WalletsUpTo
  <1> HIDE DEF n
  <1>3. IsFiniteSet({k + 1}) /\ Cardinality({k + 1}) = 1
    BY FS_Singleton
  <1>4. IsFiniteSet(1 .. n) /\ Cardinality(1 .. n) = n
    BY <1>1, FS_Interval
  <1>5. IsFiniteSet(next) /\ Cardinality(next) = 1 * n
    BY <1>3, <1>4, FS_Product
  <1>6. WalletsUpTo(k) \cap next = {}
    <2>1. \A x \in WalletsUpTo(k) : x[1] \in 1 .. k
      BY DEF WalletsUpTo
    <2>2. \A x \in next : x[1] = k + 1
      OBVIOUS
    <2>. QED  BY <2>1, <2>2
  <1> HIDE DEF next
  <1>7. Cardinality({}) = 0
    BY FS_EmptySet
  <1>8. Cardinality(WalletsUpTo(k)) \in Nat
    BY FS_CardinalityType
  <1>9. /\ IsFiniteSet(WalletsUpTo(k) \cup next)
        /\ Cardinality(WalletsUpTo(k) \cup next) =
              Cardinality(WalletsUpTo(k)) + Cardinality(next) - Cardinality(WalletsUpTo(k) \cap next)
    BY <1>5, FS_Union
  <1>10. Cardinality(WalletsUpTo(k) \cup next) = Cardinality(WalletsUpTo(k)) + n
    <2>1. Cardinality(WalletsUpTo(k) \cap next) = 0
      BY Zenon, <1>6, <1>7
    <2> DEFINE c == Cardinality(WalletsUpTo(k))
               d == Cardinality(next)
    <2>2. c \in Nat /\ d = n
      BY <1>1, <1>5, <1>8
    <2>3. Cardinality(WalletsUpTo(k) \cup next) = c + d - 0
      BY Zenon, <1>9, <2>1
    <2> HIDE DEF c, d
    <2>4. c + d - 0 = c + n
      BY <1>1, <2>2
    <2>. QED  BY Zenon, <2>3, <2>4 DEF c
  <1>. QED  BY <1>2, <1>9, <1>10 DEF n

----------------------------------------------------------------------------
(* A record with which the frame is refused by the schemas.                *)
Fatal(i) ==
    /\ RecordImpossible(Records[i])
    /\ \A j \in 1 .. i : ~ Unnormalizable(frame.channel, Records[j])

(* The property, in terms of the records that are fatal.                   *)
LEMMA RejectedForCauseIs ==
    RejectedForCause <=>
        (stage \in {"assessing", "done"} /\ FrameReadable(frame) /\ IsData(frame) =>
            (outcome = "rejected" <=> \E i \in DOMAIN Records : Fatal(i)))
  BY Zenon DEF RejectedForCause, Fatal, Records

(* What is said of a frame stays true of it.                               *)
LEMMA SameFrame ==
    ASSUME frame' = frame
    PROVE  /\ Records' = Records
           /\ FrameReadable(frame)' <=> FrameReadable(frame)
           /\ IsData(frame)' <=> IsData(frame)
           /\ \A i : Fatal(i)' <=> Fatal(i)
           /\ \A k : WalletsUpTo(k)' = WalletsUpTo(k)
  <1>1. Records' = Records
    BY DEF Records
  <1>2. FrameReadable(frame)' <=> FrameReadable(frame)
    OBVIOUS
  <1>3. IsData(frame)' <=> IsData(frame)
    OBVIOUS
  <1>4. ASSUME NEW i
        PROVE  Fatal(i)' <=> Fatal(i)
    <2>1. RecordImpossible(Records[i])' <=> RecordImpossible(Records[i])
      BY <1>1 DEF RecordImpossible
    <2>. QED  BY <1>1, <2>1 DEF Fatal
  <1>5. ASSUME NEW k
        PROVE  WalletsUpTo(k)' = WalletsUpTo(k)
    BY <1>1 DEF WalletsUpTo
  <1>. QED  BY <1>1, <1>2, <1>3, <1>4, <1>5

(* The record to normalize next.                                           *)
LEMMA NextRecord ==
    ASSUME NormalizationIInv, stage = "normalizing", rest # <<>>
    PROVE  /\ Records \in Seq(AnyRecord) /\ Len(Records) \in Nat /\ Read \in Nat
           /\ Read + 1 \in 1 .. Len(Records)
           /\ Head(rest) = Records[Read + 1]
           /\ IsRecord(frame.channel, Head(rest))
           /\ Tail(rest) \in Seq(AnyRecord)
           /\ Len(Tail(rest)) = Len(rest) - 1
           /\ \A i \in DOMAIN Tail(rest) : Tail(rest)[i] = Records[Read + 1 + i]
  <1>1. frame \in VenueFrames /\ FrameReadable(frame) /\ IsData(frame) /\ rest \in Seq(AnyRecord)
    BY DEF NormalizationIInv, NormalizationTypeOK, ReadSoFar
  <1>2. Read \in 0 .. Len(Records) /\ \A i \in DOMAIN rest : rest[i] = Records[Read + i]
    BY DEF NormalizationIInv, ReadSoFar
  <1>3. /\ Records \in Seq(AnyRecord)
        /\ \A i \in DOMAIN Records : IsRecord(frame.channel, Records[i])
    BY <1>1, RecordsAreTyped DEF Records
  <1>4. /\ Len(Records) \in Nat /\ DOMAIN Records = 1 .. Len(Records)
        /\ Len(rest) \in Nat /\ DOMAIN rest = 1 .. Len(rest) /\ Len(rest) > 0
    BY <1>1, <1>3
  <1>5. Read + 1 \in 1 .. Len(Records)
    BY <1>2, <1>4 DEF Read
  <1>6. Head(rest) = rest[1] /\ 1 \in DOMAIN rest
    BY <1>1, <1>4
  <1>7. /\ Tail(rest) \in Seq(AnyRecord) /\ Len(Tail(rest)) = Len(rest) - 1
        /\ \A i \in 1 .. Len(Tail(rest)) : Tail(rest)[i] = rest[i + 1]
    BY <1>1, HeadTailProperties
  <1>8. \A i \in DOMAIN Tail(rest) : Tail(rest)[i] = Records[Read + 1 + i]
    <2> SUFFICES ASSUME NEW i \in DOMAIN Tail(rest)
                 PROVE  Tail(rest)[i] = Records[Read + 1 + i]
      OBVIOUS
    <2>1. i \in 1 .. Len(Tail(rest))
      BY <1>7
    <2>2. i + 1 \in DOMAIN rest /\ Tail(rest)[i] = rest[i + 1]
      BY <1>4, <1>7, <2>1
    <2>3. rest[i + 1] = Records[Read + (i + 1)]
      BY <1>2, <2>2
    <2>4. Read \in Int /\ i \in Int
      BY <1>2, <2>1
    <2> HIDE DEF Read
    <2>5. Read + (i + 1) = Read + 1 + i
      BY <2>4
    <2>. QED  BY <2>2, <2>3, <2>5
  <1>. QED  BY <1>2, <1>3, <1>4, <1>5, <1>6, <1>7, <1>8

(* The records read before were not impossible.                            *)
LEMMA NoneBeforeWasImpossible ==
    ASSUME NormalizationIInv, stage = "normalizing", NEW i \in 1 .. Read
    PROVE  /\ i \in DOMAIN Records
           /\ ~ RecordImpossible(Records[i])
           /\ ~ Unnormalizable(frame.channel, Records[i])
  <1>1. frame \in VenueFrames /\ FrameReadable(frame) /\ IsData(frame) /\ Read \in 0 .. Len(Records)
    BY DEF NormalizationIInv, NormalizationTypeOK, ReadSoFar
  <1>2. ~ Unnormalizable(frame.channel, Records[i]) /\ ~ Rejected(frame.channel, Records[i])
    BY DEF NormalizationIInv, ReadSoFar
  <1>3. /\ Records \in Seq(AnyRecord)
        /\ \A j \in DOMAIN Records : IsRecord(frame.channel, Records[j])
    BY <1>1, RecordsAreTyped DEF Records
  <1>4. i \in DOMAIN Records
    BY <1>1, <1>3
  <1>. QED  BY <1>2, <1>3, <1>4, RecordFacts

----------------------------------------------------------------------------
(* The events of one more record state its facts as well.                  *)
LEMMA FactsOfNext ==
    ASSUME NormalizationIInv, NormalizeRecord, NEW k \in Nat, k = Read
    PROVE  FactsUpTo(k + 1)'
  <1> DEFINE r == Head(rest)
             ms == MarketEventsOf(frame.channel, r)
             ts == TraderEventsOf(frame.channel, r)
  <1>1. /\ stage = "normalizing" /\ rest # <<>> /\ frame' = frame
        /\ ~ Unnormalizable(frame.channel, r)
        /\ market' = market \o ms /\ traders' = traders \o ts
    BY DEF NormalizeRecord
  <1>2. /\ Records \in Seq(AnyRecord) /\ Read + 1 \in 1 .. Len(Records)
        /\ r = Records[Read + 1] /\ IsRecord(frame.channel, r)
    BY <1>1, NextRecord
  <1>3. FactsUpTo(k)
    BY <1>1 DEF NormalizationIInv, ReadSoFar
  <1>4. frame \in VenueFrames /\ FrameReadable(frame) /\ IsData(frame)
    BY <1>1 DEF NormalizationIInv, ReadSoFar, NormalizationTypeOK
  <1>5. market \in Seq(MarketEvent) /\ traders \in Seq(TraderEvents)
    BY DEF NormalizationIInv, NormalizationTypeOK
  <1>6. Records' = Records /\ WalletsUpTo(k + 1)' = WalletsUpTo(k + 1)
    BY <1>1, SameFrame
  <1>7. CASE frame.channel = "trades"
    <2>1. r \in TradeFields
      BY <1>2, <1>7 DEF IsRecord
    <2> DEFINE e == TradeEvent(r)
    <2>2. ms = <<e>> /\ ts = TraderEventsOf("trades", r)
      BY <1>7 DEF MarketEventsOf
    <2>3. e \in MarketEvent /\ e.price = r.px /\ e.time = r.time.n
      BY <1>1, <1>7, <2>1, TradeEventFacts
    <2>4. ts \in Seq(TraderEvents) /\ Len(ts) = Len(UsersOf(r)) /\ UsersOf(r) \in Seq(Wallets)
      BY <2>1, <2>2, TraderEventFacts
    <2>5. /\ Len(market) = k
          /\ \A i \in 1 .. k :
                market[i].price = Records[i].px /\ market[i].time = Records[i].time.n
          /\ IsFiniteSet(WalletsUpTo(k)) /\ Len(traders) = Cardinality(WalletsUpTo(k))
      BY <1>3, <1>7 DEF FactsUpTo, TradeFacts
    <2>6. r = Records[k + 1]
      BY <1>2
    <2> HIDE DEF e, ms, ts, r
    <2>7. /\ Len(market') = k + 1
          /\ \A i \in 1 .. k : market'[i] = market[i]
          /\ market'[k + 1] = e
      <3>1. market' = market \o <<e>>
        BY <1>1, <2>2
      <3>2. market \in Seq(MarketEvent) /\ <<e>> \in Seq(MarketEvent)
        BY <1>5, <2>3
      <3>3. Len(market) = k
        BY <2>5
      <3> HIDE DEF MarketEvent
      <3>4. Len(market') = k + 1
        BY <3>1, <3>2, <3>3
      <3>5. \A i \in 1 .. k : market'[i] = market[i]
        BY <3>1, <3>2, <3>3
      <3>6. market'[k + 1] = e
        BY <3>1, <3>2, <3>3
      <3>. QED  BY <3>4, <3>5, <3>6
    <2>8. \A i \in 1 .. k + 1 :
             market'[i].price = Records[i].px /\ market'[i].time = Records[i].time.n
      <3>1. \A i \in 1 .. k :
               market'[i].price = Records[i].px /\ market'[i].time = Records[i].time.n
        BY <2>5, <2>7
      <3>2. /\ market'[k + 1].price = Records[k + 1].px
            /\ market'[k + 1].time = Records[k + 1].time.n
        BY <2>3, <2>6, <2>7
      <3>3. \A i \in 1 .. k + 1 : i \in 1 .. k \/ i = k + 1
        OBVIOUS
      <3>. QED  BY Zenon, <3>1, <3>2, <3>3
    <2>9. /\ IsFiniteSet(WalletsUpTo(k + 1))
          /\ Cardinality(WalletsUpTo(k + 1)) = Cardinality(WalletsUpTo(k)) + Len(UsersOf(r))
      BY <2>4, <2>5, <2>6, WalletsOfNext
    <2>10. Len(traders') = Len(traders) + Len(ts)
      <3>1. traders' = traders \o ts
        BY <1>1
      <3>. QED  BY <1>5, <2>4, <3>1, ConcatProperties
    <2>11. Len(traders') = Cardinality(WalletsUpTo(k + 1))
      BY <2>4, <2>5, <2>9, <2>10
    <2>12. TradeFacts(k + 1)'
      BY Zenon, <1>6, <2>7, <2>8, <2>9, <2>11 DEF TradeFacts
    <2>. QED  BY Zenon, <1>1, <1>7, <2>12 DEF FactsUpTo
  <1>8. CASE frame.channel = "activeAssetCtx"
    <2>1. Records = <<frame.data>> /\ Len(Records) = 1
      BY <1>4, <1>8, RecordsAreTyped DEF Records
    <2>2. k = 0
      BY <1>2, <2>1
    <2>3. r = frame.data
      BY <1>2, <2>1, <2>2
    <2>4. market = <<>> /\ traders = <<>>
      BY <1>3, <1>8, <2>2 DEF FactsUpTo
    <2>5. ms = ContextEvents(r) /\ ts = <<>> /\ ms \in Seq(MarketEvent)
      BY <1>1, <1>2, <1>8, RecordFacts DEF MarketEventsOf, TraderEventsOf
    <2> HIDE DEF ms, ts
    <2>6. market' = ms /\ traders' = <<>>
      BY <1>1, <2>4, <2>5
    <2> HIDE DEF r
    <2>7. market' = ContextEvents(frame'.data) /\ frame'.channel = "activeAssetCtx"
      BY Zenon, <1>1, <1>8, <2>3, <2>5, <2>6
    <2>. QED  BY <2>2, <2>6, <2>7 DEF FactsUpTo
  <1>9. CASE frame.channel \notin {"trades", "activeAssetCtx"}
    <2>1. frame.channel \in {"bbo", "l2Book"}
      BY <1>4, <1>9 DEF IsData, DATA_CHANNELS
    <2>2. ms = <<QuoteEvent(frame.channel, r)>> /\ ts = <<>>
      BY <2>1 DEF MarketEventsOf, TraderEventsOf
    <2>3. Len(market) = k /\ traders = <<>>
      BY <1>3, <1>9 DEF FactsUpTo
    <2> HIDE DEF ms, ts, r
    <2>4. Len(market') = k + 1 /\ traders' = <<>>
      BY <1>1, <1>5, <2>2, <2>3
    <2>5. frame'.channel \notin {"trades", "activeAssetCtx"}
      BY <1>1, <1>9
    <2>. QED  BY <2>4, <2>5 DEF FactsUpTo
  <1>. QED  BY <1>7, <1>8, <1>9

(* The types of event a context's populated variables call for.            *)
TypesOf(r) ==
    {CASE f = "funding" -> "FUNDING" [] f = "openInterest" -> "OPEN_INTEREST"
       [] f = "markPx" -> "MARK_PRICE" [] OTHER -> "ORACLE_PRICE" : f \in Populated(r)}

(* They are the types of its events.                                       *)
LEMMA ContextTypes ==
    ASSUME NEW r \in AssetFields, NEW events, events = ContextEvents(r)
    PROVE  {events[i].type : i \in DOMAIN events} =
              TypesOf(r)
  <1> DEFINE T(f) == CASE f = "funding" -> "FUNDING" [] f = "openInterest" -> "OPEN_INTEREST"
                       [] f = "markPx" -> "MARK_PRICE" [] OTHER -> "ORACLE_PRICE"
             L == {e.type : e \in Range(events)}
             R == {T(f) : f \in Populated(r)}
  <1>1. /\ T("funding") = "FUNDING" /\ T("openInterest") = "OPEN_INTEREST"
        /\ T("markPx") = "MARK_PRICE" /\ T("oraclePx") = "ORACLE_PRICE"
    OBVIOUS
  <1> HIDE DEF T
  <1>2. \A x : x \in R <=>
           \/ x = "FUNDING" /\ Given(r.funding)
           \/ x = "OPEN_INTEREST" /\ Given(r.openInterest)
           \/ x = "MARK_PRICE" /\ Given(r.markPx)
           \/ x = "ORACLE_PRICE" /\ Given(r.oraclePx)
    BY <1>1 DEF Populated
  <1>3. \A x : x \in L <=>
           \/ x = "FUNDING" /\ Given(r.funding)
           \/ x = "OPEN_INTEREST" /\ Given(r.openInterest)
           \/ x = "MARK_PRICE" /\ Given(r.markPx)
           \/ x = "ORACLE_PRICE" /\ Given(r.oraclePx)
    BY ContextEventFacts, FundingFacts, InterestFacts, PriceFacts
  <1>4. {events[i].type : i \in DOMAIN events} = L
    BY Zenon DEF Range
  <1> HIDE DEF L, R
  <1>5. L = R
    BY Zenon, <1>2, <1>3
  <1>. QED  BY Zenon, <1>4, <1>5 DEF R, T, TypesOf

(* Once every record is read, every fact of the frame is stated.           *)
LEMMA FactsOfAll ==
    ASSUME NormalizationIInv, stage = "normalizing", rest = <<>>
    PROVE  EveryFact
  <1>1. frame \in VenueFrames /\ FrameReadable(frame) /\ IsData(frame) /\ FactsUpTo(Read)
    BY DEF NormalizationIInv, ReadSoFar, NormalizationTypeOK
  <1>2. Records \in Seq(AnyRecord) /\ Len(Records) \in Nat
    BY <1>1, RecordsAreTyped DEF Records
  <1>3. Read = Len(Records)
    BY <1>2 DEF Read
  <1>4. CASE frame.channel = "trades"
    <2>1. Records = frame.data
      BY <1>4 DEF Records, RecordsOf
    <2>2. TradeFacts(Len(Records))
      BY Zenon, <1>1, <1>3, <1>4 DEF FactsUpTo
    <2>3. WalletsUpTo(Len(Records)) = WalletsNamed(frame.data)
      <3>1. DOMAIN Records = 1 .. Len(Records)
        BY <1>2
      <3>. QED  BY Zenon, <2>1, <3>1 DEF WalletsUpTo, WalletsNamed
    <2>4. DOMAIN market = 1 .. Len(market)
      BY DEF NormalizationIInv, NormalizationTypeOK
    <2>5. /\ Len(market) = Len(frame.data)
          /\ \A i \in DOMAIN market :
                market[i].price = frame.data[i].px /\ market[i].time = frame.data[i].time.n
          /\ Len(traders) = Cardinality(WalletsNamed(frame.data))
      BY Zenon, <2>1, <2>2, <2>3, <2>4 DEF TradeFacts
    <2>. QED  BY Zenon, <1>4, <2>5 DEF EveryFact
  <1>5. CASE frame.channel = "activeAssetCtx"
    <2>1. Len(Records) = 1
      BY <1>1, <1>5, RecordsAreTyped DEF Records
    <2>2. market = ContextEvents(frame.data) /\ traders = <<>>
      BY <1>1, <1>3, <1>5, <2>1 DEF FactsUpTo
    <2>3. frame.data \in AssetFields
      BY <1>1, <1>5, ContextsAreTyped
    <2>4. {market[i].type : i \in DOMAIN market} =
              TypesOf(frame.data)
      <3>1. \A r, events : r \in AssetFields /\ events = ContextEvents(r) =>
               {events[i].type : i \in DOMAIN events} = TypesOf(r)
        BY ContextTypes
      <3>2. frame.data \in AssetFields /\ market = ContextEvents(frame.data)
        BY <2>2, <2>3
      <3>. QED  BY <3>1, <3>2
    <2>5. frame.channel # "trades"
      BY <1>5
    <2>. QED  BY Zenon, <1>5, <2>2, <2>4, <2>5 DEF EveryFact, TypesOf
  <1>6. CASE frame.channel \notin {"trades", "activeAssetCtx"}
    <2>1. Len(Records) = 1
      BY <1>1, <1>6, RecordsAreTyped DEF Records
    <2>2. Len(market) = 1 /\ traders = <<>>
      BY <1>1, <1>3, <1>6, <2>1 DEF FactsUpTo
    <2>. QED  BY <1>6, <2>2 DEF EveryFact
  <1>. QED  BY <1>4, <1>5, <1>6

(* The facts stated depend on the frame and its events alone.              *)
LEMMA SameFacts ==
    ASSUME frame' = frame, market' = market, traders' = traders
    PROVE  EveryFact' <=> EveryFact
  BY DEF EveryFact

----------------------------------------------------------------------------
(* The invariant holds when a frame is received.                           *)
LEMMA NormalizationStarts == NormalizationInit => NormalizationIInv
  <1> SUFFICES ASSUME NormalizationInit
               PROVE  NormalizationIInv
    OBVIOUS
  <1>1. /\ frame \in VenueFrames /\ stage = "parsing" /\ rest = <<>> /\ market = <<>>
        /\ traders = <<>> /\ verdicts = <<>> /\ outcome = Null
    BY DEF NormalizationInit
  <1>2. /\ <<>> \in Seq(AnyRecord) /\ <<>> \in Seq(MarketEvent) /\ <<>> \in Seq(TraderEvents)
        /\ <<>> \in Seq({"VALID", "WARNING", "INVALID"})
    BY EmptySeq
  <1>3. NormalizationTypeOK
    BY <1>1, <1>2 DEF NormalizationTypeOK
  <1>4. NothingYet /\ ReadSoFar /\ EventsSound /\ VerdictsFollow
    BY <1>1 DEF NothingYet, Empty, ReadSoFar, EventsSound, VerdictsFollow
  <1>5. RejectedForCause
    BY <1>1, RejectedForCauseIs
  <1>6. FactsComplete
    BY <1>1 DEF FactsComplete
  <1>7. UsableIsPlausible
    BY <1>1 DEF UsableIsPlausible
  <1>. QED  BY <1>3, <1>4, <1>5, <1>6, <1>7 DEF NormalizationIInv

(* An exception discards what was made of the frame.                       *)
LEMMA DiscardKeeps ==
    ASSUME NormalizationIInv, stage \in {"parsing", "normalizing"}, NEW kind, Discard(kind),
           kind # "data",
           FrameReadable(frame) /\ IsData(frame) =>
               (kind = "rejected" <=> \E i \in DOMAIN Records : Fatal(i))
    PROVE  NormalizationIInv'
  <1>1. /\ outcome' = kind /\ stage' = "done" /\ rest' = <<>> /\ market' = <<>>
        /\ traders' = <<>> /\ frame' = frame /\ verdicts' = verdicts
    BY DEF Discard
  <1>2. frame \in VenueFrames /\ verdicts = <<>>
    BY DEF NormalizationIInv, NormalizationTypeOK, NothingYet
  <1>3. /\ <<>> \in Seq(AnyRecord) /\ <<>> \in Seq(MarketEvent) /\ <<>> \in Seq(TraderEvents)
        /\ <<>> \in Seq({"VALID", "WARNING", "INVALID"})
    BY EmptySeq
  <1>4. NormalizationTypeOK'
    BY <1>1, <1>2, <1>3 DEF NormalizationTypeOK
  <1>5. NothingYet' /\ ReadSoFar' /\ EventsSound' /\ VerdictsFollow'
    BY <1>1, <1>2 DEF NothingYet, Empty, ReadSoFar, EventsSound, VerdictsFollow
  <1>6. RejectedForCause'
    <2>1. /\ Records' = Records
          /\ FrameReadable(frame)' <=> FrameReadable(frame)
          /\ IsData(frame)' <=> IsData(frame)
          /\ \A i : Fatal(i)' <=> Fatal(i)
      BY <1>1, SameFrame
    <2>2. RejectedForCause' <=>
             (stage' \in {"assessing", "done"} /\ FrameReadable(frame)' /\ IsData(frame)' =>
                (outcome' = "rejected" <=> \E i \in DOMAIN Records' : Fatal(i)'))
      BY Zenon DEF RejectedForCause, Fatal, Records
    <2>. QED  BY Zenon, <1>1, <2>1, <2>2
  <1>7. FactsComplete'
    BY <1>1 DEF FactsComplete
  <1>8. UsableIsPlausible'
    BY <1>1, <1>2 DEF UsableIsPlausible
  <1>. QED  BY <1>4, <1>5, <1>6, <1>7, <1>8 DEF NormalizationIInv

(* What has become of a frame does not change while its events are         *)
(* assessed.                                                               *)
LEMMA CauseKept ==
    ASSUME NormalizationIInv, frame' = frame, outcome' = outcome,
           stage \in {"assessing", "done"}
    PROVE  RejectedForCause'
  <1>1. /\ Records' = Records
        /\ FrameReadable(frame)' <=> FrameReadable(frame)
        /\ IsData(frame)' <=> IsData(frame)
        /\ \A i : Fatal(i)' <=> Fatal(i)
    BY SameFrame
  <1>2. RejectedForCause' <=>
           (stage' \in {"assessing", "done"} /\ FrameReadable(frame)' /\ IsData(frame)' =>
              (outcome' = "rejected" <=> \E i \in DOMAIN Records' : Fatal(i)'))
    BY Zenon DEF RejectedForCause, Fatal, Records
  <1>3. FrameReadable(frame) /\ IsData(frame) =>
           (outcome = "rejected" <=> \E i \in DOMAIN Records : Fatal(i))
    BY Zenon, RejectedForCauseIs DEF NormalizationIInv
  <1>. QED  BY Zenon, <1>1, <1>2, <1>3

(* Every step preserves the invariant.                                     *)
LEMMA NormalizationSteps ==
    NormalizationIInv /\ [NormalizationNext]_normalizationVars => NormalizationIInv'
  <1> SUFFICES ASSUME NormalizationIInv, [NormalizationNext]_normalizationVars
               PROVE  NormalizationIInv'
    OBVIOUS
  <1>1. NormalizationTypeOK /\ NothingYet /\ ReadSoFar /\ EventsSound /\ VerdictsFollow
    BY DEF NormalizationIInv
  <1>2. RejectedForCause /\ FactsComplete /\ UsableIsPlausible
    BY DEF NormalizationIInv
  <1>3. CASE ParseRaises
    BY <1>3, DiscardKeeps DEF ParseRaises
  <1>4. CASE ParseControl
    BY <1>4, DiscardKeeps DEF ParseControl
  <1>5. CASE ParseData
    <2>1. /\ stage = "parsing" /\ FrameReadable(frame) /\ IsData(frame) /\ rest' = Records
          /\ stage' = "normalizing" /\ frame' = frame /\ market' = market
          /\ traders' = traders /\ verdicts' = verdicts /\ outcome' = outcome
      BY <1>5 DEF ParseData, Records
    <2>2. /\ verdicts = <<>> /\ outcome = Null /\ market = <<>> /\ traders = <<>>
          /\ frame \in VenueFrames
      BY <1>1, <2>1 DEF NothingYet, Empty, NormalizationTypeOK
    <2>3. Records \in Seq(AnyRecord) /\ Len(Records) \in Nat
      BY <2>1, <2>2, RecordsAreTyped DEF Records
    <2>4. NormalizationTypeOK'
      BY <1>1, <2>1, <2>3 DEF NormalizationTypeOK
    <2>5. NothingYet'
      BY <2>1, <2>2 DEF NothingYet
    <2>6. Records' = Records /\ Read' = 0
      BY <2>1, <2>3, SameFrame DEF Read
    <2>7. TradeFacts(0)'
      <3>1. WalletsUpTo(0)' = {} /\ IsFiniteSet({}) /\ Cardinality({}) = 0
        BY FS_EmptySet DEF WalletsUpTo
      <3>2. Len(market') = 0 /\ Len(traders') = 0
        BY <2>1, <2>2
      <3>3. \A i \in 1 .. 0 : FALSE
        OBVIOUS
      <3>. QED  BY Zenon, <3>1, <3>2, <3>3 DEF TradeFacts
    <2>8. FactsUpTo(0)'
      <3>1. market' = <<>> /\ traders' = <<>> /\ Len(market') = 0
        BY <2>1, <2>2
      <3>. QED  BY <2>7, <3>1 DEF FactsUpTo
    <2>9. ReadSoFar'
      <3>1. FactsUpTo(Read)'
        BY <2>6, <2>8 DEF FactsUpTo, TradeFacts, WalletsUpTo
      <3>2. FrameReadable(frame)' /\ IsData(frame)'
        BY <2>1, SameFrame
      <3>3. Read' \in 0 .. Len(Records')
        BY <2>3, <2>6
      <3>4. \A i \in DOMAIN rest' : rest'[i] = Records'[Read' + i]
        BY <2>1, <2>3, <2>6
      <3>5. \A i \in 1 .. Read' : FALSE
        BY <2>6
      <3>. QED  BY Zenon, <3>1, <3>2, <3>3, <3>4, <3>5 DEF ReadSoFar
    <2>10. EventsSound' /\ VerdictsFollow'
      BY <2>1, <2>2 DEF EventsSound, VerdictsFollow
    <2>11. RejectedForCause' /\ FactsComplete'
      BY <2>1 DEF RejectedForCause, FactsComplete
    <2>12. UsableIsPlausible'
      BY <2>1, <2>2 DEF UsableIsPlausible
    <2>. QED  BY <2>4, <2>5, <2>9, <2>10, <2>11, <2>12 DEF NormalizationIInv
  <1>6. CASE NormalizationRaises
    <2>1. /\ stage = "normalizing" /\ rest # <<>> /\ Discard("unnormalizable")
          /\ Unnormalizable(frame.channel, Head(rest))
      BY <1>6 DEF NormalizationRaises
    <2>2. /\ Read + 1 \in 1 .. Len(Records) /\ Head(rest) = Records[Read + 1]
          /\ Read \in Nat /\ Records \in Seq(AnyRecord)
      BY <2>1, NextRecord
    <2>3. ASSUME NEW i \in DOMAIN Records
          PROVE  ~ Fatal(i)
      <3>1. i \in 1 .. Read \/ Read + 1 \in 1 .. i
        BY <2>2
      <3>2. CASE i \in 1 .. Read
        BY <2>1, <3>2, NoneBeforeWasImpossible DEF Fatal
      <3>3. CASE Read + 1 \in 1 .. i
        BY <2>1, <2>2, <3>3 DEF Fatal
      <3>. QED  BY <3>1, <3>2, <3>3
    <2>. QED  BY <2>1, <2>3, DiscardKeeps
  <1>7. CASE SchemaRaises
    <2>1. /\ stage = "normalizing" /\ rest # <<>> /\ Discard("rejected")
          /\ ~ Unnormalizable(frame.channel, Head(rest)) /\ Rejected(frame.channel, Head(rest))
      BY <1>7 DEF SchemaRaises
    <2>2. /\ Read + 1 \in 1 .. Len(Records) /\ Head(rest) = Records[Read + 1]
          /\ Read \in Nat /\ Records \in Seq(AnyRecord) /\ IsRecord(frame.channel, Head(rest))
      BY <2>1, NextRecord
    <2>3. RecordImpossible(Records[Read + 1])
      BY <2>1, <2>2, RecordFacts
    <2>4. \A j \in 1 .. Read + 1 : ~ Unnormalizable(frame.channel, Records[j])
      <3>1. \A j \in 1 .. Read + 1 : j \in 1 .. Read \/ j = Read + 1
        BY <2>2
      <3>. QED  BY Zenon, <2>1, <2>2, <3>1, NoneBeforeWasImpossible
    <2>5. Fatal(Read + 1) /\ Read + 1 \in DOMAIN Records
      BY <2>2, <2>3, <2>4 DEF Fatal
    <2>. QED  BY <2>1, <2>5, DiscardKeeps
  <1>8. CASE NormalizeRecord
    <2> DEFINE r == Head(rest)
               ms == MarketEventsOf(frame.channel, r)
               ts == TraderEventsOf(frame.channel, r)
    <2>1. /\ stage = "normalizing" /\ rest # <<>> /\ frame' = frame /\ stage' = stage
          /\ ~ Unnormalizable(frame.channel, r) /\ ~ Rejected(frame.channel, r)
          /\ market' = market \o ms /\ traders' = traders \o ts /\ rest' = Tail(rest)
          /\ verdicts' = verdicts /\ outcome' = outcome
      BY <1>8 DEF NormalizeRecord
    <2>2. /\ Records \in Seq(AnyRecord) /\ Len(Records) \in Nat /\ Read \in Nat
          /\ Read + 1 \in 1 .. Len(Records)
          /\ r = Records[Read + 1] /\ IsRecord(frame.channel, r)
          /\ Tail(rest) \in Seq(AnyRecord) /\ Len(Tail(rest)) = Len(rest) - 1
          /\ \A i \in DOMAIN Tail(rest) : Tail(rest)[i] = Records[Read + 1 + i]
      BY <2>1, NextRecord
    <2>3. /\ ms \in Seq(MarketEvent) /\ ts \in Seq(TraderEvents)
          /\ \A i \in DOMAIN ms : ms[i].time # Null => ms[i].time > 0
      BY <2>1, <2>2, RecordFacts
    <2>4. market \in Seq(MarketEvent) /\ traders \in Seq(TraderEvents) /\ rest \in Seq(AnyRecord)
      BY <1>1 DEF NormalizationTypeOK
    <2>5. \A i \in DOMAIN ms : PossibleMarketEvent(ms[i])
      BY <2>1 DEF Rejected
    <2> HIDE DEF r, ms, ts
    <2>6. verdicts = <<>> /\ outcome = Null
      BY <1>1, <2>1 DEF NothingYet
    <2>7. market' \in Seq(MarketEvent) /\ traders' \in Seq(TraderEvents)
      BY <2>1, <2>3, <2>4, ConcatProperties
    <2>8. NormalizationTypeOK'
      BY <1>1, <2>1, <2>2, <2>7 DEF NormalizationTypeOK
    <2>9. NothingYet'
      BY <2>1, <2>6 DEF NothingYet
    <2>10. Records' = Records /\ Read' = Read + 1
      <3>1. Records' = Records
        BY <2>1, SameFrame
      <3>2. Len(rest) \in Nat /\ Len(rest') = Len(rest) - 1
        BY <2>1, <2>2, <2>4
      <3>. QED  BY <2>2, <3>1, <3>2 DEF Read
    <2>11. FactsUpTo(Read)'
      <3>1. PICK k \in Nat : k = Read
        BY <2>2
      <3>2. FactsUpTo(k + 1)'
        BY <1>8, <3>1, FactsOfNext
      <3>3. Read' = k + 1
        BY <2>10, <3>1
      <3>. QED  BY <3>2, <3>3 DEF FactsUpTo, TradeFacts, WalletsUpTo
    <2>12. ReadSoFar'
      <3>1. FrameReadable(frame)' /\ IsData(frame)'
        BY <1>1, <2>1, SameFrame DEF ReadSoFar
      <3>2. Read' \in 0 .. Len(Records')
        BY <2>2, <2>10
      <3>3. \A i \in DOMAIN rest' : rest'[i] = Records'[Read' + i]
        BY Zenon, <2>1, <2>2, <2>10
      <3>4. \A i \in 1 .. Read :
               ~ Unnormalizable(frame.channel, Records[i]) /\ ~ Rejected(frame.channel, Records[i])
        BY <1>1, <2>1 DEF ReadSoFar
      <3>5. \A i \in 1 .. Read + 1 : i \in 1 .. Read \/ i = Read + 1
        BY <2>2
      <3>6. \A i \in 1 .. Read' :
               ~ Unnormalizable(frame'.channel, Records'[i]) /\ ~ Rejected(frame'.channel, Records'[i])
        BY Zenon, <2>1, <2>2, <2>10, <3>4, <3>5
      <3>. QED  BY Zenon, <2>11, <3>1, <3>2, <3>3, <3>6 DEF ReadSoFar
    <2>13. EventsSound'
      <3>1. \A i \in DOMAIN ms : EventSound(ms[i])
        BY <2>3, <2>5 DEF EventSound
      <3>2. /\ Len(market) \in Nat /\ Len(ms) \in Nat /\ DOMAIN ms = 1 .. Len(ms)
            /\ DOMAIN market = 1 .. Len(market)
        BY <2>3, <2>4
      <3>3. /\ DOMAIN market' = 1 .. Len(market) + Len(ms)
            /\ \A i \in 1 .. Len(market) + Len(ms) :
                  market'[i] = IF i <= Len(market) THEN market[i] ELSE ms[i - Len(market)]
        <4>1. market' = market \o ms
          BY <2>1
        <4>. QED  BY <2>3, <2>4, <4>1, ConcatProperties
      <3>4. ASSUME NEW i \in DOMAIN market'
            PROVE  EventSound(market'[i])
        <4>1. CASE i <= Len(market)
          <5>1. i \in DOMAIN market /\ market'[i] = market[i]
            BY <3>2, <3>3, <4>1
          <5>. QED  BY Zenon, <1>1, <5>1 DEF EventsSound
        <4>2. CASE ~ (i <= Len(market))
          <5>1. i - Len(market) \in DOMAIN ms /\ market'[i] = ms[i - Len(market)]
            BY <3>2, <3>3, <4>2
          <5>. QED  BY Zenon, <3>1, <5>1
        <4>. QED  BY <4>1, <4>2
      <3>. QED  BY Zenon, <3>4 DEF EventsSound
    <2>14. VerdictsFollow'
      BY <2>1, <2>6, <2>7 DEF VerdictsFollow
    <2>15. RejectedForCause' /\ FactsComplete'
      BY <2>1 DEF RejectedForCause, FactsComplete
    <2>16. UsableIsPlausible'
      BY <2>1, <2>6 DEF UsableIsPlausible
    <2>. QED  BY <2>8, <2>9, <2>12, <2>13, <2>14, <2>15, <2>16 DEF NormalizationIInv
  <1>9. CASE Normalized
    <2>1. /\ stage = "normalizing" /\ rest = <<>> /\ outcome' = "data" /\ stage' = "assessing"
          /\ frame' = frame /\ rest' = rest /\ market' = market /\ traders' = traders
          /\ verdicts' = verdicts
      BY <1>9 DEF Normalized
    <2>2. NormalizationTypeOK'
      BY <1>1, <2>1 DEF NormalizationTypeOK
    <2>3. NothingYet' /\ ReadSoFar' /\ VerdictsFollow'
      BY <1>1, <2>1 DEF NothingYet, ReadSoFar, VerdictsFollow
    <2>4. EventsSound'
      BY <1>1, <2>1 DEF EventsSound
    <2>5. RejectedForCause'
      <3>1. \A i \in DOMAIN Records : i \in 1 .. Read
        <4>1. Records \in Seq(AnyRecord) /\ Len(Records) \in Nat
          BY <1>1, <2>1, RecordsAreTyped DEF Records, ReadSoFar, NormalizationTypeOK
        <4>2. Read = Len(Records)
          BY <2>1, <4>1 DEF Read
        <4>. QED  BY <4>1, <4>2
      <3>2. ~ \E i \in DOMAIN Records : Fatal(i)
        BY Zenon, <2>1, <3>1, NoneBeforeWasImpossible DEF Fatal
      <3>3. Records' = Records /\ \A i : Fatal(i)' <=> Fatal(i)
        BY <2>1, SameFrame
      <3>4. RejectedForCause' <=>
               (stage' \in {"assessing", "done"} /\ FrameReadable(frame)' /\ IsData(frame)' =>
                  (outcome' = "rejected" <=> \E i \in DOMAIN Records' : Fatal(i)'))
        BY Zenon DEF RejectedForCause, Fatal, Records
      <3>5. outcome' # "rejected"
        BY <2>1
      <3>. QED  BY Zenon, <3>2, <3>3, <3>4, <3>5
    <2>6. FactsComplete'
      <3>1. EveryFact'
        BY <2>1, FactsOfAll, SameFacts
      <3>. QED  BY <2>1, <3>1 DEF FactsComplete
    <2>7. UsableIsPlausible'
      BY <1>2, <2>1 DEF UsableIsPlausible
    <2>. QED  BY <2>2, <2>3, <2>4, <2>5, <2>6, <2>7 DEF NormalizationIInv
  <1>10. CASE Assess
    <2>1. /\ stage = "assessing" /\ Len(verdicts) < Len(market) /\ frame' = frame
          /\ stage' = stage /\ rest' = rest /\ market' = market /\ traders' = traders
          /\ outcome' = outcome
      BY <1>10 DEF Assess
    <2> DEFINE next == Len(verdicts) + 1
    <2>2. PICK reading \in ReadingsOfNow :
             verdicts' = Append(verdicts, Verdict(market[next], ReceivedAt, reading))
      BY <1>10 DEF Assess
    <2> DEFINE v == Verdict(market[next], ReceivedAt, reading)
    <2>3. v \in {"VALID", "WARNING", "INVALID"}
      BY Zenon, VerdictFacts
    <2>4. verdicts \in Seq({"VALID", "WARNING", "INVALID"}) /\ market \in Seq(MarketEvent)
      BY <1>1 DEF NormalizationTypeOK
    <2>5. next \in DOMAIN market
      BY <2>1, <2>4
    <2>6. EventSound(market[next])
      BY Zenon, <1>1, <2>5 DEF EventsSound
    <2>7. v = "VALID" => Plausible(market[next])
      BY Zenon, <2>6, ValidIsPlausible
    <2> HIDE DEF v
    <2>8. /\ verdicts' \in Seq({"VALID", "WARNING", "INVALID"})
          /\ Len(verdicts') = next /\ DOMAIN verdicts' = 1 .. next
          /\ \A i \in 1 .. Len(verdicts) : verdicts'[i] = verdicts[i]
          /\ verdicts'[next] = v
      <3>1. verdicts' = Append(verdicts, v)
        BY Zenon, <2>2 DEF v
      <3>. QED  BY <2>3, <2>4, <3>1, AppendProperties
    <2>9. NormalizationTypeOK'
      BY <1>1, <2>1, <2>8 DEF NormalizationTypeOK
    <2>10. NothingYet' /\ ReadSoFar'
      BY <2>1 DEF NothingYet, ReadSoFar
    <2>11. EventsSound'
      BY <1>1, <2>1 DEF EventsSound
    <2>12. VerdictsFollow'
      BY <2>1, <2>4, <2>8 DEF VerdictsFollow
    <2>13. RejectedForCause'
      BY <2>1, CauseKept
    <2>14. FactsComplete'
      BY <1>2, <2>1, SameFacts DEF FactsComplete
    <2>15. UsableIsPlausible'
      <3>1. \A i \in 1 .. next : i \in 1 .. Len(verdicts) \/ i = next
        BY <2>4
      <3>2. ASSUME NEW i \in DOMAIN verdicts', UsableForTraining(verdicts'[i])
            PROVE  Plausible(market'[i])
        <4>1. CASE i \in 1 .. Len(verdicts)
          <5>1. i \in DOMAIN verdicts /\ UsableForTraining(verdicts[i])
            BY <2>4, <2>8, <3>2, <4>1
          <5>. QED  BY Zenon, <1>2, <2>1, <5>1 DEF UsableIsPlausible
        <4>2. CASE i = next
          BY <2>1, <2>7, <2>8, <3>2, <4>2 DEF UsableForTraining
        <4>. QED  BY <2>8, <3>1, <4>1, <4>2
      <3>. QED  BY Zenon, <3>2 DEF UsableIsPlausible
    <2>. QED
      BY <2>9, <2>10, <2>11, <2>12, <2>13, <2>14, <2>15 DEF NormalizationIInv
  <1>11. CASE Assessed
    <2>1. /\ stage = "assessing" /\ stage' = "done" /\ frame' = frame /\ rest' = rest
          /\ market' = market /\ traders' = traders /\ verdicts' = verdicts /\ outcome' = outcome
      BY <1>11 DEF Assessed
    <2>2. NormalizationTypeOK' /\ NothingYet' /\ ReadSoFar' /\ VerdictsFollow'
      BY <1>1, <2>1 DEF NormalizationTypeOK, NothingYet, ReadSoFar, VerdictsFollow
    <2>3. EventsSound'
      BY <1>1, <2>1 DEF EventsSound
    <2>4. RejectedForCause'
      BY <2>1, CauseKept
    <2>5. FactsComplete'
      BY <1>2, <2>1, SameFacts DEF FactsComplete
    <2>6. UsableIsPlausible'
      BY <1>2, <2>1 DEF UsableIsPlausible
    <2>. QED  BY <2>2, <2>3, <2>4, <2>5, <2>6 DEF NormalizationIInv
  <1>12. CASE UNCHANGED normalizationVars
    <2>1. /\ frame' = frame /\ stage' = stage /\ rest' = rest /\ market' = market
          /\ traders' = traders /\ verdicts' = verdicts /\ outcome' = outcome
      BY <1>12 DEF normalizationVars
    <2>2. NormalizationTypeOK' /\ NothingYet' /\ VerdictsFollow'
      BY <1>1, <2>1 DEF NormalizationTypeOK, NothingYet, Empty, VerdictsFollow
    <2>3. ReadSoFar'
      BY <1>1, <2>1 DEF ReadSoFar, Read, Records, FactsUpTo, TradeFacts, WalletsUpTo
    <2>4. EventsSound'
      BY <1>1, <2>1 DEF EventsSound
    <2>5. RejectedForCause'
      <3>1. CASE stage \in {"assessing", "done"}
        BY <2>1, <3>1, CauseKept
      <3>2. CASE stage \notin {"assessing", "done"}
        BY <2>1, <3>2 DEF RejectedForCause
      <3>. QED  BY <3>1, <3>2
    <2>6. FactsComplete'
      BY <1>2, <2>1, SameFacts DEF FactsComplete
    <2>7. UsableIsPlausible'
      BY <1>2, <2>1 DEF UsableIsPlausible
    <2>. QED  BY <2>2, <2>3, <2>4, <2>5, <2>6, <2>7 DEF NormalizationIInv
  <1>. QED
    BY <1>3, <1>4, <1>5, <1>6, <1>7, <1>8, <1>9, <1>10, <1>11, <1>12 DEF NormalizationNext

----------------------------------------------------------------------------
(* The inductive invariant of a frame on its way.                          *)
THEOREM NormalizationInvariance == NormalizationSpec => []NormalizationIInv
  <1>. QED  BY NormalizationStarts, NormalizationSteps, PTL DEF NormalizationSpec

(* Of the frames that parse, exactly those with an impossible number, and  *)
(* nothing that is caught before it, end in a ValidationError (normalize(),*)
(* the validators of the two schemas).                                     *)
THEOREM RejectionsHaveACause == NormalizationSpec => []RejectedForCause
  <1>. QED  BY NormalizationInvariance, PTL DEF NormalizationIInv

(* Of every frame the events and the verdicts are of their types.          *)
THEOREM NormalizationTypeCorrect == NormalizationSpec => []NormalizationTypeOK
  <1>. QED  BY NormalizationInvariance, PTL DEF NormalizationIInv

(* normalize() yields every fact of a frame or none: an event for each     *)
(* trade and for each wallet named in it, for each populated variable of a *)
(* context, one for a quote.                                               *)
THEOREM AllFactsOrNone == NormalizationSpec => []FactsComplete
  <1>. QED  BY NormalizationInvariance, PTL DEF NormalizationIInv

(* The venue-time check, the schemas and the quality engine together let   *)
(* only plausible events count as usable for training.                     *)
THEOREM TrainingDataIsPlausible == NormalizationSpec => []UsableIsPlausible
  <1>. QED  BY NormalizationInvariance, PTL DEF NormalizationIInv
=============================================================================
