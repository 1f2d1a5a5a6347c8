---------------------------- MODULE AssetDetail ----------------------------
(***************************************************************************)
(* The candles of an asset as a client gets them (resolve_recent_candles   *)
(* of app/client_api.py): a request reads the runtime's status and the     *)
(* candles of up to two intervals in steps of their own, while the runtime *)
(* writes candles and falls back to another source.                        *)
(*                                                                         *)
(* Followed up to the answer.                                              *)
(* Bounds: Lengths (candles of an interval), CandleLimits.                 *)
(***************************************************************************)
EXTENDS Integers, FiniteSetsExt

CONSTANTS
  Intervals, SourceOf,   \* interval_type values, and _interval_source of them
  ScannerInterval,       \* DISCOVERABLE_SCANNER_INTERVAL
  Lengths,               \* how many candles an interval may have
  CandleLimits,          \* the candle_limit of a request, which nothing bounds
  NoInterval             \* an interval that is left out or not known

ASSUME IntervalAssumption ==
  /\ IsFiniteSet(Intervals) /\ ScannerInterval \in Intervals /\ DOMAIN SourceOf = Intervals
  /\ 0 \in Lengths /\ Lengths \subseteq Nat /\ CandleLimits \subseteq Int
  /\ NoInterval \notin Intervals

VARIABLES
  realtime,    \* instruments.has_realtime_feed of the symbol
  active,      \* the interval the runtime's status leads to
  candles,     \* table candles: how many each interval has
  detail,      \* request: new, before its first or second query, answered
  requested, limit,   \* what it asks for
  fallback,    \* default_interval_type_for_symbol, as read when it began
  shown, applied, found,   \* interval_type, interval_fallback_applied, candles
  hadCandles,  \* history: the fallback interval had candles when it began
  activeDuring \* history: the default intervals since it began

detailVars == <<realtime, active, candles, detail, requested, limit, fallback, shown,
                applied, found, hadCandles, activeDuring>>

TypeOKDetail ==
  /\ realtime \in BOOLEAN /\ active \in Intervals \cup {NoInterval}
  /\ candles \in [Intervals -> Lengths]
  /\ detail \in {"new", "first", "second", "answered"}
  /\ {requested, fallback, shown} \cup activeDuring \subseteq Intervals \cup {NoInterval}
  /\ limit \in CandleLimits \cup {0}
  /\ {applied, hadCandles} \subseteq BOOLEAN
  /\ found \in Nat /\ (limit >= 0 => found <= limit)

InitDetail ==
  /\ realtime \in BOOLEAN /\ active \in Intervals \cup {NoInterval}
  /\ candles = [i \in Intervals |-> 0]
  /\ detail = "new" /\ requested = NoInterval /\ limit = 0 /\ fallback = NoInterval
  /\ shown = NoInterval /\ applied = FALSE /\ found = 0 /\ hadCandles = FALSE
  /\ activeDuring = {}

table   == <<realtime, active, candles>>
request == <<detail, requested, limit, fallback, shown, applied, found, hadCandles>>

-----------------------------------------------------------------------------
(* default_interval_type_for_symbol. *)
DefaultInterval == IF realtime THEN active ELSE ScannerInterval

(* upsert_candle, by the source that is active. *)
UpsertCandles ==
  /\ detail # "answered" /\ DefaultInterval # NoInterval
  /\ \E n \in Lengths :
       /\ n > candles[DefaultInterval]
       /\ candles' = [candles EXCEPT ![DefaultInterval] = n]
  /\ UNCHANGED <<realtime, active, request, activeDuring>>

(* The runtime starts an engine, or falls back to the simulator. *)
SwitchSource ==
  /\ detail # "answered"
  /\ active' \in Intervals \ {active, ScannerInterval}
  /\ UNCHANGED <<realtime, candles, request>>
  /\ activeDuring' = activeDuring \cup IF detail = "new" THEN {} ELSE {DefaultInterval'}

-----------------------------------------------------------------------------
(* Table candles, and how many fetch_recent_candles returns: no interval at   *)
(* all is any interval.  A negative LIMIT is none in SQLite; PostgreSQL        *)
(* refuses it, and the request has no answer.                                  *)
Rows == UNION {{i} \X (1..candles[i]) : i \in Intervals}
AtMost(rows) == IF limit < 0 THEN rows ELSE Min({limit, rows})
Fetched(interval) ==
  AtMost(IF interval = NoInterval THEN Cardinality(Rows) ELSE candles[interval])

(* The end of resolve_recent_candles. *)
Resolved(interval, is_fallback) ==
  /\ shown' = interval /\ applied' = is_fallback /\ found' = Fetched(interval)
  /\ detail' = "answered"

\* Mutant: an interval is only given up if it has no candles.
NeverMind == FALSE

(* Both are given, and requested_source = fallback_source. *)
OtherSource ==
  /\ requested # NoInterval /\ fallback # NoInterval
  /\ SourceOf[requested] # SourceOf[fallback]

(* The request arrives and reads the runtime's status, taken here for one step. *)
BeginDetail ==
  /\ detail = "new"
  /\ requested' \in Intervals \cup {NoInterval} /\ limit' \in CandleLimits
  /\ fallback' = DefaultInterval /\ activeDuring' = {DefaultInterval}
  /\ hadCandles' = (DefaultInterval # NoInterval /\ candles[DefaultInterval] > 0)
  /\ detail' = "first"
  /\ UNCHANGED <<table, shown, applied, found>>

(* An interval of a source that is not active is not even looked for. *)
ReadActiveSource ==
  /\ detail = "first" /\ OtherSource
  /\ Resolved(fallback, TRUE)
  /\ UNCHANGED <<table, requested, limit, fallback, hadCandles, activeDuring>>

ResolvedInterval == IF requested = NoInterval THEN fallback ELSE requested

ReadRequested ==
  /\ detail = "first" /\ ~OtherSource
  /\ IF /\ requested # NoInterval /\ fallback # NoInterval /\ requested # fallback
        /\ Fetched(requested) = 0
     THEN detail' = "second" /\ UNCHANGED <<shown, applied, found>>
     ELSE Resolved(ResolvedInterval, FALSE)
  /\ UNCHANGED <<table, requested, limit, fallback, hadCandles, activeDuring>>

ReadFallback ==
  /\ detail = "second"
  /\ IF Fetched(fallback) > 0
     THEN Resolved(fallback, TRUE)
     ELSE shown' = requested /\ applied' = FALSE /\ found' = 0 /\ detail' = "answered"
  /\ UNCHANGED <<table, requested, limit, fallback, hadCandles, activeDuring>>

NextDetail ==
  \/ UpsertCandles \/ SwitchSource \/ BeginDetail
  \/ ReadActiveSource \/ ReadRequested \/ ReadFallback

-----------------------------------------------------------------------------
(* However the source changes and candles arrive while it is read, an answer   *)
(* shows candles of a source that was the active one at some moment of the     *)
(* request, unless there was none, and those of any interval only if it asks   *)
(* for none either; it says so exactly when it is not the interval asked for,  *)
(* and is empty only if the active interval had no candles when it began, or   *)
(* none were asked for (client_api.py:151, main.py:262).                       *)
ActiveSourceShown ==
  detail = "answered" =>
    /\ applied <=> requested # NoInterval /\ shown # requested
    /\ shown = NoInterval => requested = NoInterval /\ NoInterval \in activeDuring
    /\ NoInterval \notin activeDuring => \E i \in activeDuring : SourceOf[shown] = SourceOf[i]
    /\ hadCandles /\ limit # 0 => found > 0
=============================================================================
