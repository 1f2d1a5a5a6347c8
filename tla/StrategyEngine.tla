--------------------------- MODULE StrategyEngine ---------------------------
(***************************************************************************)
(* What app/strategy_engine.py and evaluate_user_signal_profile of         *)
(* app/client_api.py conclude from the candles of a symbol: the signals    *)
(* the strategies decide on, and the verdict of a user's own profile.      *)
(*                                                                         *)
(* Abstracted: prices.  A snapshot says of them what the rules ask: which  *)
(* Bollinger band the close is near, and whether SMA5 is above SMA20.      *)
(* Volumes are tenths of the average over 20 candles.                      *)
(* Bounds: CandleCounts, RsiValues, VolumeValues, and the thresholds.      *)
(***************************************************************************)
EXTENDS Naturals, FiniteSets

CONSTANTS
  CandleCounts,        \* how many candles are read
  RsiValues,           \* values of RSI(14), whole numbers
  VolumeValues,        \* volumes, in tenths of the average
  RsiThresholds, Multipliers, ScoreThresholds,
  None

ASSUME ThresholdAssumption ==
  /\ CandleCounts \subseteq Nat
  /\ RsiValues \subseteq 0..100 /\ VolumeValues \subseteq Nat
  /\ RsiThresholds \subseteq 1..99 /\ Multipliers \subseteq 10..100
  /\ ScoreThresholds \subseteq 1..100
  /\ None \notin Nat

VARIABLES
  verdict,   \* the last profile evaluation: candles, RSI, type and score, or None
  decided    \* the last evaluation of a strategy: candles, strategy, decisions, or None

rulesVars == <<verdict, decided>>

Feeds == {"orderbook", "derivatives"}

(* Rows of strategies and user_signal_profiles, and has_orderbook_feed and    *)
(* has_derivatives_feed of an instrument, as sets.                            *)
Strategy ==
  [rule_type: {"rsi_reversion", "golden_cross", "score_combo"},
   buy: RsiThresholds \cup {None}, sell: RsiThresholds \cup {None},
   multiplier: Multipliers \cup {None}, score: ScoreThresholds \cup {None}]
Profile ==
  [is_enabled: BOOLEAN, buy: RsiThresholds, sell: RsiThresholds,
   multiplier: Multipliers, score: ScoreThresholds, uses: SUBSET Feeds]

\* Mutant: RSI takes as many candles as the bands, and one more.
RsiLikeBands(n) == n > 20

(* The numbers of candles that sma, bollinger and rsi need. *)
HasRsi(n) == n > 14
HasBands(n) == n >= 20
HasAverage(n) == n >= 20
HasPrevious(n) == n > 20

(* build_snapshot of n candles; n is at least 1. *)
Snapshots(n) ==
  [rsi: IF HasRsi(n) THEN RsiValues ELSE {None},
   volume: IF HasAverage(n) THEN VolumeValues ELSE {None},
   near: IF HasBands(n) THEN SUBSET {"lower", "upper"} ELSE {{}},
   bands: {HasBands(n)},
   leads: IF HasAverage(n) THEN BOOLEAN ELSE {None},     \* SMA5 > SMA20
   led: IF HasPrevious(n) THEN BOOLEAN ELSE {None}]      \* one candle earlier

OrElse(value, default) == IF value = None THEN default ELSE value
Decision(type, score)  == [type |-> type, score |-> score]

-----------------------------------------------------------------------------
\* Mutant: a missing sell threshold is filled in like the buy threshold.
SellLikeBuy(strategy) == OrElse(strategy.sell, 35)

BuyThreshold(strategy) == OrElse(strategy.buy, 35)
SellThreshold(strategy) == OrElse(strategy.sell, 68)

RsiReversion(snapshot, strategy) ==
  IF None \in {snapshot.rsi, snapshot.volume} \/ ~snapshot.bands THEN {}
  ELSE (IF /\ snapshot.rsi < BuyThreshold(strategy)
           /\ "lower" \in snapshot.near
           /\ snapshot.volume >= OrElse(strategy.multiplier, 12)
        THEN {Decision("BUY", 82)} ELSE {})
       \cup
       (IF snapshot.rsi > SellThreshold(strategy) /\ "upper" \in snapshot.near
        THEN {Decision("SELL", 76)} ELSE {})

GoldenCross(snapshot) ==
  IF None \notin {snapshot.leads, snapshot.led} /\ ~snapshot.led /\ snapshot.leads
  THEN {Decision("BUY", 74)} ELSE {}

Points(holds, points) == IF holds THEN points ELSE 0

ScoreCombo(snapshot, strategy) ==
  LET score ==
        Points(snapshot.rsi # None /\ snapshot.rsi < OrElse(strategy.buy, 40), 30)
        + Points(snapshot.volume # None /\ snapshot.volume >= OrElse(strategy.multiplier, 13), 20)
        + Points("lower" \in snapshot.near, 25)
        + Points(snapshot.leads # None /\ snapshot.leads, 25)
  IN IF score >= OrElse(strategy.score, 70) THEN {Decision("BUY", score)} ELSE {}

(* The turn of evaluate_strategies for an active strategy. *)
Decisions(snapshot, strategy) ==
  CASE strategy.rule_type = "rsi_reversion" -> RsiReversion(snapshot, strategy)
    [] strategy.rule_type = "golden_cross"  -> GoldenCross(snapshot)
    [] strategy.rule_type = "score_combo"   -> ScoreCombo(snapshot, strategy)

-----------------------------------------------------------------------------
(* evaluate_user_signal_profile: snapshot None if there are no candles.       *)
BuyScore(snapshot, profile) ==
  Points(snapshot.rsi # None /\ snapshot.rsi <= profile.buy, 35)
  + Points(snapshot.volume # None /\ snapshot.volume >= profile.multiplier, 20)
  + Points("lower" \in snapshot.near, 25)
  + Points(snapshot.leads # None /\ snapshot.leads, 20)

SellScore(snapshot, profile) ==
  Points(snapshot.rsi # None /\ snapshot.rsi >= profile.sell, 35)
  + Points("upper" \in snapshot.near, 25)

Verdict(snapshot, feeds, profile) ==
  IF ~profile.is_enabled THEN Decision("DISABLED", 0)
  ELSE IF snapshot = None \/ ~(profile.uses \subseteq feeds) THEN Decision("UNAVAILABLE", 0)
  ELSE LET buy  == BuyScore(snapshot, profile)
           sell == SellScore(snapshot, profile)
       IN IF sell >= profile.score THEN Decision("SELL", sell)
          ELSE IF buy >= profile.score THEN Decision("BUY", buy)
          ELSE Decision("WATCH", IF sell > buy THEN sell ELSE buy)

-----------------------------------------------------------------------------
TypeOKRules ==
  /\ verdict \in {None} \cup
       [candles: CandleCounts, rsi: RsiValues \cup {None},
        type: {"DISABLED", "UNAVAILABLE", "SELL", "BUY", "WATCH"}, score: 0..100]
  /\ decided \in {None} \cup
       [candles: CandleCounts, strategy: Strategy,
        decisions: SUBSET [type: {"BUY", "SELL"}, score: 0..100]]

InitRules == verdict = None /\ decided = None

(* The overview and the asset detail evaluate the profile of their user. *)
EvaluateProfile(n) ==
  /\ rulesVars = <<None, None>>
  /\ \E feeds \in SUBSET Feeds, profile \in Profile :
     \E snapshot \in IF n = 0 THEN {None} ELSE Snapshots(n) :
       LET concluded == Verdict(snapshot, feeds, profile) IN
       verdict' = [candles |-> n, rsi |-> IF snapshot = None THEN None ELSE snapshot.rsi,
                   type |-> concluded.type, score |-> concluded.score]
  /\ UNCHANGED decided

(* evaluate_symbol_and_broadcast, up to the decisions of one strategy. *)
EvaluateSymbol(n) ==
  /\ rulesVars = <<None, None>> /\ n >= 20
  /\ \E snapshot \in Snapshots(n), strategy \in Strategy :
       decided' = [candles |-> n, strategy |-> strategy,
                   decisions |-> Decisions(snapshot, strategy)]
  /\ UNCHANGED verdict

NextRules == \E n \in CandleCounts : EvaluateProfile(n) \/ EvaluateSymbol(n)

(* The text of a SELL verdict formats the RSI, so it needs one; and no profile *)
(* speaks up on fewer candles than its indicators take, however low the score  *)
(* it asks for (client_api.py:252).                                            *)
VerdictsFounded ==
  verdict # None =>
    /\ verdict.type = "SELL" => verdict.rsi # None
    /\ verdict.type \in {"BUY", "SELL"} => verdict.candles > 14

(* A strategy advises to buy and to sell at once only if the thresholds in     *)
(* force, its own or the default for one it leaves out, sell below the level   *)
(* at which they buy.  They may: a default may contradict the threshold that   *)
(* is given (strategy_engine.py:73).                                           *)
OneSided ==
  decided # None /\ {"BUY", "SELL"} \subseteq {d.type : d \in decided.decisions} =>
    OrElse(decided.strategy.sell, 68) < OrElse(decided.strategy.buy, 35)
=============================================================================
