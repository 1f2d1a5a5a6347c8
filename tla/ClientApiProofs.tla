-------------------------- MODULE ClientApiProofs --------------------------
(***************************************************************************)
(* Theorems about ClientApi, for any signals, filters, page sizes,         *)
(* intervals, candles and thresholds.                                      *)
(***************************************************************************)
EXTENDS ClientApi, FiniteSetTheorems, TLAPS

-----------------------------------------------------------------------------
(* The rules. *)

(* What a snapshot of n candles can say. *)
LEMMA SnapshotFacts ==
  ASSUME NEW n \in CandleCounts, NEW snapshot \in Snapshots(n)
  PROVE  /\ n \in Nat
         /\ snapshot.rsi # None => snapshot.rsi \in Nat
         /\ snapshot.volume # None => snapshot.volume \in Nat
         /\ snapshot.rsi \in RsiValues \cup {None} /\ (HasRsi(n) <=> snapshot.rsi # None)
         /\ ~HasRsi(n) => /\ snapshot.volume = None /\ snapshot.leads = None
                          /\ snapshot.near = {}
<1>1. n \in Nat /\ RsiValues \subseteq Nat /\ VolumeValues \subseteq Nat /\ None \notin Nat
  BY ThresholdAssumption
<1>2. /\ snapshot.rsi \in IF HasRsi(n) THEN RsiValues ELSE {None}
      /\ snapshot.volume \in IF HasAverage(n) THEN VolumeValues ELSE {None}
      /\ snapshot.near \in IF HasBands(n) THEN SUBSET {"lower", "upper"} ELSE {{}}
      /\ snapshot.leads \in IF HasAverage(n) THEN BOOLEAN ELSE {None}
  BY DEF Snapshots
<1>3. ~HasRsi(n) => ~HasAverage(n) /\ ~HasBands(n)
  BY <1>1 DEF HasRsi, HasAverage, HasBands
<1>4. snapshot.near = {} <=> snapshot.near \in {{}}
  OBVIOUS
<1>5. snapshot.rsi \in RsiValues \cup {None} /\ (HasRsi(n) <=> snapshot.rsi # None)
  BY <1>1, <1>2 DEF HasRsi
<1>6. snapshot.rsi # None => snapshot.rsi \in Nat
  BY <1>1, <1>5
<1>7. snapshot.volume # None => snapshot.volume \in Nat
  BY <1>1, <1>2
<1> QED  BY <1>1, <1>2, <1>3, <1>4, <1>5, <1>6, <1>7

(* The scores of a profile are bounded; without candles enough for an RSI *)
(* they are zero, and nothing else lets a profile sell on a missing RSI.  *)
LEMMA ScoreFacts ==
  ASSUME NEW n \in CandleCounts, NEW snapshot \in Snapshots(n), NEW profile \in Profile
  PROVE  /\ BuyScore(snapshot, profile) \in 0..100 /\ SellScore(snapshot, profile) \in 0..60
         /\ ~HasRsi(n) => BuyScore(snapshot, profile) = 0 /\ SellScore(snapshot, profile) = 0
<1>1. /\ Points(snapshot.rsi # None /\ snapshot.rsi <= profile.buy, 35) \in {0, 35}
      /\ Points(snapshot.volume # None /\ snapshot.volume >= profile.multiplier, 20) \in {0, 20}
      /\ Points("lower" \in snapshot.near, 25) \in {0, 25}
      /\ Points(snapshot.leads # None /\ snapshot.leads, 20) \in {0, 20}
      /\ Points(snapshot.rsi # None /\ snapshot.rsi >= profile.sell, 35) \in {0, 35}
      /\ Points("upper" \in snapshot.near, 25) \in {0, 25}
  BY DEF Points
<1>2. BuyScore(snapshot, profile) \in 0..100 /\ SellScore(snapshot, profile) \in 0..60
  BY <1>1 DEF BuyScore, SellScore
<1>3. ASSUME ~HasRsi(n)
      PROVE  BuyScore(snapshot, profile) = 0 /\ SellScore(snapshot, profile) = 0
  BY <1>3, SnapshotFacts DEF BuyScore, SellScore, Points
<1> QED  BY <1>2, <1>3

LEMMA VerdictFacts ==
  ASSUME NEW n \in CandleCounts, NEW feeds, NEW profile \in Profile,
         NEW snapshot \in IF n = 0 THEN {None} ELSE Snapshots(n)
  PROVE  LET v == Verdict(snapshot, feeds, profile) IN
         /\ v.type \in {"DISABLED", "UNAVAILABLE", "SELL", "BUY", "WATCH"}
         /\ v.score \in 0..100
         /\ v.type \in {"BUY", "SELL"} => snapshot # None /\ n # 0 /\ HasRsi(n)
<1>1. CASE ~profile.is_enabled \/ snapshot = None \/ ~(profile.uses \subseteq feeds)
  BY <1>1 DEF Verdict, Decision
<1>2. CASE profile.is_enabled /\ snapshot # None /\ profile.uses \subseteq feeds
  <2>1. n # 0 /\ snapshot \in Snapshots(n)
    BY <1>2
  <2>2. profile.score \in 1..100
    BY ThresholdAssumption DEF Profile
  <2>3. /\ BuyScore(snapshot, profile) \in 0..100 /\ SellScore(snapshot, profile) \in 0..60
        /\ ~HasRsi(n) => BuyScore(snapshot, profile) = 0 /\ SellScore(snapshot, profile) = 0
    BY <2>1, ScoreFacts
  <2> QED  BY <1>2, <2>1, <2>2, <2>3 DEF Verdict, Decision
<1> QED  BY <1>1, <1>2

LEMMA DecisionFacts ==
  ASSUME NEW n \in CandleCounts, NEW snapshot \in Snapshots(n), NEW strategy \in Strategy
  PROVE  /\ Decisions(snapshot, strategy) \subseteq [type: {"BUY", "SELL"}, score: 0..100]
         /\ {"BUY", "SELL"} \subseteq {d.type : d \in Decisions(snapshot, strategy)} =>
              OrElse(strategy.sell, 68) < OrElse(strategy.buy, 35)
<1>1. CASE strategy.rule_type = "rsi_reversion"
  <2>1. Decisions(snapshot, strategy) = RsiReversion(snapshot, strategy)
    BY <1>1 DEF Decisions
  <2>2. RsiReversion(snapshot, strategy) \subseteq {Decision("BUY", 82), Decision("SELL", 76)}
    BY DEF RsiReversion
  <2>3. RsiReversion(snapshot, strategy) \subseteq [type: {"BUY", "SELL"}, score: 0..100]
    BY <2>2 DEF Decision
  <2>4. ASSUME {"BUY", "SELL"} \subseteq {d.type : d \in RsiReversion(snapshot, strategy)}
        PROVE  OrElse(strategy.sell, 68) < OrElse(strategy.buy, 35)
    <3>1. Decision("BUY", 82).type = "BUY" /\ Decision("SELL", 76).type = "SELL"
      BY DEF Decision
    <3>2. /\ Decision("BUY", 82) \in RsiReversion(snapshot, strategy)
          /\ Decision("SELL", 76) \in RsiReversion(snapshot, strategy)
      BY <2>2, <2>4, <3>1
    <3>3. /\ snapshot.rsi # None
          /\ snapshot.rsi < BuyThreshold(strategy) /\ snapshot.rsi > SellThreshold(strategy)
      <4>1. ~(None \in {snapshot.rsi, snapshot.volume} \/ ~snapshot.bands)
        BY <3>2 DEF RsiReversion
      <4>2. Decision("BUY", 82) # Decision("SELL", 76)
        BY <3>1
      <4>3. snapshot.rsi < BuyThreshold(strategy)
        BY <3>2, <4>1, <4>2 DEF RsiReversion
      <4>4. snapshot.rsi > SellThreshold(strategy)
        BY <3>2, <4>1, <4>2 DEF RsiReversion
      <4> QED  BY <4>1, <4>3, <4>4
    <3>4. snapshot.rsi \in Nat
      BY <3>3, SnapshotFacts
    <3>5. OrElse(strategy.buy, 35) \in Nat /\ OrElse(strategy.sell, 68) \in Nat
      <4>1. strategy.buy \in RsiThresholds \cup {None} /\ strategy.sell \in RsiThresholds \cup {None}
        BY DEF Strategy
      <4>2. RsiThresholds \subseteq Nat
        BY ThresholdAssumption
      <4> QED  BY <4>1, <4>2 DEF OrElse
    <3> QED  BY <3>3, <3>4, <3>5 DEF BuyThreshold, SellThreshold
  <2> QED  BY <2>1, <2>3, <2>4
<1>2. CASE strategy.rule_type = "golden_cross"
  <2>1. Decisions(snapshot, strategy) = GoldenCross(snapshot)
    BY <1>2 DEF Decisions
  <2>2. Decisions(snapshot, strategy) \subseteq {Decision("BUY", 74)}
    BY <2>1 DEF GoldenCross
  <2>3. Decision("BUY", 74).type # "SELL"
    BY DEF Decision
  <2> QED  BY <2>2, <2>3 DEF Decision
<1>3. CASE strategy.rule_type = "score_combo"
  <2>1. PICK score : /\ score \in 0..100
                     /\ Decisions(snapshot, strategy) \subseteq {Decision("BUY", score)}
    <3>1. /\ Points(snapshot.rsi # None /\ snapshot.rsi < OrElse(strategy.buy, 40), 30) \in {0, 30}
          /\ Points(snapshot.volume # None
                     /\ snapshot.volume >= OrElse(strategy.multiplier, 13), 20) \in {0, 20}
          /\ Points("lower" \in snapshot.near, 25) \in {0, 25}
          /\ Points(snapshot.leads # None /\ snapshot.leads, 25) \in {0, 25}
      BY DEF Points
    <3>2. Decisions(snapshot, strategy) = ScoreCombo(snapshot, strategy)
      BY <1>3 DEF Decisions
    <3> QED  BY <3>1, <3>2 DEF ScoreCombo
  <2>2. Decision("BUY", score).type # "SELL"
    BY DEF Decision
  <2> QED  BY <2>1, <2>2 DEF Decision
<1> QED  BY <1>1, <1>2, <1>3 DEF Strategy

RulesInv == TypeOKRules /\ VerdictsFounded /\ OneSided

LEMMA RulesInit == InitRules => RulesInv
BY DEF InitRules, RulesInv, TypeOKRules, VerdictsFounded, OneSided

LEMMA RulesStep == RulesInv /\ NextRules => RulesInv'
<1> SUFFICES ASSUME RulesInv, NextRules  PROVE RulesInv'
  OBVIOUS
<1>1. PICK n \in CandleCounts : EvaluateProfile(n) \/ EvaluateSymbol(n)
  BY DEF NextRules
<1>2. CASE EvaluateProfile(n)
  <2>1. PICK feeds \in SUBSET Feeds, profile \in Profile,
             snapshot \in IF n = 0 THEN {None} ELSE Snapshots(n) :
          verdict' = [candles |-> n, rsi |-> IF snapshot = None THEN None ELSE snapshot.rsi,
                      type |-> Verdict(snapshot, feeds, profile).type,
                      score |-> Verdict(snapshot, feeds, profile).score]
    BY <1>2 DEF EvaluateProfile
  <2>2. /\ verdict'.candles = n
        /\ verdict'.type = Verdict(snapshot, feeds, profile).type
        /\ verdict'.rsi = IF snapshot = None THEN None ELSE snapshot.rsi
    BY <2>1
  <2>3. n \in Nat /\ (n # 0 => snapshot \in Snapshots(n))
    BY ThresholdAssumption
  <2>4. IF snapshot = None THEN TRUE ELSE snapshot.rsi \in RsiValues \cup {None}
    BY <2>1, <2>3, SnapshotFacts
  <2>5. TypeOKRules'
    BY <1>2, <2>1, <2>4, VerdictFacts DEF RulesInv, TypeOKRules, EvaluateProfile
  <2>6. verdict'.type \in {"BUY", "SELL"} => snapshot # None /\ n # 0 /\ HasRsi(n)
    BY <2>2, VerdictFacts
  <2>7. n # 0 /\ HasRsi(n) => snapshot.rsi # None
    BY <2>3, SnapshotFacts
  <2>8. VerdictsFounded'
    BY <2>2, <2>6, <2>7, <2>3 DEF VerdictsFounded, HasRsi
  <2>9. OneSided'
    BY <1>2 DEF EvaluateProfile, OneSided, RulesInv
  <2> QED  BY <2>5, <2>8, <2>9 DEF RulesInv
<1>3. CASE EvaluateSymbol(n)
  <2>1. PICK snapshot \in Snapshots(n), strategy \in Strategy :
          decided' = [candles |-> n, strategy |-> strategy,
                      decisions |-> Decisions(snapshot, strategy)]
    BY <1>3 DEF EvaluateSymbol
  <2>2. TypeOKRules'
    BY <1>3, <2>1, DecisionFacts DEF RulesInv, TypeOKRules, EvaluateSymbol
  <2>3. OneSided'
    BY <2>1, DecisionFacts DEF OneSided
  <2>4. VerdictsFounded'
    BY <1>3 DEF EvaluateSymbol, VerdictsFounded, RulesInv
  <2> QED  BY <2>2, <2>3, <2>4 DEF RulesInv
<1> QED  BY <1>1, <1>2, <1>3

-----------------------------------------------------------------------------
(* The candles of an asset. *)

LEMMA MinPair ==
  ASSUME NEW a \in Nat, NEW b \in Nat
  PROVE  Min({a, b}) = IF a <= b THEN a ELSE b
BY DEF Min

LEMMA RowsCounted ==
  ASSUME candles \in [Intervals -> Nat]
  PROVE  Cardinality(Rows) \in Nat
<1> DEFINE Of(i) == {i} \X (1..candles[i])
           f == [i \in Intervals |-> Of(i)]
           tables == {Of(i) : i \in Intervals}
<1>1. IsFiniteSet(tables)
  <2>1. f \in Surjection(Intervals, tables)
    BY DEF Surjection
  <2>2. IsFiniteSet(Intervals)
    BY IntervalAssumption
  <2> QED  BY <2>1, <2>2, FS_Surjection
<1>2. \A rows \in tables : IsFiniteSet(rows)
  <2> SUFFICES ASSUME NEW i \in Intervals  PROVE IsFiniteSet(Of(i))
    OBVIOUS
  <2>1. candles[i] \in Nat
    OBVIOUS
  <2>2. IsFiniteSet(1..candles[i])
    BY <2>1, FS_Interval
  <2>3. IsFiniteSet({i})
    BY FS_Singleton
  <2> QED  BY <2>2, <2>3, FS_Product
<1>3. IsFiniteSet(UNION tables)
  BY <1>1, <1>2, FS_UNION
<1> QED  BY <1>3, FS_CardinalityType DEF Rows

(* A request that is under way remembers a default interval it has read and   *)
(* whether that had candles, and reads a second time only after an interval of *)
(* the same source.                                                            *)
RequestInv ==
  /\ detail = "new" => found = 0
  /\ detail \in {"first", "second"} =>
       /\ fallback \in activeDuring
       /\ hadCandles => fallback # NoInterval /\ candles[fallback] > 0
  /\ detail = "second" =>
       /\ requested # NoInterval /\ fallback # NoInterval /\ requested # fallback
       /\ SourceOf[requested] = SourceOf[fallback]

DetailInv == TypeOKDetail /\ RequestInv /\ ActiveSourceShown

LEMMA DetailInit == InitDetail => DetailInv
<1> SUFFICES ASSUME InitDetail  PROVE DetailInv
  OBVIOUS
<1>1. candles \in [Intervals -> Lengths]
  BY IntervalAssumption DEF InitDetail
<1>2. limit \in CandleLimits \cup {0} /\ found \in Nat /\ (limit >= 0 => found <= limit)
  BY DEF InitDetail
<1>3. TypeOKDetail
  BY <1>1, <1>2 DEF InitDetail, TypeOKDetail
<1> QED  BY <1>3 DEF InitDetail, DetailInv, RequestInv, ActiveSourceShown

LEMMA LimitType ==
  ASSUME TypeOKDetail
  PROVE  limit \in Int /\ candles \in [Intervals -> Nat]
<1>1. \A l \in CandleLimits \cup {0} : l \in Int
  BY IntervalAssumption
<1>2. limit \in CandleLimits \cup {0} /\ candles \in [Intervals -> Lengths]
  BY DEF TypeOKDetail
<1>3. candles \in [Intervals -> Nat]
  BY <1>2, IntervalAssumption
<1> QED  BY <1>1, <1>2, <1>3

(* How many candles a read returns. *)
LEMMA FetchedFacts ==
  ASSUME TypeOKDetail, NEW interval \in Intervals \cup {NoInterval}
  PROVE  /\ Fetched(interval) \in Nat /\ (limit >= 0 => Fetched(interval) <= limit)
         /\ interval # NoInterval /\ candles[interval] > 0 /\ limit # 0 => Fetched(interval) > 0
         /\ interval # NoInterval /\ Fetched(interval) > 0 => candles[interval] > 0
<1>1. candles \in [Intervals -> Nat] /\ limit \in Int
  BY LimitType
<1>2. ASSUME NEW rows \in Nat
      PROVE  AtMost(rows) = IF limit < 0 \/ rows < limit THEN rows ELSE limit
  <2>1. limit >= 0 => Min({limit, rows}) = IF limit <= rows THEN limit ELSE rows
    BY <1>1, MinPair
  <2> QED  BY <1>1, <2>1 DEF AtMost
<1>3. CASE interval = NoInterval
  <2>1. Cardinality(Rows) \in Nat /\ Fetched(interval) = AtMost(Cardinality(Rows))
    BY <1>1, <1>3, RowsCounted DEF Fetched
  <2> QED  BY <1>1, <1>2, <1>3, <2>1
<1>4. CASE interval \in Intervals /\ interval # NoInterval
  <2>1. candles[interval] \in Nat /\ Fetched(interval) = AtMost(candles[interval])
    BY <1>1, <1>4 DEF Fetched
  <2> QED  BY <1>1, <1>2, <1>4, <2>1
<1> QED  BY <1>3, <1>4

(* What an answer holds. *)
LEMMA FoundFacts ==
  ASSUME TypeOKDetail, NEW interval \in Intervals \cup {NoInterval}, NEW is_fallback \in BOOLEAN,
         Resolved(interval, is_fallback)
  PROVE  /\ shown' = interval /\ applied' = is_fallback /\ detail' = "answered"
         /\ found' \in Nat /\ (limit >= 0 => found' <= limit)
         /\ interval # NoInterval /\ candles[interval] > 0 /\ limit # 0 => found' > 0
BY FetchedFacts DEF Resolved

LEMMA DetailStep == DetailInv /\ NextDetail => DetailInv'
<1> SUFFICES ASSUME DetailInv, NextDetail  PROVE DetailInv'
  OBVIOUS
<1> USE DEF table, request
<1>0. /\ candles \in [Intervals -> Nat] /\ Lengths \subseteq Nat
      /\ NoInterval \notin Intervals
      /\ CandleLimits \subseteq Int /\ limit \in Int
  BY IntervalAssumption, LimitType DEF DetailInv
<1>1. CASE UpsertCandles
  <2>1. DefaultInterval \in Intervals
    BY <1>1, IntervalAssumption DEF UpsertCandles, DefaultInterval, DetailInv, TypeOKDetail
  <2>2. PICK n \in Lengths : /\ n > candles[DefaultInterval]
                             /\ candles' = [candles EXCEPT ![DefaultInterval] = n]
    BY <1>1 DEF UpsertCandles
  <2>3. \A i \in Intervals : candles[i] > 0 => candles'[i] > 0
    BY <1>0, <2>1, <2>2
  <2>4. TypeOKDetail'
    BY <1>1, <2>2 DEF UpsertCandles, DetailInv, TypeOKDetail
  <2>5. RequestInv'
    BY <1>1, <2>3 DEF UpsertCandles, DetailInv, TypeOKDetail, RequestInv
  <2> QED  BY <1>1, <2>4, <2>5 DEF UpsertCandles, DetailInv, ActiveSourceShown
<1>2. CASE SwitchSource
  <2>1. DefaultInterval' \in Intervals \cup {NoInterval}
    BY <1>2, IntervalAssumption DEF SwitchSource, DefaultInterval, DetailInv, TypeOKDetail
  <2>2. TypeOKDetail'
    BY <1>2, <2>1 DEF SwitchSource, DetailInv, TypeOKDetail
  <2>3. activeDuring \subseteq activeDuring'
    BY <1>2 DEF SwitchSource
  <2> QED  BY <1>2, <2>2, <2>3 DEF SwitchSource, DetailInv, RequestInv, ActiveSourceShown
<1>3. CASE BeginDetail
  <2>1. DefaultInterval \in Intervals \cup {NoInterval}
    BY IntervalAssumption DEF DefaultInterval, DetailInv, TypeOKDetail
  <2>2. found' \in Nat /\ limit' \in Int /\ (limit' >= 0 => found' <= limit')
    BY <1>0, <1>3 DEF BeginDetail, DetailInv, RequestInv
  <2>3. TypeOKDetail'
    BY <1>3, <2>1, <2>2 DEF BeginDetail, DetailInv, TypeOKDetail
  <2>4. RequestInv'
    BY <1>3 DEF BeginDetail, DetailInv, RequestInv
  <2> QED  BY <1>3, <2>3, <2>4 DEF BeginDetail, DetailInv, ActiveSourceShown
<1>4. CASE ReadActiveSource
  <2>1. /\ fallback \in Intervals \cup {NoInterval} /\ fallback # NoInterval
        /\ requested # NoInterval /\ fallback # requested
        /\ detail = "first" /\ Resolved(fallback, TRUE)
        /\ fallback \in activeDuring /\ (hadCandles => candles[fallback] > 0)
        /\ UNCHANGED <<table, requested, limit, fallback, hadCandles, activeDuring>>
    BY <1>4 DEF ReadActiveSource, OtherSource, DetailInv, TypeOKDetail, RequestInv
  <2>2. /\ shown' = fallback /\ applied' = TRUE /\ detail' = "answered"
        /\ found' \in Nat /\ (limit >= 0 => found' <= limit)
        /\ candles[fallback] > 0 /\ limit # 0 => found' > 0
    BY <2>1, FoundFacts DEF DetailInv
  <2>3. TypeOKDetail'
    BY <2>1, <2>2 DEF DetailInv, TypeOKDetail
  <2>4. ActiveSourceShown'
    BY <2>1, <2>2 DEF ActiveSourceShown
  <2> QED  BY <2>2, <2>3, <2>4 DEF DetailInv, RequestInv
<1>5. CASE ReadRequested
  <2>1. /\ detail = "first" /\ ~OtherSource /\ fallback \in activeDuring
        /\ hadCandles => fallback # NoInterval /\ candles[fallback] > 0
        /\ UNCHANGED <<table, requested, limit, fallback, hadCandles, activeDuring>>
    BY <1>5 DEF ReadRequested, DetailInv, RequestInv
  <2>2. CASE /\ requested # NoInterval /\ fallback # NoInterval /\ requested # fallback
             /\ Fetched(requested) = 0
    <3>1. detail' = "second" /\ UNCHANGED <<shown, applied, found>>
      BY <1>5, <2>2 DEF ReadRequested
    <3>2. TypeOKDetail'
      BY <2>1, <3>1 DEF DetailInv, TypeOKDetail
    <3> QED  BY <2>1, <2>2, <3>1, <3>2 DEF DetailInv, RequestInv, ActiveSourceShown, OtherSource
  <2>3. CASE ~(/\ requested # NoInterval /\ fallback # NoInterval /\ requested # fallback
               /\ Fetched(requested) = 0)
    <3>1. Resolved(ResolvedInterval, FALSE) /\ found' = Fetched(ResolvedInterval)
      BY <1>5, <2>3 DEF ReadRequested, Resolved
    <3>2. /\ ResolvedInterval \in Intervals \cup {NoInterval} /\ requested \in Intervals \cup {NoInterval}
          /\ fallback \in Intervals \cup {NoInterval} /\ TypeOKDetail
      BY DEF ResolvedInterval, DetailInv, TypeOKDetail
    <3>3. /\ shown' = ResolvedInterval /\ applied' = FALSE /\ detail' = "answered"
          /\ found' \in Nat /\ (limit >= 0 => found' <= limit)
          /\ ResolvedInterval # NoInterval /\ candles[ResolvedInterval] > 0 /\ limit # 0 => found' > 0
      BY <3>1, <3>2, FoundFacts
    <3>4. TypeOKDetail'
      BY <2>1, <3>2, <3>3 DEF TypeOKDetail
    <3>5. hadCandles /\ limit # 0 => found' > 0
      <4>1. CASE requested = NoInterval \/ requested = fallback
        BY <2>1, <3>3, <4>1 DEF ResolvedInterval
      <4>2. CASE requested # NoInterval /\ requested # fallback
        <5>1. hadCandles => Fetched(requested) # 0
          BY <2>1, <2>3, <4>2
        <5> QED  BY <3>1, <3>3, <4>2, <5>1 DEF ResolvedInterval
      <4> QED  BY <4>1, <4>2
    <3>6. /\ requested # NoInterval => ResolvedInterval = requested
          /\ fallback # NoInterval => /\ ResolvedInterval # NoInterval
                                     /\ SourceOf[ResolvedInterval] = SourceOf[fallback]
          /\ ResolvedInterval = NoInterval => requested = NoInterval /\ fallback = NoInterval
      BY <2>1 DEF OtherSource, ResolvedInterval
    <3>7. ActiveSourceShown'
      BY <2>1, <3>3, <3>5, <3>6 DEF ActiveSourceShown
    <3> QED  BY <3>3, <3>4, <3>7 DEF DetailInv, RequestInv
  <2> QED  BY <2>2, <2>3
<1>6. CASE ReadFallback
  <2>1. /\ detail = "second" /\ requested # NoInterval /\ fallback # NoInterval
        /\ requested # fallback /\ SourceOf[requested] = SourceOf[fallback]
        /\ fallback \in Intervals \cup {NoInterval} /\ fallback \in activeDuring
        /\ hadCandles => candles[fallback] > 0
        /\ UNCHANGED <<table, requested, limit, fallback, hadCandles, activeDuring>>
        /\ TypeOKDetail
    BY <1>6 DEF ReadFallback, DetailInv, RequestInv, TypeOKDetail
  <2>2. CASE Fetched(fallback) > 0
    <3>1. Resolved(fallback, TRUE) /\ found' = Fetched(fallback)
      BY <1>6, <2>2 DEF ReadFallback, Resolved
    <3>2. /\ shown' = fallback /\ applied' = TRUE /\ detail' = "answered"
          /\ found' \in Nat /\ (limit >= 0 => found' <= limit) /\ found' > 0
      BY <2>1, <2>2, <3>1, FoundFacts
    <3>3. TypeOKDetail'
      BY <2>1, <3>2 DEF TypeOKDetail
    <3> QED  BY <2>1, <3>2, <3>3 DEF DetailInv, RequestInv, ActiveSourceShown
  <2>3. CASE ~(Fetched(fallback) > 0)
    <3>1. shown' = requested /\ applied' = FALSE /\ found' = 0 /\ detail' = "answered"
      BY <1>6, <2>3 DEF ReadFallback
    <3>2. TypeOKDetail'
      BY <1>0, <2>1, <3>1 DEF TypeOKDetail
    <3>3. ~(hadCandles /\ limit # 0)
      BY <2>1, <2>3, FetchedFacts
    <3> QED  BY <2>1, <3>1, <3>2, <3>3 DEF DetailInv, RequestInv, ActiveSourceShown
  <2> QED  BY <2>2, <2>3
<1> QED  BY <1>1, <1>2, <1>3, <1>4, <1>5, <1>6 DEF NextDetail

-----------------------------------------------------------------------------
(* Sets of entries: how many signals they hold, and how often they repeat one. *)

Repeats(entries) == Cardinality(entries) - Cardinality(Ids(entries))

LEMMA IdsCounted ==
  ASSUME NEW S, IsFiniteSet(S)
  PROVE  /\ Cardinality(S) \in Nat /\ IsFiniteSet(Ids(S))
         /\ Cardinality(Ids(S)) \in Nat /\ Cardinality(Ids(S)) <= Cardinality(S)
         /\ (\A x, y \in S : x.id = y.id => x = y) => Cardinality(Ids(S)) = Cardinality(S)
<1> DEFINE f == [x \in S |-> x.id]
<1>1. f \in Surjection(S, Ids(S))
  BY DEF Surjection, Ids
<1>2. /\ IsFiniteSet(Ids(S)) /\ Cardinality(Ids(S)) <= Cardinality(S)
      /\ Cardinality(Ids(S)) = Cardinality(S) <=> f \in Injection(S, Ids(S))
  BY <1>1, FS_Surjection
<1>3. (\A x, y \in S : x.id = y.id => x = y) => f \in Injection(S, Ids(S))
  BY <1>1 DEF Surjection, Injection, IsInjective
<1> QED  BY <1>2, <1>3, FS_CardinalityType

(* A part of a set of entries repeats no more than the whole. *)
LEMMA RepeatsOfPart ==
  ASSUME NEW F, IsFiniteSet(F), NEW A \in SUBSET F
  PROVE  Repeats(A) <= Repeats(F)
<1> DEFINE R == F \ A
<1>1. /\ IsFiniteSet(A) /\ IsFiniteSet(R)
      /\ Cardinality(R) = Cardinality(F) - Cardinality(A)
  <2>1. F \cap A = A
    OBVIOUS
  <2>2. IsFiniteSet(R) /\ Cardinality(R) = Cardinality(F) - Cardinality(F \cap A)
    BY FS_Difference
  <2> QED  BY <2>1, <2>2, FS_Subset
<1>2. Ids(F) = Ids(A) \cup Ids(R)
  BY DEF Ids
<1>3. /\ Cardinality(Ids(F)) =
           Cardinality(Ids(A)) + Cardinality(Ids(R)) - Cardinality(Ids(A) \cap Ids(R))
      /\ Cardinality(Ids(A) \cap Ids(R)) \in Nat
  BY <1>1, <1>2, IdsCounted, FS_Union, FS_Intersection, FS_CardinalityType
<1>4. /\ Cardinality(F) \in Nat /\ Cardinality(A) \in Nat /\ Cardinality(R) \in Nat
      /\ Cardinality(Ids(F)) \in Nat /\ Cardinality(Ids(A)) \in Nat
      /\ Cardinality(Ids(R)) \in Nat /\ Cardinality(Ids(R)) <= Cardinality(R)
  BY <1>1, IdsCounted
<1> HIDE DEF R
<1> QED  BY <1>1, <1>3, <1>4 DEF Repeats

(* New entries of signals that are all different repeat those that are in already. *)
LEMMA RepeatsOfUnion ==
  ASSUME NEW F, IsFiniteSet(F), NEW K, IsFiniteSet(K), F \cap K = {},
         \A x, y \in K : x.id = y.id => x = y
  PROVE  Repeats(F \cup K) = Repeats(F) + Cardinality(Ids(F) \cap Ids(K))
<1>1. Ids(F \cup K) = Ids(F) \cup Ids(K)
  BY DEF Ids
<1>2. /\ Cardinality(F) \in Nat /\ Cardinality(K) \in Nat /\ Cardinality(Ids(F)) \in Nat
      /\ IsFiniteSet(Ids(F)) /\ IsFiniteSet(Ids(K))
      /\ Cardinality(Ids(K)) = Cardinality(K)
  BY IdsCounted
<1>3. /\ Cardinality(Ids(F \cup K)) =
           Cardinality(Ids(F)) + Cardinality(Ids(K)) - Cardinality(Ids(F) \cap Ids(K))
      /\ Cardinality(Ids(F) \cap Ids(K)) \in Nat
  BY <1>1, <1>2, FS_Union, FS_Intersection, FS_CardinalityType
<1>4. Cardinality(F \cup K) = Cardinality(F) + Cardinality(K)
  <2>1. Cardinality(F \cap K) = 0
    BY FS_EmptySet
  <2>2. Cardinality(F \cup K) = Cardinality(F) + Cardinality(K) - Cardinality(F \cap K)
    BY FS_Union
  <2> QED  BY <1>2, <2>1, <2>2
<1> QED  BY <1>2, <1>3, <1>4 DEF Repeats

-----------------------------------------------------------------------------
(* ranked[:limit]. *)

Earlier(S, x) == {y \in S : Precedes(y, x)}

LEMMA PriorityType ==
  ASSUME NEW delivery \in Deliveries
  PROVE  Priority(delivery) \in 0..3
BY DEF Deliveries, Priority

(* Precedes is a strict total order of entries read at different places. *)
LEMMA PrecedesOrder ==
  ASSUME NEW x \in Entry, NEW y \in Entry
  PROVE  /\ ~Precedes(x, x)
         /\ x.place # y.place => Precedes(x, y) \/ Precedes(y, x)
         /\ \A z \in Entry : Precedes(x, y) /\ Precedes(y, z) => Precedes(x, z)
         /\ Priority(x.delivery) < Priority(y.delivery) => Precedes(x, y)
<1>1. \A z \in Entry : z.place \in Nat /\ Priority(z.delivery) \in 0..3
  BY PriorityType DEF Entry
<1> QED  BY <1>1 DEF Precedes

(* The more there is before an entry, the later it comes. *)
LEMMA EarlierGrows ==
  ASSUME NEW S \in SUBSET Entry, IsFiniteSet(S), NEW x \in S, NEW y \in S, Precedes(x, y)
  PROVE  /\ Cardinality(Earlier(S, x)) \in Nat /\ Cardinality(Earlier(S, y)) \in Nat
         /\ Cardinality(Earlier(S, x)) < Cardinality(Earlier(S, y))
<1>1. IsFiniteSet(Earlier(S, x)) /\ IsFiniteSet(Earlier(S, y))
  BY FS_Subset DEF Earlier
<1>2. x \notin Earlier(S, x)
  BY PrecedesOrder DEF Earlier
<1>3. Earlier(S, x) \cup {x} \in SUBSET Earlier(S, y)
  BY PrecedesOrder DEF Earlier
<1>4. Cardinality(Earlier(S, x) \cup {x}) = Cardinality(Earlier(S, x)) + 1
  BY <1>1, <1>2, FS_AddElement
<1>5. Cardinality(Earlier(S, x) \cup {x}) <= Cardinality(Earlier(S, y))
  BY <1>1, <1>3, FS_Subset
<1>6. Cardinality(Earlier(S, x)) \in Nat /\ Cardinality(Earlier(S, y)) \in Nat
  BY <1>1, FS_CardinalityType
<1> QED  BY <1>4, <1>5, <1>6

LEMMA FirstNumbers ==
  ASSUME NEW m \in Nat
  PROVE  IsFiniteSet(0..(m - 1)) /\ Cardinality(0..(m - 1)) = m
<1>1. 0 \in Int /\ m - 1 \in Int
  OBVIOUS
<1>2. IsFiniteSet(0..(m - 1)) /\ Cardinality(0..(m - 1)) = IF 0 > m - 1 THEN 0 ELSE m - 1 - 0 + 1
  BY <1>1, FS_Interval
<1> QED  BY <1>2

(* As many as were asked for are answered, or all that there are. *)
LEMMA RankedCounted ==
  ASSUME NEW f \in Filters, NEW S \in SUBSET Entry, IsFiniteSet(S),
         \A x, y \in S : x.place = y.place => x = y
  PROVE  /\ Cardinality(Ranked(f, S)) \in Nat /\ Cardinality(Ranked(f, S)) <= f.limit
         /\ Cardinality(S) >= f.limit => Cardinality(Ranked(f, S)) = f.limit
<1> DEFINE n == Cardinality(S)
           k == f.limit
           Place(x) == Cardinality(Earlier(S, x))
           r == [x \in S |-> Place(x)]
           T == Ranked(f, S)
           t == [x \in T |-> Place(x)]
<1>1. k \in Nat /\ n \in Nat
  BY FeedAssumption, FS_CardinalityType
<1>2. \A x \in S : Place(x) \in 0..(n - 1)
  <2> SUFFICES ASSUME NEW x \in S  PROVE Place(x) \in 0..(n - 1)
    OBVIOUS
  <2>1. Earlier(S, x) \in SUBSET S /\ x \notin Earlier(S, x)
    BY PrecedesOrder DEF Earlier
  <2>2. IsFiniteSet(Earlier(S, x)) /\ Place(x) <= n /\ (n = Place(x) => S = Earlier(S, x))
    BY <2>1, FS_Subset
  <2>3. Place(x) \in Nat
    BY <2>2, FS_CardinalityType
  <2> HIDE DEF Place, n
  <2> QED  BY <1>1, <2>1, <2>2, <2>3
<1>3. \A x, y \in S : Place(x) = Place(y) => x = y
  <2> SUFFICES ASSUME NEW x \in S, NEW y \in S, x # y  PROVE Place(x) # Place(y)
    OBVIOUS
  <2>1. Precedes(x, y) \/ Precedes(y, x)
    BY PrecedesOrder
  <2>2. CASE Precedes(x, y)
    BY <2>2, EarlierGrows
  <2>3. CASE Precedes(y, x)
    BY <2>3, EarlierGrows
  <2> QED  BY <2>1, <2>2, <2>3
<1>4. T = {x \in S : Place(x) < k}
  BY DEF Ranked, Earlier
<1> HIDE DEF Place, T
<1>5. r \in Injection(S, 0..(n - 1)) /\ t \in Injection(T, 0..(k - 1))
  BY <1>1, <1>2, <1>3, <1>4 DEF Injection, IsInjective
<1>6. /\ IsFiniteSet(0..(n - 1)) /\ Cardinality(0..(n - 1)) = n
      /\ IsFiniteSet(0..(k - 1)) /\ Cardinality(0..(k - 1)) = k
  BY <1>1, FirstNumbers
<1>7. r \in Surjection(S, 0..(n - 1))
  BY <1>5, <1>6, FS_Injection
<1>8. /\ IsFiniteSet(T) /\ Cardinality(T) <= k
      /\ t \in Surjection(T, 0..(k - 1)) => Cardinality(T) = k
  BY <1>5, <1>6, FS_Injection
<1>9. ASSUME n >= k  PROVE t \in Surjection(T, 0..(k - 1))
  <2>1. \A j \in 0..(k - 1) : \E x \in T : t[x] = j
    <3> SUFFICES ASSUME NEW j \in 0..(k - 1)  PROVE \E x \in T : t[x] = j
      OBVIOUS
    <3>1. j \in 0..(n - 1) /\ j < k
      BY <1>1, <1>9
    <3>2. PICK x \in S : r[x] = j
      BY <1>7, <3>1 DEF Surjection
    <3>3. Place(x) = j
      BY <3>2
    <3>4. x \in T
      BY <1>4, <3>1, <3>3
    <3> QED  BY <3>3, <3>4
  <2> QED  BY <1>5, <2>1 DEF Injection, Surjection
<1>10. Cardinality(T) \in Nat
  BY <1>8, FS_CardinalityType
<1> QED  BY <1>8, <1>9, <1>10 DEF T

-----------------------------------------------------------------------------
(* A page of the feed. *)

LEMMA BatchFacts ==
  ASSUME NEW f \in Filters
  PROVE  BatchSize(f) \in Nat \ {0}
<1> DEFINE a == BatchFactor * f.limit
           S == {a, f.limit, MinBatch}
           top == IF a >= f.limit THEN (IF a >= MinBatch THEN a ELSE MinBatch)
                  ELSE (IF f.limit >= MinBatch THEN f.limit ELSE MinBatch)
<1>1. f.limit \in Nat /\ BatchFactor \in Nat /\ MinBatch \in Nat \ {0}
  BY FeedAssumption
<1>2. a \in Nat
  BY <1>1
<1> HIDE DEF a
<1>3. top \in S /\ \A y \in S : top >= y
  BY <1>1, <1>2
<1>4. Max(S) \in S /\ \A y \in S : Max(S) >= y
  BY <1>3 DEF Max
<1>5. Max(S) \in Nat \ {0}
  BY <1>1, <1>2, <1>4
<1> QED  BY <1>5 DEF BatchSize, a

(* The oldest signal read, after the page. *)
Deepest == Min({deepest} \cup {IdAt(p) : p \in Page})

(* What the invariant says of the state in which a page is read. *)
Paging ==
  /\ signals \in Seq(Row) /\ Len(signals) <= MaxSignals
  /\ filter \in Filters /\ offset \in Nat /\ deepest \in 1..(MaxSignals + 1)

LEMMA PageFacts ==
  ASSUME Paging
  PROVE  /\ BatchSize(filter) \in Nat \ {0} /\ Len(signals) \in Nat /\ MaxSignals \in Nat
         /\ \A i \in 1..Len(signals) : signals[i] \in Row
         /\ IsFiniteSet(Page)
         /\ Cardinality(Page) < BatchSize(filter) <=> offset + BatchSize(filter) > Len(signals)
         /\ \A p \in Page : p \in Nat /\ IdAt(p) \in 1..Len(signals)
<1> DEFINE L == Len(signals)
           B == BatchSize(filter)
           q == IF offset + B <= L THEN offset + B ELSE L
<1>1. B \in Nat \ {0} /\ L \in Nat /\ MaxSignals \in Nat /\ offset \in Nat
  BY BatchFacts, FeedAssumption DEF Paging
<1> HIDE DEF L, B
<1>2. Page = (offset + 1)..q
  <2>1. Page = {p \in 1..L : offset < p /\ p <= offset + B}
    BY DEF Page, L, B
  <2> QED  BY <1>1, <2>1
<1>3. offset + 1 \in Int /\ q \in Int
  BY <1>1
<1>4. /\ IsFiniteSet(Page)
      /\ Cardinality(Page) = IF offset + 1 > q THEN 0 ELSE q - (offset + 1) + 1
  BY <1>2, <1>3, FS_Interval
<1>5. \A p \in Page : p \in Nat /\ IdAt(p) \in 1..L
  BY <1>1, <1>2 DEF IdAt, L
<1>6. Cardinality(Page) < B <=> offset + B > L
  BY <1>1, <1>4
<1>7. \A i \in 1..Len(signals) : signals[i] \in Row
  BY DEF Paging
<1> QED  BY <1>1, <1>4, <1>5, <1>6, <1>7 DEF L, B

LEMMA DeepestFacts ==
  ASSUME Paging
  PROVE  /\ Deepest \in 1..(MaxSignals + 1) /\ Deepest <= deepest
         /\ \A p \in Page : Deepest <= IdAt(p)
         /\ Deepest = deepest \/ \E p \in Page : Deepest = IdAt(p)
<1> DEFINE L == Len(signals)
           B == BatchSize(filter)
           q == IF offset + B <= L THEN offset + B ELSE L
           S == {deepest} \cup {IdAt(p) : p \in Page}
           low == IF q <= offset \/ deepest <= L + 1 - q THEN deepest ELSE L + 1 - q
<1>1. /\ B \in Nat \ {0} /\ L \in Nat /\ offset \in Nat /\ MaxSignals \in Nat
      /\ deepest \in 1..(MaxSignals + 1) /\ L <= MaxSignals
  BY PageFacts DEF Paging
<1>2. Page = {p \in 1..L : offset < p /\ p <= offset + B} /\ \A p : IdAt(p) = L + 1 - p
  BY DEF Page, IdAt
<1> HIDE DEF L, B
<1>3. q > offset => q \in Page
  BY <1>1, <1>2
<1>4. low \in S
  <2>1. CASE q <= offset \/ deepest <= L + 1 - q
    BY <2>1
  <2>2. CASE ~(q <= offset \/ deepest <= L + 1 - q)
    <3>1. q \in Page
      BY <1>1, <1>3, <2>2
    <3> HIDE DEF q
    <3>2. low = IdAt(q)
      BY <1>2, <2>2
    <3> QED  BY <3>1, <3>2
  <2> QED  BY <2>1, <2>2
<1>5. \A p \in Page : p <= q /\ p > offset /\ p \in 1..L
  BY <1>1, <1>2
<1>6. low <= deepest /\ \A p \in Page : low <= IdAt(p)
  BY <1>1, <1>2, <1>5
<1>7. \A y \in S : low <= y
  BY <1>6
<1>8. Deepest \in S /\ \A y \in S : Deepest <= y
  BY <1>4, <1>7 DEF Deepest, Min
<1>9. \A p \in Page : IdAt(p) \in 1..(MaxSignals + 1)
  BY <1>1, <1>2, <1>5
<1>10. S \subseteq 1..(MaxSignals + 1)
  BY <1>1, <1>9
<1> QED  BY <1>8, <1>10

LEMMA KeptFacts ==
  ASSUME Paging
  PROVE  /\ IsFiniteSet(Kept) /\ Kept \subseteq Entry
         /\ \A x \in Kept :
              /\ x.place \in Page /\ x.id = IdAt(x.place)
              /\ x.delivery = signals[x.id].delivery /\ Admits(filter, signals[x.id])
         /\ \A p \in Page :
              Admits(filter, signals[IdAt(p)]) =>
                \E x \in Kept : x.id = IdAt(p) /\ x.delivery = signals[IdAt(p)].delivery
         /\ \A x, y \in Kept : x.place = y.place \/ x.id = y.id => x = y
<1>1. \A x \in Kept :
        /\ x = [place |-> x.place, id |-> x.id, delivery |-> x.delivery]
        /\ x.place \in Page /\ x.id = IdAt(x.place)
        /\ x.delivery = signals[x.id].delivery /\ Admits(filter, signals[x.id])
  BY DEF Kept
<1>2. \A p \in Page :
        Admits(filter, signals[IdAt(p)]) =>
          \E x \in Kept : x.id = IdAt(p) /\ x.delivery = signals[IdAt(p)].delivery
  <2> SUFFICES ASSUME NEW p \in Page, Admits(filter, signals[IdAt(p)])
               PROVE  \E x \in Kept : x.id = IdAt(p) /\ x.delivery = signals[IdAt(p)].delivery
    OBVIOUS
  <2> DEFINE e == [place |-> p, id |-> IdAt(p), delivery |-> signals[IdAt(p)].delivery]
  <2>1. e \in Kept
    BY DEF Kept
  <2> QED  BY <2>1
<1>3. \A p \in Page : /\ p \in Nat /\ IdAt(p) \in 1..MaxSignals
                      /\ signals[IdAt(p)].delivery \in Deliveries
  <2> SUFFICES ASSUME NEW p \in Page
               PROVE  /\ p \in Nat /\ IdAt(p) \in 1..MaxSignals
                      /\ signals[IdAt(p)].delivery \in Deliveries
    OBVIOUS
  <2>1. p \in Nat /\ IdAt(p) \in 1..Len(signals) /\ signals[IdAt(p)] \in Row
    BY PageFacts
  <2>2. Len(signals) \in Nat /\ MaxSignals \in Nat /\ Len(signals) <= MaxSignals
    BY PageFacts DEF Paging
  <2> QED  BY <2>1, <2>2 DEF Row
<1>4. Kept \subseteq Entry
  BY <1>3 DEF Kept, Entry
<1>5. \A x, y \in Kept : x.place = y.place \/ x.id = y.id => x = y
  <2> SUFFICES ASSUME NEW x \in Kept, NEW y \in Kept, x.place = y.place \/ x.id = y.id
               PROVE  x = y
    OBVIOUS
  <2>1. x.place = y.place
    BY <1>1, PageFacts DEF IdAt
  <2> QED  BY <1>1, <2>1
<1>6. IsFiniteSet(Kept)
  <2> DEFINE f == [x \in Kept |-> x.place]
  <2>1. f \in Injection(Kept, Page)
    BY <1>1, <1>5 DEF Injection, IsInjective
  <2> QED  BY <2>1, PageFacts, FS_Injection
<1> QED  BY <1>1, <1>2, <1>4, <1>5, <1>6

-----------------------------------------------------------------------------
(* The inductive invariant of the feed. *)

TableInv ==
  /\ IsFiniteSet(filtered) /\ steady \subseteq 1..Len(signals) /\ shifted <= Len(signals)

NewInv ==
  feed = "new" =>
    /\ filter = Unset /\ offset = 0 /\ filtered = {} /\ answer = {}
    /\ steady = {} /\ shifted = 0 /\ deepest = MaxSignals + 1

(* Between two pages.  Pages leave no gap: what is older than all that was read *)
(* is still to come.  A steady signal that was read is in, as it is now.  And   *)
(* each insert moves one signal that was read into the pages to come, where it  *)
(* is read again: the repeats, with those that are still to come, are paid for. *)
ScanInv ==
  feed = "scanning" =>
    /\ filter \in Filters /\ answer = {}
    /\ offset = 0 \/ deepest + offset <= Len(signals) + 1
    /\ \A x \in filtered : x.place <= offset /\ deepest <= x.id
    /\ \A x, y \in filtered : x.place = y.place => x = y
    /\ \A i \in steady :
         deepest <= i /\ Admits(filter, signals[i]) =>
           \E x \in filtered : x.id = i /\ x.delivery = signals[i].delivery
    /\ Repeats(filtered) <= shifted
    /\ Repeats(filtered) + Len(signals) + 1 <= shifted + deepest + offset
    /\ shifted = 0 => \A x \in filtered : x.id + x.place = Len(signals) + 1

FeedInv == TypeOKFeed /\ TableInv /\ NewInv /\ ScanInv /\ NothingMissed /\ RepeatsOnlyShifted

(* What has been found when the page is in. *)
Found == filtered \cup Kept

LEMMA FoundShape ==
  ASSUME FeedInv, feed = "scanning"
  PROVE  /\ Paging /\ IsFiniteSet(Found) /\ Found \subseteq Entry
         /\ \A x \in filtered, y \in Kept : x.place < y.place
         /\ \A x \in Found : x.place <= NextOffset /\ Deepest <= x.id
         /\ \A x, y \in Found : x.place = y.place => x = y
         /\ shifted = 0 => \A x \in Found : x.id + x.place = Len(signals) + 1
<1>1. Paging
  BY DEF FeedInv, TypeOKFeed, ScanInv, Paging
<1>2. IsFiniteSet(Found) /\ Found \subseteq Entry
  BY <1>1, KeptFacts, FS_Union DEF FeedInv, TypeOKFeed, TableInv, Found
<1>3. /\ offset \in Nat /\ BatchSize(filter) \in Nat \ {0} /\ Len(signals) \in Nat
      /\ Deepest \in Nat /\ deepest \in Nat /\ Deepest <= deepest
  BY <1>1, PageFacts, DeepestFacts DEF Paging
<1>4. \A y \in Kept : /\ offset < y.place /\ y.place <= NextOffset /\ y.place \in Nat
                      /\ Deepest <= y.id /\ y.id + y.place = Len(signals) + 1
  <2> SUFFICES ASSUME NEW y \in Kept
               PROVE  /\ offset < y.place /\ y.place <= NextOffset /\ y.place \in Nat
                      /\ Deepest <= y.id /\ y.id + y.place = Len(signals) + 1
    OBVIOUS
  <2>1. y.place \in Page /\ y.id = IdAt(y.place)
    BY <1>1, KeptFacts
  <2>2. y.place \in Nat /\ Deepest <= IdAt(y.place)
    BY <1>1, <2>1, PageFacts, DeepestFacts
  <2> QED  BY <1>3, <2>1, <2>2 DEF Page, NextOffset, IdAt
<1>5. \A x \in filtered : /\ x.place \in Nat /\ x.id \in Nat
                          /\ x.place <= offset /\ deepest <= x.id
  <2>1. \A x \in Entry : x.place \in Nat /\ x.id \in Nat
    BY FeedAssumption DEF Entry
  <2> QED  BY <2>1 DEF FeedInv, TypeOKFeed, ScanInv
<1>6. \A x \in filtered : x.place <= NextOffset /\ Deepest <= x.id
  BY <1>3, <1>5 DEF NextOffset
<1>7. \A x \in filtered, y \in Kept : x.place < y.place
  BY <1>3, <1>4, <1>5
<1>8. ASSUME NEW x \in Found, NEW y \in Found, x.place = y.place  PROVE x = y
  <2>1. CASE x \in filtered /\ y \in filtered
    BY <1>8, <2>1 DEF FeedInv, ScanInv
  <2>2. CASE x \in Kept /\ y \in Kept
    BY <1>1, <1>8, <2>2, KeptFacts
  <2>3. CASE x \in filtered /\ y \in Kept
    BY <1>3, <1>4, <1>5, <1>8, <2>3
  <2>4. CASE x \in Kept /\ y \in filtered
    BY <1>3, <1>4, <1>5, <1>8, <2>4
  <2> QED  BY <2>1, <2>2, <2>3, <2>4 DEF Found
<1>9. shifted = 0 => \A x \in Found : x.id + x.place = Len(signals) + 1
  BY <1>4 DEF FeedInv, ScanInv, Found
<1> QED  BY <1>1, <1>2, <1>4, <1>6, <1>7, <1>8, <1>9 DEF Found

(* Steady signals that were read and that the filters admit have been found. *)
LEMMA FoundCovers ==
  ASSUME FeedInv, feed = "scanning",
         NEW i \in steady, Deepest <= i, Admits(filter, signals[i])
  PROVE  \E x \in Found : x.id = i /\ x.delivery = signals[i].delivery
<1>1. /\ Paging /\ offset \in Nat /\ Len(signals) \in Nat /\ i \in 1..Len(signals)
      /\ deepest \in Nat /\ BatchSize(filter) \in Nat
  BY FoundShape, PageFacts DEF Paging, FeedInv, TableInv
<1>2. CASE deepest <= i
  BY <1>2 DEF FeedInv, ScanInv, Found
<1>3. CASE ~(deepest <= i)
  <2>1. PICK p \in Page : Deepest = IdAt(p)
    BY <1>1, <1>3, DeepestFacts
  <2>2. IdAt(p) \in Nat /\ p \in Nat
    BY <1>1, <2>1, PageFacts
  <2> DEFINE place == Len(signals) + 1 - i
  <2>3. place \in 1..Len(signals) /\ IdAt(place) = i
    BY <1>1 DEF IdAt
  <2>4. offset < place
    BY <1>1, <1>3 DEF FeedInv, ScanInv
  <2>5. place <= p
    BY <1>1, <2>1, <2>2 DEF IdAt
  <2>6. place \in Page
    BY <1>1, <2>2, <2>3, <2>4, <2>5 DEF Page
  <2> HIDE DEF place
  <2> QED  BY <1>1, <2>3, <2>6, KeptFacts DEF Found
<1> QED  BY <1>2, <1>3

(* Every repeat is paid for by an insert. *)
LEMMA FoundRepeats ==
  ASSUME FeedInv, feed = "scanning"
  PROVE  /\ Repeats(Found) \in Nat /\ Repeats(Found) <= shifted
         /\ NextOffset <= Len(signals) =>
              /\ Deepest + NextOffset <= Len(signals) + 1
              /\ Repeats(Found) + Len(signals) + 1 <= shifted + Deepest + NextOffset
<1> DEFINE L == Len(signals)
           B == BatchSize(filter)
           again == Ids(filtered) \cap Ids(Kept)
           n == Cardinality(again)
<1>1. /\ B \in Nat \ {0} /\ L \in Nat /\ offset \in Nat /\ deepest \in Nat
      /\ Deepest \in Nat /\ shifted \in Nat /\ Deepest <= deepest /\ Paging
  BY FoundShape, PageFacts, DeepestFacts DEF Paging, FeedInv, TypeOKFeed
<1>2. /\ IsFiniteSet(Kept) /\ IsFiniteSet(filtered)
      /\ \A x, y \in Kept : x.id = y.id => x = y
  BY <1>1, KeptFacts DEF FeedInv, TableInv
<1>3. filtered \cap Kept = {}
  <2>1. \A y \in Kept : y.place \in Nat
    BY <1>1, KeptFacts, PageFacts
  <2> QED  BY <2>1, FoundShape
<1>4. Repeats(Found) = Repeats(filtered) + n
  BY <1>2, <1>3, RepeatsOfUnion DEF Found
<1>5. /\ Repeats(filtered) \in Nat /\ Repeats(filtered) <= shifted
      /\ Repeats(filtered) + L + 1 <= shifted + deepest + offset
      /\ Cardinality(Kept) \in Nat
  <2>1. /\ Cardinality(filtered) \in Nat /\ Cardinality(Ids(filtered)) \in Nat
        /\ Cardinality(Ids(filtered)) <= Cardinality(filtered) /\ Cardinality(Kept) \in Nat
    BY <1>2, IdsCounted
  <2> QED  BY <2>1 DEF FeedInv, ScanInv, Repeats
<1>6. \A i \in again : /\ i \in Nat /\ deepest <= i /\ i <= L - offset
                       /\ L + 1 - (offset + B) <= i
  <2> SUFFICES ASSUME NEW i \in again
               PROVE  /\ i \in Nat /\ deepest <= i /\ i <= L - offset
                      /\ L + 1 - (offset + B) <= i
    OBVIOUS
  <2>1. PICK x \in filtered : x.id = i
    BY DEF Ids
  <2>2. PICK y \in Kept : y.id = i
    BY DEF Ids
  <2>3. deepest <= i
    BY <2>1 DEF FeedInv, ScanInv
  <2>4. y.place \in Page /\ i = IdAt(y.place)
    BY <1>1, <2>2, KeptFacts
  <2>5. y.place \in Nat /\ IdAt(y.place) \in 1..L /\ offset < y.place /\ y.place <= offset + B
    BY <1>1, <2>4, PageFacts DEF Page
  <2> HIDE DEF L, B
  <2>6. i = L + 1 - y.place
    BY <2>4 DEF IdAt, L
  <2> QED  BY <1>1, <2>3, <2>4, <2>5, <2>6
<1> HIDE DEF L, B, again
<1>7. /\ n \in Nat
      /\ n <= IF deepest > L - offset THEN 0 ELSE L - offset - deepest + 1
  <2>1. again \in SUBSET (deepest..(L - offset))
    BY <1>1, <1>6
  <2>2. deepest \in Int /\ L - offset \in Int
    BY <1>1
  <2>3. /\ IsFiniteSet(deepest..(L - offset))
        /\ Cardinality(deepest..(L - offset)) =
             IF deepest > L - offset THEN 0 ELSE L - offset - deepest + 1
    BY <2>2, FS_Interval
  <2> QED  BY <2>1, <2>3, FS_Subset, FS_CardinalityType
<1>8. n <= B
  <2> DEFINE a == L + 1 - (offset + B)
             b == L - offset
  <2>1. again \in SUBSET (a..b)
    BY <1>1, <1>6
  <2>2. a \in Int /\ b \in Int /\ b - a + 1 = B
    BY <1>1
  <2> HIDE DEF a, b
  <2>3. IsFiniteSet(a..b) /\ Cardinality(a..b) = IF a > b THEN 0 ELSE b - a + 1
    BY <2>2, FS_Interval
  <2>4. n <= Cardinality(a..b)
    BY <2>1, <2>3, FS_Subset
  <2> HIDE DEF n
  <2> QED  BY <1>1, <1>7, <2>2, <2>3, <2>4
<1> HIDE DEF n
<1>9. Repeats(Found) \in Nat /\ Repeats(Found) <= shifted
  BY <1>1, <1>4, <1>5, <1>7
<1>10. ASSUME NextOffset <= L
       PROVE  /\ Deepest + NextOffset <= L + 1
              /\ Repeats(Found) + L + 1 <= shifted + Deepest + NextOffset
  <2>1. NextOffset = offset + B /\ NextOffset \in Nat
    BY <1>1 DEF NextOffset, B
  <2>2. NextOffset \in Page /\ IdAt(NextOffset) = L + 1 - NextOffset
    BY <1>1, <1>10, <2>1 DEF Page, IdAt, L, B
  <2>3. Deepest <= L + 1 - NextOffset
    BY <1>1, <2>2, DeepestFacts
  <2>4. Deepest = deepest \/ Deepest >= L + 1 - NextOffset
    <3>1. CASE Deepest = deepest
      BY <3>1
    <3>2. CASE \E p \in Page : Deepest = IdAt(p)
      <4>1. PICK p \in Page : Deepest = IdAt(p)
        BY <3>2
      <4>2. p \in Nat /\ p <= offset + B /\ IdAt(p) = L + 1 - p
        BY <1>1, PageFacts DEF Page, IdAt, L, B
      <4> QED  BY <1>1, <2>1, <4>1, <4>2
    <3> QED  BY <1>1, <3>1, <3>2, DeepestFacts
  <2> QED  BY <1>1, <1>4, <1>5, <1>7, <1>8, <1>9, <2>1, <2>3, <2>4
<1> QED  BY <1>9, <1>10 DEF L

(* The answer: what is left out of it is less urgent than all of it, or older *)
(* than all that was read, and then the answer is full.                       *)
LEMMA AnswerRight ==
  ASSUME FeedInv, feed = "scanning", LastPage(Found)
  PROVE  LET A == Ranked(filter, Found) IN
         /\ A \subseteq Found /\ Cardinality(A) <= filter.limit
         /\ \A i \in steady :
              Admits(filter, signals[i]) /\ i \notin Ids(A) =>
                /\ Cardinality(A) = filter.limit
                /\ \/ i < Deepest
                   \/ \A x \in A : Priority(x.delivery) <= Priority(signals[i].delivery)
         /\ Repeats(A) <= shifted
         /\ shifted = 0 =>
              \A x, y \in A :
                Precedes(x, y) => Priority(x.delivery) < Priority(y.delivery) \/ x.id > y.id
<1> DEFINE A == Ranked(filter, Found)
           k == filter.limit
<1>1. /\ Paging /\ filter \in Filters /\ IsFiniteSet(Found) /\ Found \subseteq Entry
      /\ \A x, y \in Found : x.place = y.place => x = y
  BY FoundShape DEF FeedInv, ScanInv
<1>2. /\ Cardinality(A) \in Nat /\ Cardinality(A) <= k
      /\ Cardinality(Found) >= k => Cardinality(A) = k
  BY <1>1, RankedCounted
<1>3. A \subseteq Found /\ k \in Nat /\ Cardinality(Found) \in Nat
  BY <1>1, FeedAssumption, FS_CardinalityType DEF Ranked
<1>4. /\ offset \in Nat /\ Len(signals) \in Nat /\ steady \subseteq 1..Len(signals)
      /\ deepest \in Nat /\ Deepest \in Nat /\ Deepest <= deepest
      /\ BatchSize(filter) \in Nat \ {0}
  BY <1>1, PageFacts, DeepestFacts DEF Paging, FeedInv, TableInv
<1>5. ASSUME NEW i \in steady, Admits(filter, signals[i]), i \notin Ids(A)
      PROVE  /\ Cardinality(A) = k
             /\ \/ i < Deepest
                \/ \A x \in A : Priority(x.delivery) <= Priority(signals[i].delivery)
  <2>1. CASE i < Deepest
    <3>1. i \in Nat \ {0} /\ i <= Len(signals)
      BY <1>4
    <3>2. offset < Len(signals)
      BY <1>4, <2>1, <3>1 DEF FeedInv, ScanInv
    <3>3. ~(Cardinality(Page) < BatchSize(filter))
      <4> SUFFICES ASSUME offset + BatchSize(filter) > Len(signals)  PROVE FALSE
        BY <1>1, PageFacts
      <4>1. Len(signals) \in Page /\ IdAt(Len(signals)) = 1
        BY <1>4, <3>2 DEF Page, IdAt
      <4>2. Deepest <= 1
        BY <1>1, <4>1, DeepestFacts
      <4> QED  BY <1>4, <2>1, <3>1, <4>2
    <3>4. Cardinality(Found) >= k
      BY <3>3 DEF LastPage
    <3> QED  BY <1>2, <2>1, <3>4
  <2>2. CASE ~(i < Deepest)
    <3>1. i \in Nat
      BY <1>4
    <3>2. PICK x \in Found : x.id = i /\ x.delivery = signals[i].delivery
      BY <1>4, <1>5, <2>2, <3>1, FoundCovers
    <3>3. x \notin A
      BY <1>5, <3>2 DEF Ids
    <3>4. /\ IsFiniteSet(Earlier(Found, x)) /\ Cardinality(Earlier(Found, x)) \in Nat
          /\ Cardinality(Earlier(Found, x)) <= Cardinality(Found)
      BY <1>1, FS_Subset, FS_CardinalityType DEF Earlier
    <3>5. Cardinality(Earlier(Found, x)) >= k
      BY <1>3, <3>3, <3>4 DEF Ranked, Earlier
    <3>6. Cardinality(A) = k
      BY <1>2, <1>3, <3>4, <3>5
    <3>7. ASSUME NEW y \in A  PROVE Priority(y.delivery) <= Priority(x.delivery)
      <4>1. y \in Found /\ Cardinality(Earlier(Found, y)) < k
        BY DEF Ranked, Earlier
      <4>2. Priority(x.delivery) \in 0..3 /\ Priority(y.delivery) \in 0..3
        BY <1>1, <4>1, PriorityType DEF Entry
      <4>3. ASSUME Priority(x.delivery) < Priority(y.delivery)  PROVE FALSE
        <5>1. Precedes(x, y)
          BY <1>1, <4>1, <4>3, PrecedesOrder
        <5>2. /\ Cardinality(Earlier(Found, x)) < Cardinality(Earlier(Found, y))
              /\ Cardinality(Earlier(Found, y)) \in Nat
          BY <1>1, <4>1, <5>1, EarlierGrows
        <5> QED  BY <1>3, <3>4, <3>5, <4>1, <5>2
      <4> QED  BY <4>2, <4>3
    <3> QED  BY <3>2, <3>6, <3>7
  <2> QED  BY <2>1, <2>2
<1>6. Repeats(A) <= shifted
  <2>1. Repeats(A) <= Repeats(Found)
    BY <1>1, <1>3, RepeatsOfPart
  <2>2. Repeats(Found) \in Nat /\ Repeats(Found) <= shifted /\ shifted \in Nat
    BY FoundRepeats DEF FeedInv, TypeOKFeed
  <2>3. Repeats(A) \in Int
    BY <1>1, <1>3, FS_Subset, IdsCounted DEF Repeats
  <2> QED  BY <2>1, <2>2, <2>3
<1>7. ASSUME shifted = 0, NEW x \in A, NEW y \in A, Precedes(x, y)
      PROVE  Priority(x.delivery) < Priority(y.delivery) \/ x.id > y.id
  <2>1. /\ x.id + x.place = Len(signals) + 1 /\ y.id + y.place = Len(signals) + 1
        /\ x \in Entry /\ y \in Entry
    BY <1>1, <1>3, <1>7, FoundShape
  <2>2. x.id \in Nat /\ x.place \in Nat /\ y.id \in Nat /\ y.place \in Nat
    BY <2>1, FeedAssumption DEF Entry
  <2> QED  BY <1>4, <1>7, <2>1, <2>2 DEF Precedes
<1> QED  BY <1>2, <1>3, <1>5, <1>6, <1>7

-----------------------------------------------------------------------------
(* The steps of the feed. *)

LEMMA FeedInit == InitFeed => FeedInv
<1> SUFFICES ASSUME InitFeed  PROVE FeedInv
  OBVIOUS
<1>1. /\ IsFiniteSet({}) /\ Cardinality({}) = 0 /\ Ids({}) = {}
      /\ MaxSignals \in Nat
  BY FS_EmptySet, FeedAssumption DEF Ids
<1>2. signals = <<>> /\ signals \in Seq(Row) /\ Len(signals) = 0
  BY DEF InitFeed
<1>3. TypeOKFeed
  BY <1>1, <1>2 DEF InitFeed, TypeOKFeed
<1>4. TableInv /\ NewInv /\ ScanInv
  BY <1>1, <1>2 DEF InitFeed, TableInv, NewInv, ScanInv
<1>5. NothingMissed /\ RepeatsOnlyShifted
  <2>1. answer = {} /\ feed = "new" /\ shifted = 0
    BY DEF InitFeed
  <2>2. Cardinality(answer) = 0 /\ Cardinality(Ids(answer)) = 0
    BY <1>1, <2>1
  <2> QED  BY <2>1, <2>2 DEF NothingMissed, RepeatsOnlyShifted
<1> QED  BY <1>3, <1>4, <1>5 DEF FeedInv

(* While nothing is answered, the answer is empty. *)
LEMMA Unanswered ==
  ASSUME FeedInv, feed # "answered", answer' = answer, feed' # "answered", shifted' \in Nat
  PROVE  NothingMissed' /\ RepeatsOnlyShifted'
<1>1. answer' = {}
  BY DEF FeedInv, NewInv, ScanInv, TypeOKFeed
<1>2. Cardinality({}) = 0 /\ Ids({}) = {}
  BY FS_EmptySet DEF Ids
<1> QED  BY <1>1, <1>2 DEF NothingMissed, RepeatsOnlyShifted, Ids

LEMMA InsertSignalStep == FeedInv /\ InsertSignal => FeedInv'
<1> SUFFICES ASSUME FeedInv, InsertSignal  PROVE FeedInv'
  OBVIOUS
<1>1. PICK mode \in Modes :
        signals' = Append(signals, [mode |-> mode, delivery |-> "pending"])
  BY DEF InsertSignal
<1>2. [mode |-> mode, delivery |-> "pending"] \in Row
  BY DEF Row, Deliveries
<1>3. /\ signals \in Seq(Row) /\ Len(signals) \in Nat /\ Len(signals) < MaxSignals
      /\ MaxSignals \in Nat /\ shifted \in Nat /\ shifted <= Len(signals)
      /\ offset \in Nat /\ deepest \in Nat
  BY FeedAssumption DEF InsertSignal, FeedInv, TypeOKFeed, TableInv
<1>4. /\ signals' \in Seq(Row) /\ Len(signals') = Len(signals) + 1
      /\ \A i \in 1..Len(signals) : signals'[i] = signals[i]
  BY <1>1, <1>2, <1>3
<1>5. /\ shifted' = IF feed = "scanning" THEN shifted + 1 ELSE shifted
      /\ UNCHANGED <<feed, filter, offset, filtered, answer, steady, deepest>>
      /\ feed # "answered"
  BY DEF InsertSignal
<1>6. shifted' \in Nat /\ shifted' <= Len(signals') /\ shifted' \in 0..MaxSignals
  BY <1>3, <1>4, <1>5
<1>7. TypeOKFeed'
  BY <1>3, <1>4, <1>5, <1>6 DEF FeedInv, TypeOKFeed
<1>8. TableInv'
  BY <1>3, <1>4, <1>5, <1>6 DEF FeedInv, TableInv
<1>9. NewInv'
  BY <1>5 DEF FeedInv, NewInv
<1>10. ScanInv'
  <2> SUFFICES ASSUME feed = "scanning"  PROVE ScanInv'
    BY <1>5 DEF ScanInv
  <2>1. \A i \in steady : signals'[i] = signals[i]
    BY <1>4 DEF FeedInv, TableInv
  <2>2. /\ filter \in Filters /\ answer = {}
        /\ offset = 0 \/ deepest + offset <= Len(signals) + 1
        /\ \A x \in filtered : x.place <= offset /\ deepest <= x.id
        /\ \A x, y \in filtered : x.place = y.place => x = y
    BY DEF FeedInv, ScanInv
  <2>3. \A i \in steady :
          deepest <= i /\ Admits(filter, signals'[i]) =>
            \E x \in filtered : x.id = i /\ x.delivery = signals'[i].delivery
    BY <2>1 DEF FeedInv, ScanInv
  <2>4. /\ Repeats(filtered) \in Int /\ Repeats(filtered) <= shifted
        /\ Repeats(filtered) + Len(signals) + 1 <= shifted + deepest + offset
    BY IdsCounted DEF FeedInv, ScanInv, TableInv, Repeats
  <2>5. shifted' = shifted + 1 /\ shifted' # 0
    BY <1>3, <1>5
  <2>6. /\ offset = 0 \/ deepest + offset <= Len(signals') + 1
        /\ Repeats(filtered) <= shifted'
        /\ Repeats(filtered) + Len(signals') + 1 <= shifted' + deepest + offset
    BY <1>3, <1>4, <2>2, <2>4, <2>5
  <2>7. Repeats(filtered)' = Repeats(filtered)
    BY <1>5 DEF Repeats, Ids
  <2> QED  BY <1>5, <2>2, <2>3, <2>5, <2>6, <2>7 DEF ScanInv
<1>11. NothingMissed' /\ RepeatsOnlyShifted'
  BY <1>5, <1>6, Unanswered
<1> QED  BY <1>7, <1>8, <1>9, <1>10, <1>11 DEF FeedInv

LEMMA UpdateSignalDeliveryStep == FeedInv /\ UpdateSignalDelivery => FeedInv'
<1> SUFFICES ASSUME FeedInv, UpdateSignalDelivery  PROVE FeedInv'
  OBVIOUS
<1> DEFINE newest == Len(signals)
<1>1. PICK delivery \in Deliveries :
        signals' = [signals EXCEPT ![newest].delivery = delivery]
  BY DEF UpdateSignalDelivery
<1>2. /\ signals \in Seq(Row) /\ newest \in 1..Len(signals) /\ Len(signals) \in Nat
  BY DEF UpdateSignalDelivery, FeedInv, TypeOKFeed
<1>3. signals[newest] \in Row
  BY <1>2
<1>4. [signals[newest] EXCEPT !.delivery = delivery] \in Row
  BY <1>3 DEF Row
<1>5. signals' = [signals EXCEPT ![newest] = [signals[newest] EXCEPT !.delivery = delivery]]
  BY <1>1, <1>2
<1>6. /\ signals' \in Seq(Row) /\ Len(signals') = Len(signals)
      /\ \A i \in 1..Len(signals) : i # newest => signals'[i] = signals[i]
  BY <1>2, <1>4, <1>5
<1>7. /\ steady' = steady \ {newest} /\ feed # "answered"
      /\ UNCHANGED <<feed, filter, offset, filtered, answer, deepest, shifted>>
  BY DEF UpdateSignalDelivery
<1>8. \A i \in steady' : i \in steady /\ signals'[i] = signals[i]
  BY <1>6, <1>7 DEF FeedInv, TableInv
<1>9. TypeOKFeed'
  BY <1>6, <1>7 DEF FeedInv, TypeOKFeed
<1>10. TableInv' /\ NewInv'
  BY <1>6, <1>7 DEF FeedInv, TableInv, NewInv
<1>11. ScanInv'
  <2>1. Repeats(filtered)' = Repeats(filtered)
    BY <1>7 DEF Repeats, Ids
  <2> QED  BY <1>6, <1>7, <1>8, <2>1 DEF FeedInv, ScanInv
<1>12. NothingMissed' /\ RepeatsOnlyShifted'
  <2>1. shifted' \in Nat
    BY <1>7 DEF FeedInv, TypeOKFeed
  <2> QED  BY <1>7, <2>1, Unanswered
<1> QED  BY <1>9, <1>10, <1>11, <1>12 DEF FeedInv

LEMMA BeginFeedStep == FeedInv /\ BeginFeed => FeedInv'
<1> SUFFICES ASSUME FeedInv, BeginFeed  PROVE FeedInv'
  OBVIOUS
<1>1. PICK f \in Filters : /\ filter' = f
                           /\ feed' = IF f.limit = 0 THEN "answered" ELSE "scanning"
  BY DEF BeginFeed
<1>2. /\ steady' = DOMAIN signals
      /\ UNCHANGED <<signals, offset, filtered, answer, shifted, deepest>>
      /\ offset = 0 /\ filtered = {} /\ answer = {} /\ shifted = 0
      /\ deepest = MaxSignals + 1
  BY DEF BeginFeed, FeedInv, NewInv
<1>3. /\ signals \in Seq(Row) /\ Len(signals) \in Nat /\ MaxSignals \in Nat
      /\ Len(signals) <= MaxSignals /\ DOMAIN signals = 1..Len(signals) /\ f.limit \in Nat
  BY FeedAssumption DEF FeedInv, TypeOKFeed
<1>4. IsFiniteSet({}) /\ Cardinality({}) = 0 /\ Ids({}) = {}
  BY FS_EmptySet DEF Ids
<1>5. /\ Cardinality(answer') = 0 /\ Cardinality(Ids(answer')) = 0
      /\ Cardinality(filtered') = 0 /\ Cardinality(Ids(filtered')) = 0
  BY <1>2, <1>4
<1>6. TypeOKFeed'
  <2>1. steady' \subseteq 1..MaxSignals /\ Cardinality(answer') <= f.limit
    BY <1>2, <1>3, <1>5
  <2> QED  BY <1>1, <1>2, <2>1 DEF FeedInv, TypeOKFeed
<1>7. TableInv' /\ NewInv'
  BY <1>1, <1>2, <1>3, <1>4 DEF FeedInv, TableInv, NewInv
<1>8. ScanInv'
  <2>1. Repeats(filtered)' = 0
    BY <1>5 DEF Repeats, Ids
  <2>2. \A i \in steady' : ~(deepest' <= i)
    BY <1>2, <1>3
  <2> QED  BY <1>1, <1>2, <1>3, <2>1, <2>2 DEF ScanInv
<1>9. NothingMissed'
  <2>1. feed' = "answered" => f.limit = 0
    BY <1>1
  <2>2. \A i \in steady' : i < deepest'
    BY <1>2, <1>3
  <2> QED  BY <1>1, <1>5, <2>1, <2>2 DEF NothingMissed
<1>10. RepeatsOnlyShifted'
  BY <1>2, <1>5 DEF RepeatsOnlyShifted, Ids
<1> QED  BY <1>6, <1>7, <1>8, <1>9, <1>10 DEF FeedInv

LEMMA ReadPageStep == FeedInv /\ ReadPage => FeedInv'
<1> SUFFICES ASSUME FeedInv, ReadPage  PROVE FeedInv'
  OBVIOUS
<1>1. /\ feed = "scanning" /\ filtered' = Found /\ deepest' = Deepest
      /\ UNCHANGED <<signals, filter, steady, shifted>>
  BY DEF ReadPage, Found, Deepest
<1>2. /\ IsFiniteSet(Found) /\ Found \subseteq Entry
      /\ Deepest \in 1..(MaxSignals + 1) /\ filter \in Filters /\ answer = {}
      /\ offset \in Nat /\ Len(signals) \in Nat /\ BatchSize(filter) \in Nat \ {0}
  BY <1>1, FoundShape, PageFacts, DeepestFacts DEF Paging, FeedInv, ScanInv
<1>3. TableInv'
  BY <1>1, <1>2 DEF FeedInv, TableInv
<1>4. CASE LastPage(Found)
  <2> DEFINE A == Ranked(filter, Found)
  <2>1. feed' = "answered" /\ answer' = A /\ offset' = offset
    BY <1>4 DEF ReadPage, Found
  <2>2. /\ A \subseteq Found /\ Cardinality(A) <= filter.limit
        /\ \A i \in steady :
             Admits(filter, signals[i]) /\ i \notin Ids(A) =>
               /\ Cardinality(A) = filter.limit
               /\ \/ i < Deepest
                  \/ \A x \in A : Priority(x.delivery) <= Priority(signals[i].delivery)
        /\ Repeats(A) <= shifted
        /\ shifted = 0 =>
             \A x, y \in A :
               Precedes(x, y) => Priority(x.delivery) < Priority(y.delivery) \/ x.id > y.id
    BY <1>1, <1>4, AnswerRight
  <2> HIDE DEF A
  <2>3. TypeOKFeed'
    BY <1>1, <1>2, <2>1, <2>2 DEF FeedInv, TypeOKFeed
  <2>4. NewInv' /\ ScanInv'
    BY <2>1 DEF NewInv, ScanInv
  <2>5. NothingMissed'
    <3>1. Ids(answer)' = Ids(A)
      BY <2>1 DEF Ids
    <3> QED  BY <1>1, <2>1, <2>2, <3>1 DEF NothingMissed
  <2>6. RepeatsOnlyShifted'
    <3>1. Cardinality(answer') - Cardinality(Ids(answer)') = Repeats(A)
      BY <2>1 DEF Repeats, Ids
    <3> QED  BY <1>1, <2>1, <2>2, <3>1 DEF RepeatsOnlyShifted
  <2> QED  BY <1>3, <2>3, <2>4, <2>5, <2>6 DEF FeedInv
<1>5. CASE ~LastPage(Found)
  <2>1. offset' = NextOffset /\ UNCHANGED <<feed, answer>>
    BY <1>5 DEF ReadPage, Found
  <2>2. NextOffset \in Nat /\ NextOffset <= Len(signals)
    BY <1>1, <1>2, <1>5, FoundShape, PageFacts DEF LastPage, NextOffset
  <2>3. TypeOKFeed'
    BY <1>1, <1>2, <2>1, <2>2 DEF FeedInv, TypeOKFeed
  <2>4. ScanInv'
    <3>1. Repeats(filtered)' = Repeats(Found)
      BY <1>1 DEF Repeats, Ids
    <3>2. /\ \A x \in Found : x.place <= NextOffset /\ Deepest <= x.id
          /\ \A x, y \in Found : x.place = y.place => x = y
          /\ shifted = 0 => \A x \in Found : x.id + x.place = Len(signals) + 1
      BY <1>1, FoundShape
    <3>3. \A i \in steady :
            Deepest <= i /\ Admits(filter, signals[i]) =>
              \E x \in Found : x.id = i /\ x.delivery = signals[i].delivery
      BY <1>1, FoundCovers
    <3>4. /\ Repeats(Found) <= shifted
          /\ Deepest + NextOffset <= Len(signals) + 1
          /\ Repeats(Found) + Len(signals) + 1 <= shifted + Deepest + NextOffset
      BY <1>1, <2>2, FoundRepeats
    <3> QED  BY <1>1, <1>2, <2>1, <3>1, <3>2, <3>3, <3>4 DEF ScanInv
  <2>5. NewInv'
    BY <1>1, <2>1 DEF NewInv
  <2>6. NothingMissed' /\ RepeatsOnlyShifted'
    <3>1. shifted' \in Nat
      BY <1>1 DEF FeedInv, TypeOKFeed
    <3> QED  BY <1>1, <2>1, <3>1, Unanswered
  <2> QED  BY <1>3, <2>3, <2>4, <2>5, <2>6 DEF FeedInv
<1> QED  BY <1>4, <1>5

LEMMA FeedStep == FeedInv /\ NextFeed => FeedInv'
BY InsertSignalStep, UpdateSignalDeliveryStep, BeginFeedStep, ReadPageStep DEF NextFeed

-----------------------------------------------------------------------------
(* The three reads together. *)

(* The inductive invariant. *)
IInv == reading \in {"feed", "detail", "rules"} /\ FeedInv /\ DetailInv /\ RulesInv

LEMMA FeedStutter == FeedInv /\ UNCHANGED feedVars => FeedInv'
BY DEF feedVars, FeedInv, TypeOKFeed, TableInv, NewInv, ScanInv, NothingMissed,
       RepeatsOnlyShifted, Repeats, Ids

LEMMA DetailStutter == DetailInv /\ UNCHANGED detailVars => DetailInv'
BY DEF detailVars, DetailInv, TypeOKDetail, RequestInv, ActiveSourceShown

LEMMA RulesStutter == RulesInv /\ UNCHANGED rulesVars => RulesInv'
BY DEF rulesVars, RulesInv, TypeOKRules, VerdictsFounded, OneSided

(* Whatever is read, and whatever writes to its tables meanwhile, the invariant *)
(* holds in every state.                                                        *)
THEOREM Invariance == Spec => []IInv
<1>1. Init => IInv
  BY FeedInit, DetailInit, RulesInit DEF Init, IInv
<1>2. IInv /\ [Next]_vars => IInv'
  <2> SUFFICES ASSUME IInv, [Next]_vars  PROVE IInv'
    OBVIOUS
  <2>1. CASE UNCHANGED vars
    BY <2>1, FeedStutter, DetailStutter, RulesStutter DEF vars, IInv
  <2>2. CASE Next
    <3>1. reading' = reading
      BY <2>2 DEF Next
    <3>2. CASE NextFeed /\ UNCHANGED <<detailVars, rulesVars>>
      BY <3>1, <3>2, FeedStep, DetailStutter, RulesStutter DEF IInv
    <3>3. CASE NextDetail /\ UNCHANGED <<feedVars, rulesVars>>
      BY <3>1, <3>3, DetailStep, FeedStutter, RulesStutter DEF IInv
    <3>4. CASE NextRules /\ UNCHANGED <<feedVars, detailVars>>
      BY <3>1, <3>4, RulesStep, FeedStutter, DetailStutter DEF IInv
    <3> QED  BY <2>2, <3>2, <3>3, <3>4 DEF Next
  <2> QED  BY <2>1, <2>2
<1> QED  BY <1>1, <1>2, PTL DEF Spec

(* Every variable keeps its type, and no answer of the feed is longer than was *)
(* asked for.                                                                  *)
THEOREM TypeCorrect == Spec => []TypeOK
<1>1. IInv => TypeOK
  BY DEF IInv, FeedInv, DetailInv, RulesInv, TypeOK
<1> QED  BY <1>1, Invariance, PTL

(* The feed leaves out a steady signal only if it is full of what is as urgent, *)
(* or the signal is older than all that was read.                               *)
THEOREM NothingMissedCorrect == Spec => []NothingMissed
<1>1. IInv => NothingMissed
  BY DEF IInv, FeedInv
<1> QED  BY <1>1, Invariance, PTL

(* The feed repeats a signal at most once for each insert that came between. *)
THEOREM RepeatsOnlyShiftedCorrect == Spec => []RepeatsOnlyShifted
<1>1. IInv => RepeatsOnlyShifted
  BY DEF IInv, FeedInv
<1> QED  BY <1>1, Invariance, PTL

(* A client never gets candles of a source that was not active. *)
THEOREM ActiveSourceShownCorrect == Spec => []ActiveSourceShown
<1>1. IInv => ActiveSourceShown
  BY DEF IInv, DetailInv
<1> QED  BY <1>1, Invariance, PTL

(* No verdict without the indicators that it rests on. *)
THEOREM VerdictsFoundedCorrect == Spec => []VerdictsFounded
<1>1. IInv => VerdictsFounded
  BY DEF IInv, RulesInv
<1> QED  BY <1>1, Invariance, PTL

(* No strategy advises both ways unless its thresholds overlap. *)
THEOREM OneSidedCorrect == Spec => []OneSided
<1>1. IInv => OneSided
  BY DEF IInv, RulesInv
<1> QED  BY <1>1, Invariance, PTL
=============================================================================
