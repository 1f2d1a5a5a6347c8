--------------------- MODULE SignalDeliveryHistoryProofs ---------------------
(***************************************************************************)
(* Who is alerted: a theorem about SignalDelivery under its observer, for  *)
(* any number of users, symbols, tasks, signals, requests and failures.    *)
(***************************************************************************)
EXTENDS SignalDeliveryHistory, SignalLedgerProofs

(* The observer changes nothing. *)
LEMMA ObserverOnlyWatches == HSpec => Spec
<1>1. HInit => Init
  BY DEF HInit
<1>2. [HNext]_hvars => [Next]_vars
  BY DEF HNext, hvars
<1> QED  BY <1>1, <1>2, PTL DEF HSpec, Spec

(* While a signal is delivered the users watched throughout are eligible now, *)
(* and those eligible now have been eligible at some moment.  Between the     *)
(* SELECT of the watchers and the INSERTs the same holds of the users found,  *)
(* and after them of the recipients, of which nobody is removed later.        *)
Entitled(t) ==
  LET i == frame[t].id IN
  /\ pc[t] \in Delivering =>
       /\ always[i] \subseteq Eligible(signals[i].symbol)
       /\ Eligible(signals[i].symbol) \subseteq ever[i]
  /\ pc[t] = "notify" =>
       /\ always[i] \subseteq frame[t].watchers
       /\ frame[t].watchers \subseteq ever[i]
  /\ pc[t] = "update" /\ frame[t].allow => always[i] \subseteq Recipients(i)

EntitledInv == AlertsTheEntitled /\ \A t \in Tasks : Entitled(t)

(* What the observer notes in a step: its sets only shrink and grow, and the *)
(* signals being delivered are compared with who is eligible after it.       *)
LEMMA ObserverStep ==
  ASSUME HNext, NEW i \in SignalIds
  PROVE  /\ always'[i] \subseteq always[i] /\ ever[i] \subseteq ever'[i]
         /\ InFlight(i)' => /\ always'[i] \subseteq Eligible(signals[i].symbol)'
                            /\ Eligible(signals[i].symbol)' \subseteq ever'[i]
<1> DEFINE seen == InFlight(i) \/ InFlight(i)'
           E == Eligible(signals[i].symbol)'
<1>1. /\ always'[i] = IF ~seen THEN always[i] ELSE always[i] \cap E
      /\ ever'[i] = IF ~seen THEN ever[i] ELSE ever[i] \cup E
  BY DEF HNext
<1>2. InFlight(i)' => seen
  OBVIOUS
<1> HIDE DEF seen, E
<1>3. /\ always'[i] \subseteq always[i] /\ ever[i] \subseteq ever'[i]
      /\ InFlight(i)' => always'[i] \subseteq E /\ E \subseteq ever'[i]
  BY <1>1, <1>2
<1> QED  BY <1>3 DEF E

(* How a task gets to the two steps that Entitled speaks of. *)
LEMMA ArrivalStep ==
  ASSUME TypeOK, [Next]_vars, NEW u \in Tasks
  PROVE  /\ pc'[u] = "notify" =>
              \/ SelectWatchers(u)
              \/ pc[u] = "notify" /\ frame'[u] = frame[u]
         /\ pc'[u] = "update" =>
              \/ CreateNotifications(u)
              \/ ~frame'[u].allow
              \/ pc[u] = "update" /\ frame'[u] = frame[u]
<1> DEFINE Goal ==
      /\ pc'[u] = "notify" =>
              \/ SelectWatchers(u)
              \/ pc[u] = "notify" /\ frame'[u] = frame[u]
      /\ pc'[u] = "update" =>
              \/ CreateNotifications(u)
              \/ ~frame'[u].allow
              \/ pc[u] = "update" /\ frame'[u] = frame[u]
<1>1. ASSUME NEW t \in Tasks, Evaluate(t) \/ PipelineStep(t) PROVE Goal
  <2>1. CASE u # t
    BY <1>1, <2>1, OthersUnchanged
  <2>2. CASE u = t
    <3>1. CASE ResolvePolicy(t)
      <4> DEFINE reason == PolicyReason(runtime[target[t]])
      <4>1. /\ frame'[t].allow = (reason = "none")
            /\ pc'[t] = IF reason = "none" THEN "audience" ELSE "update"
        BY <3>1 DEF ResolvePolicy, Goto, TypeOK, Frame
      <4> HIDE DEF reason
      <4>2. CASE reason = "none"
        BY <2>2, <4>1, <4>2
      <4>3. CASE reason # "none"
        BY <2>2, <4>1, <4>3
      <4> QED  BY <4>2, <4>3
    <3>2. CASE Evaluate(t) \/ ReadThreshold(t) \/ InsertSignalIfNew(t) \/ ReadAudience(t)
                 \/ UpdateSignalDelivery(t) \/ Broadcast(t) \/ ResumeAfterBroadcast(t)
      BY <2>2, <3>2 DEF Evaluate, ReadThreshold, InsertSignalIfNew, ReadAudience,
         UpdateSignalDelivery, Broadcast, ResumeAfterBroadcast, Goto, EndTurn, TypeOK
    <3>3. CASE SelectWatchers(t) \/ CreateNotifications(t)
      BY <2>2, <3>3 DEF SelectWatchers, CreateNotifications, Goto, TypeOK
    <3> QED  BY <1>1, <3>1, <3>2, <3>3 DEF PipelineStep
  <2> QED  BY <2>1, <2>2
<1>2. ASSUME NEW T \in SUBSET Tasks, Reset(T) PROVE Goal
  BY <1>2 DEF Reset
<1>3. ASSUME UNCHANGED <<pc, frame>> PROVE Goal
  BY <1>3
<1>4. ASSUME NEW t \in Tasks, Abort(t) PROVE Goal
  BY <1>2, <1>4, {t} \in SUBSET Tasks DEF Abort
<1>5. ASSUME Crash PROVE Goal
  BY <1>2, <1>5, Tasks \in SUBSET Tasks DEF Crash
<1>6. ASSUME NEW t \in Tasks, RefreshRuntimeState(t) PROVE Goal
  BY <1>3, <1>6 DEF RefreshRuntimeState
<1>7. ASSUME HandlerStep \/ Tick \/ UNCHANGED vars PROVE Goal
  BY <1>3, <1>7 DEF HandlerStep, AddWatchlistItem, DeleteWatchlistItem,
     WriteNotificationSettings, MarkNotificationRead, pipeline, Tick, vars
<1> HIDE DEF Goal
<1>8. Goal
  BY <1>1, <1>4, <1>5, <1>6, <1>7 DEF Next
<1> QED  BY <1>8 DEF Goal

(* Recipients are only ever added, and those that are were found eligible. *)
LEMMA RecipientsStep ==
  ASSUME IInv, [Next]_vars, NEW i \in SignalIds
  PROVE  /\ Recipients(i) \subseteq Recipients(i)'
         /\ \/ Recipients(i)' = Recipients(i)
            \/ \E t \in Tasks : /\ CreateNotifications(t) /\ frame[t].id = i
                                /\ Recipients(i)' = Recipients(i) \cup frame[t].watchers
<1>1. ASSUME NEW t \in Tasks, CreateNotifications(t)
      PROVE  IF i = frame[t].id THEN Recipients(i)' = Recipients(i) \cup frame[t].watchers
             ELSE Recipients(i)' = Recipients(i)
  <2>1. frame[t].watchers \subseteq Users
    BY DEF IInv, TypeOK, Frame
  <2>2. notifications' = notifications
          \cup ((frame[t].watchers \ Recipients(frame[t].id)) \X {frame[t].id})
    BY <1>1 DEF CreateNotifications
  <2> QED  BY <2>1, <2>2 DEF Recipients
<1>2. UNCHANGED notifications => Recipients(i)' = Recipients(i)
  BY DEF Recipients
<1>3. ASSUME NEW t \in Tasks, InsertSignalIfNew(t) \/ UpdateSignalDelivery(t)
      PROVE  UNCHANGED notifications
  BY <1>3 DEF InsertSignalIfNew, UpdateSignalDelivery
<1> QED  BY <1>1, <1>2, <1>3, WritersStep

LEMMA EntitledStep == IInv /\ Busy' /\ PolicyInv /\ EntitledInv /\ [HNext]_hvars => EntitledInv'
<1> SUFFICES ASSUME IInv, Busy', PolicyInv, EntitledInv, [HNext]_hvars PROVE EntitledInv'
  OBVIOUS
<1>1. CASE UNCHANGED hvars
  BY <1>1 DEF hvars, vars, tables, EntitledInv, AlertsTheEntitled, Entitled, Recipients,
     Eligible, Watchers, IsFinal, Stored
<1>2. CASE HNext
  <2>1. [Next]_vars
    BY <1>2 DEF HNext
  <2>2. ASSUME NEW u \in Tasks PROVE Entitled(u)'
    <3>1. CASE pc'[u] \notin Delivering
      BY <3>1 DEF Entitled, Delivering
    <3>2. CASE pc'[u] \in Delivering
      <4>1. PICK i \in SignalIds : i = frame'[u].id
        BY <3>2 DEF Busy, Stored
      <4>2. InFlight(i)'
        BY <3>2, <4>1 DEF InFlight, Handles, Delivering
      <4>3. /\ always'[i] \subseteq always[i] /\ ever[i] \subseteq ever'[i]
            /\ always'[i] \subseteq Eligible(signals[i].symbol)'
            /\ Eligible(signals[i].symbol)' \subseteq ever'[i]
        BY <1>2, <4>2, ObserverStep
      <4>4. ASSUME pc'[u] = "notify"
            PROVE  always'[i] \subseteq frame'[u].watchers /\ frame'[u].watchers \subseteq ever'[i]
        <5>1. CASE SelectWatchers(u)
          <6>1. /\ pc[u] = "watchers" /\ frame'[u].watchers = Eligible(target[u])
                /\ frame[u].id = i /\ UNCHANGED tables
            BY <4>1, <5>1 DEF SelectWatchers, At, IInv, TypeOK, Frame
          <6>2. target[u] = signals[i].symbol
            BY <6>1 DEF PolicyInv, Delivering
          <6>3. frame'[u].watchers = Eligible(signals[i].symbol)'
            BY <6>1, <6>2 DEF tables, Eligible, Watchers
          <6> QED  BY <4>3, <6>3
        <5>2. CASE pc[u] = "notify" /\ frame'[u] = frame[u]
          BY <4>1, <4>3, <5>2 DEF EntitledInv, Entitled
        <5> QED  BY <2>1, <4>4, <5>1, <5>2, ArrivalStep DEF IInv
      <4>5. ASSUME pc'[u] = "update", frame'[u].allow
            PROVE  always'[i] \subseteq Recipients(i)'
        <5>1. CASE CreateNotifications(u)
          <6>1. /\ pc[u] = "notify" /\ frame[u].id = i /\ frame[u].watchers \subseteq Users
                /\ notifications' = notifications
                     \cup ((frame[u].watchers \ Recipients(i)) \X {i})
            BY <4>1, <5>1 DEF CreateNotifications, At, IInv, TypeOK, Frame
          <6>2. frame[u].watchers \subseteq Recipients(i)'
            BY <6>1 DEF Recipients
          <6>3. always[i] \subseteq frame[u].watchers
            BY <6>1 DEF EntitledInv, Entitled
          <6> QED  BY <4>3, <6>2, <6>3
        <5>2. CASE pc[u] = "update" /\ frame'[u] = frame[u]
          <6>1. always[i] \subseteq Recipients(i)
            BY <4>1, <4>5, <5>2 DEF EntitledInv, Entitled
          <6>2. Recipients(i) \subseteq Recipients(i)'
            BY <2>1, RecipientsStep
          <6> QED  BY <4>3, <6>1, <6>2
        <5> QED  BY <2>1, <4>5, <5>1, <5>2, ArrivalStep DEF IInv
      <4> QED  BY <4>1, <4>3, <4>4, <4>5 DEF Entitled
    <3> QED  BY <3>1, <3>2
  <2>3. ASSUME NEW i \in Stored' PROVE Recipients(i)' \subseteq ever'[i]
    <3>1. i \in SignalIds /\ ever[i] \subseteq ever'[i]
      BY <1>2, ObserverStep DEF Stored
    <3>2. Recipients(i) \subseteq ever[i]
      BY <3>1 DEF EntitledInv, AlertsTheEntitled, IInv, OutcomeInv
    <3>3. ASSUME NEW t \in Tasks, CreateNotifications(t), frame[t].id = i
          PROVE  frame[t].watchers \subseteq ever[i]
      BY <3>3 DEF CreateNotifications, At, EntitledInv, Entitled
    <3> QED  BY <2>1, <3>1, <3>2, <3>3, RecipientsStep
  <2>4. ASSUME NEW i \in Stored', IsFinal(i)', signals'[i].delivery # "suppressed"
        PROVE  always'[i] \subseteq Recipients(i)'
    <3>1. i \in SignalIds /\ always'[i] \subseteq always[i] /\ Recipients(i) \subseteq Recipients(i)'
      BY <1>2, <2>1, ObserverStep, RecipientsStep DEF Stored
    <3>2. always[i] \subseteq Recipients(i)
      <4>1. CASE signals'[i] = signals[i]
        BY <2>4, <3>1, <4>1 DEF EntitledInv, AlertsTheEntitled, IsFinal, Stored
      <4>2. ASSUME NEW t \in Tasks, InsertSignalIfNew(t) PROVE signals'[i] = signals[i]
        BY <2>4, <3>1, <4>2, InsertStep DEF IsFinal, Final
      <4>3. ASSUME NEW t \in Tasks, UpdateSignalDelivery(t), signals'[i] # signals[i]
            PROVE  always[i] \subseteq Recipients(i)
        <5>1. frame[t].id = i /\ frame[t].allow
          BY <2>4, <3>1, <4>3, SettleStep
        <5>2. pc[t] = "update"
          BY <4>3 DEF UpdateSignalDelivery, At
        <5> QED  BY <5>1, <5>2 DEF EntitledInv, Entitled
      <4>4. ASSUME NEW t \in Tasks, CreateNotifications(t) PROVE signals'[i] = signals[i]
        BY <4>4, NotifyStep
      <4> QED  BY <2>1, <4>1, <4>2, <4>3, <4>4, WritersStep
    <3> QED  BY <3>1, <3>2
  <2> QED  BY <2>2, <2>3, <2>4 DEF EntitledInv, AlertsTheEntitled
<1> QED  BY <1>1, <1>2

(* A user who watched the symbol with web alerts on throughout a delivery that *)
(* was not suppressed has the notification, and nobody has one who was not     *)
(* entitled to it at some moment of the delivery, for every interleaving with  *)
(* watchlist and settings requests, refreshes, failures and restarts.          *)
THEOREM AlertsTheEntitledCorrect == HSpec => []AlertsTheEntitled
<1>1. HInit => EntitledInv
  BY DEF HInit, Init, EntitledInv, AlertsTheEntitled, Entitled, Stored, Delivering
<1>2. EntitledInv => AlertsTheEntitled
  BY DEF EntitledInv
<1>3. Spec => []Busy /\ []IInv /\ []PolicyInv
  <2>1. IInv => Busy
    BY DEF IInv
  <2> QED  BY <2>1, Invariance, PolicyInvariance, PTL
<1> QED
  BY <1>1, <1>2, <1>3, EntitledStep, ObserverOnlyWatches, PTL DEF HSpec
=============================================================================
