------------------------- MODULE SignalLedgerProofs -------------------------
(***************************************************************************)
(* Theorems about what the steps of SignalDelivery may do: who writes to a *)
(* signal, who may be alerted when, and that the pipeline implements the   *)
(* ledger.                                                                 *)
(***************************************************************************)
EXTENDS SignalDeliveryProofs

(* Three steps of the pipeline write to the tables of signals and of *)
(* notifications; nothing else does.                                 *)
LEMMA WritersStep ==
  ASSUME [Next]_vars
  PROVE  \/ UNCHANGED <<signals, notifications>>
         \/ \E t \in Tasks : \/ InsertSignalIfNew(t)
                             \/ CreateNotifications(t)
                             \/ UpdateSignalDelivery(t)
BY DEF Next, PipelineStep, Evaluate, ReadThreshold, ResolvePolicy, ReadAudience,
   SelectWatchers, Broadcast, ResumeAfterBroadcast, Abort, Crash, Reset,
   RefreshRuntimeState, HandlerStep, AddWatchlistItem, DeleteWatchlistItem,
   WriteNotificationSettings, MarkNotificationRead, Tick, tables, handled, pipeline, vars

(* insert_signal_if_new: no row, or one pending row that no row of its kind *)
(* precedes by less than the window.                                        *)
LEMMA InsertStep ==
  ASSUME IInv, NEW t \in Tasks, InsertSignalIfNew(t)
  PROVE  /\ UNCHANGED notifications
         /\ \/ UNCHANGED signals
            \/ \E i \in SignalIds \ Stored :
                 /\ signals'[i] \in SignalRow /\ signals'[i].delivery = "pending"
                 /\ \A j \in Stored :
                      signals[j].symbol = signals'[i].symbol
                        /\ signals[j].kind = signals'[i].kind
                        => signals[j].created_at + DedupSeconds < signals'[i].created_at
                 /\ \A j \in SignalIds \ {i} : signals'[j] = signals[j]
<1> USE DEF IInv
<1>1. UNCHANGED notifications
  BY DEF InsertSignalIfNew
<1>2. CASE Recent(target[t], frame[t].kind, frame[t].threshold)
  BY <1>1, <1>2 DEF InsertSignalIfNew
<1>3. CASE ~Recent(target[t], frame[t].kind, frame[t].threshold)
  <2> DEFINE row == [symbol |-> target[t], kind |-> frame[t].kind, created_at |-> now,
                     delivery |-> "pending", reason |-> "none", count |-> 0]
  <2>1. PICK i \in SignalIds \ Stored : signals' = [signals EXCEPT ![i] = row]
    BY <1>3 DEF InsertSignalIfNew
  <2>2. row \in SignalRow /\ now \in Nat /\ DedupSeconds \in Nat
    BY ConfigAssumption
    DEF Busy, InsertSignalIfNew, At, SignalRow, Deliveries, Reasons, TypeOK, Working
  <2>3. /\ row.symbol = target[t] /\ row.kind = frame[t].kind
        /\ row.created_at = now /\ row.delivery = "pending"
    OBVIOUS
  <2> HIDE DEF row
  <2>4. signals'[i] = row /\ \A j \in SignalIds \ {i} : signals'[j] = signals[j]
    BY <2>1 DEF TypeOK
  <2>5. frame[t].threshold \in Int /\ frame[t].threshold <= now - DedupSeconds
    BY DEF InsertSignalIfNew, At, ClockInv, TypeOK, Frame
  <2>6. \A j \in Stored : signals[j].created_at \in Nat
    BY DEF TypeOK, Stored, SignalRow
  <2>7. \A j \in Stored : signals[j].symbol = target[t] /\ signals[j].kind = frame[t].kind
          => signals[j].created_at + DedupSeconds < now
    BY <1>3, <2>2, <2>5, <2>6 DEF Recent
  <2> QED  BY <1>1, <2>2, <2>3, <2>4, <2>7
<1> QED  BY <1>2, <1>3

(* create_notifications_for_signal: nothing but new recipients of the pending *)
(* signal that the task delivers, while its alerts are allowed.               *)
LEMMA NotifyStep ==
  ASSUME IInv, NEW t \in Tasks, CreateNotifications(t)
  PROVE  /\ UNCHANGED signals
         /\ Handles(t, frame[t].id) /\ IsPending(frame[t].id)
         /\ \A n \in notifications' \ notifications : n[2] = frame[t].id
         /\ \A j : j # frame[t].id => Recipients(j)' = Recipients(j)
<1> DEFINE i == frame[t].id
           fresh == frame[t].watchers \ Recipients(i)
<1>1. pc[t] = "notify" /\ UNCHANGED signals /\ notifications' = notifications \cup (fresh \X {i})
  BY DEF CreateNotifications, At
<1>2. Handles(t, i) /\ IsPending(i)
  BY <1>1 DEF IInv, HandledInv, Handles, Delivering
<1> HIDE DEF fresh
<1>3. \A n \in notifications' \ notifications : n[2] = i
  BY <1>1
<1>4. \A j : j # i => Recipients(j)' = Recipients(j)
  BY <1>1 DEF Recipients
<1> QED  BY <1>1, <1>2, <1>3, <1>4

(* update_signal_delivery: the pending signal that the task delivers gets a *)
(* final outcome, the one that agrees with its recipients and the policy.   *)
LEMMA SettleStep ==
  ASSUME IInv, NEW t \in Tasks, UpdateSignalDelivery(t)
  PROVE  LET i == frame[t].id IN
         /\ UNCHANGED notifications
         /\ Handles(t, i) /\ i \in SignalIds /\ IsPending(i)
         /\ signals'[i] \in SignalRow /\ signals'[i].delivery \in Final
         /\ signals'[i].symbol = signals[i].symbol /\ signals'[i].kind = signals[i].kind
         /\ signals'[i].created_at = signals[i].created_at
         /\ signals'[i].count = Cardinality(Recipients(i))
         /\ (signals'[i].delivery = "notified") <=> (Recipients(i) # {})
         /\ ~frame[t].allow => signals'[i].delivery = "suppressed"
         /\ \A j \in SignalIds \ {i} : signals'[j] = signals[j]
<1> DEFINE i == frame[t].id
           o == Outcome(frame[t])
           row == [signals[i] EXCEPT !.delivery = o.delivery, !.reason = o.reason,
                                     !.count = frame[t].count]
<1> USE DEF IInv
<1>1. pc[t] = "update" /\ UNCHANGED notifications /\ signals' = [signals EXCEPT ![i] = row]
  BY DEF UpdateSignalDelivery, At
<1>2. /\ Handles(t, i) /\ i \in SignalIds /\ IsPending(i) /\ signals[i] \in SignalRow
      /\ frame[t].count = Cardinality(Recipients(i))
      /\ ~frame[t].allow => frame[t].count = 0
  BY <1>1 DEF HandledInv, Handles, Delivering, IsPending, Stored, TypeOK
<1>3. /\ o.delivery \in Final /\ o.reason \in Reasons /\ frame[t].count \in Nat
      /\ (o.delivery = "notified") <=> (frame[t].count > 0)
      /\ ~frame[t].allow => o.delivery = "suppressed"
  <2>1. frame[t] \in Frame /\ frame[t].count \in Nat
    BY DEF TypeOK, Frame
  <2> QED  BY <1>2, <2>1, OutcomeType DEF Outcome
<1>4. Recipients(i) \in SUBSET Users
  BY DEF Recipients
<1>5. (o.delivery = "notified") <=> (Recipients(i) # {})
  BY <1>2, <1>3, <1>4, UserSets
<1> HIDE DEF o
<1>6. /\ row \in SignalRow /\ row.delivery = o.delivery /\ row.count = frame[t].count
  <2>1. o.delivery \in Deliveries
    BY <1>3 DEF Deliveries
  <2>2. row \in SignalRow
    BY <1>2, <1>3, <2>1, RowUpdate
  <2>3. row.delivery = o.delivery /\ row.count = frame[t].count
    BY <1>2 DEF SignalRow
  <2> QED  BY <2>2, <2>3
<1>7. /\ row.symbol = signals[i].symbol /\ row.kind = signals[i].kind
      /\ row.created_at = signals[i].created_at
  BY <1>2 DEF SignalRow
<1> HIDE DEF row
<1>8. signals'[i] = row /\ \A j \in SignalIds \ {i} : signals'[j] = signals[j]
  BY <1>1, <1>2 DEF TypeOK
<1> QED  BY <1>1, <1>2, <1>3, <1>5, <1>6, <1>7, <1>8

-----------------------------------------------------------------------------
(* A task starts to handle a signal only by inserting it: every later step of *)
(* a delivery keeps the signal, and the next decision drops it.               *)
LEMMA TakenUpStep ==
  ASSUME TypeOK, [Next]_vars, NEW i \in Stored, NEW t \in Tasks, Handles(t, i)'
  PROVE  Handles(t, i)
<1> USE DEF TypeOK, Handles
<1>1. CASE pc'[t] = pc[t] /\ frame'[t] = frame[t]
  BY <1>1
<1>2. CASE Evaluate(t) \/ ReadThreshold(t) \/ Broadcast(t) \/ ResumeAfterBroadcast(t)
  BY <1>2 DEF Evaluate, ReadThreshold, Goto, Broadcast, ResumeAfterBroadcast, EndTurn
<1>3. CASE InsertSignalIfNew(t)
  <2>1. CASE Recent(target[t], frame[t].kind, frame[t].threshold)
    BY <1>3, <2>1 DEF InsertSignalIfNew, EndTurn
  <2>2. CASE ~Recent(target[t], frame[t].kind, frame[t].threshold)
    <3>1. PICK fresh \in SignalIds \ Stored : frame' = [frame EXCEPT ![t].id = fresh]
      BY <1>3, <2>2 DEF InsertSignalIfNew
    <3>2. frame'[t].id = fresh
      BY <3>1 DEF Frame
    <3> QED  BY <3>2
  <2> QED  BY <2>1, <2>2
<1>4. CASE ResolvePolicy(t)
  <2>1. frame'[t].id = frame[t].id
    BY <1>4 DEF ResolvePolicy, Frame
  <2> QED  BY <1>4, <2>1 DEF ResolvePolicy, At
<1>5. CASE ReadAudience(t)
  <2>1. frame'[t].id = frame[t].id
    BY <1>5 DEF ReadAudience, Frame
  <2> QED  BY <1>5, <2>1 DEF ReadAudience, At
<1>6. CASE SelectWatchers(t)
  <2>1. frame'[t].id = frame[t].id
    BY <1>6 DEF SelectWatchers, Frame
  <2> QED  BY <1>6, <2>1 DEF SelectWatchers, At
<1>7. CASE CreateNotifications(t)
  <2>1. frame'[t].id = frame[t].id
    BY <1>7 DEF CreateNotifications, Frame
  <2> QED  BY <1>7, <2>1 DEF CreateNotifications, At
<1>8. CASE UpdateSignalDelivery(t)
  BY <1>8 DEF UpdateSignalDelivery, Goto
<1>9. ASSUME NEW u \in Tasks \ {t}, Evaluate(u) \/ PipelineStep(u) PROVE Handles(t, i)
  BY <1>1, <1>9, OthersUnchanged
<1>10. ASSUME NEW T \in SUBSET Tasks, Reset(T) PROVE Handles(t, i)
  BY <1>1, <1>10 DEF Reset
<1>11. ASSUME NEW u \in Tasks, Abort(u) PROVE Handles(t, i)
  BY <1>10, <1>11, {u} \in SUBSET Tasks DEF Abort
<1>12. CASE Crash
  BY <1>10, <1>12, Tasks \in SUBSET Tasks DEF Crash
<1>13. CASE HandlerStep \/ Tick \/ UNCHANGED vars \/ \E u \in Tasks : RefreshRuntimeState(u)
  BY <1>1, <1>13 DEF HandlerStep, AddWatchlistItem, DeleteWatchlistItem,
     WriteNotificationSettings, MarkNotificationRead, pipeline, Tick, vars, RefreshRuntimeState
<1>14. CASE \E u \in Tasks : Evaluate(u) \/ PipelineStep(u)
  BY <1>2, <1>3, <1>4, <1>5, <1>6, <1>7, <1>8, <1>9, <1>14 DEF PipelineStep
<1> QED  BY <1>11, <1>12, <1>13, <1>14 DEF Next

(* No signal is taken up a second time, and each of the writers is the task *)
(* that handles the signal it writes, at a step of its pipeline.            *)
THEOREM OnlyTheHandlerWritesCorrect == Spec => OnlyTheHandlerWrites
<1> DEFINE TakenUpOnce(i) == \A t \in Tasks : Handles(t, i)' => Handles(t, i)
           Written(i) == signals'[i] # signals[i] \/ Recipients(i)' # Recipients(i)
           ByItsHandler(i) == \E t \in Tasks : Handles(t, i) /\ loop = t /\ pc'[t] # pc[t]
<1>1. ASSUME IInv, [Next]_vars
      PROVE  \A i \in Stored : TakenUpOnce(i) /\ (Written(i) => ByItsHandler(i))
  <2>1. \A i \in Stored : TakenUpOnce(i)
    BY <1>1, TakenUpStep DEF IInv
  <2>2. CASE UNCHANGED <<signals, notifications>>
    BY <2>1, <2>2 DEF Recipients
  <2>3. ASSUME NEW t \in Tasks, InsertSignalIfNew(t) PROVE \A i \in Stored : ~Written(i)
    BY <1>1, <2>3, InsertStep DEF Recipients, Stored
  <2>4. ASSUME NEW t \in Tasks, CreateNotifications(t)
        PROVE  \A i \in Stored : Written(i) => ByItsHandler(i)
    <3>1. loop = t /\ pc'[t] # pc[t]
      BY <1>1, <2>4 DEF CreateNotifications, At, Goto, IInv, TypeOK
    <3>2. /\ UNCHANGED signals /\ Handles(t, frame[t].id)
          /\ \A j : j # frame[t].id => Recipients(j)' = Recipients(j)
      BY <1>1, <2>4, NotifyStep
    <3> QED  BY <3>1, <3>2
  <2>5. ASSUME NEW t \in Tasks, UpdateSignalDelivery(t)
        PROVE  \A i \in Stored : Written(i) => ByItsHandler(i)
    <3>1. loop = t /\ pc'[t] # pc[t]
      BY <1>1, <2>5 DEF UpdateSignalDelivery, At, Goto, IInv, TypeOK
    <3>2. /\ UNCHANGED notifications /\ Handles(t, frame[t].id)
          /\ \A j \in SignalIds \ {frame[t].id} : signals'[j] = signals[j]
      BY <1>1, <2>5, SettleStep
    <3> QED  BY <3>1, <3>2 DEF Recipients, Stored
  <2> HIDE DEF TakenUpOnce, Written, ByItsHandler
  <2> QED  BY <1>1, <2>1, <2>2, <2>3, <2>4, <2>5, WritersStep
<1> DEFINE Kept ==
      \A i \in Stored :
        /\ \A t \in Tasks : Handles(t, i)' => Handles(t, i)
        /\ signals'[i] # signals[i] \/ Recipients(i)' # Recipients(i)
             => \E t \in Tasks : Handles(t, i) /\ loop = t /\ pc'[t] # pc[t]
<1>2. IInv /\ [Next]_vars => Kept
  BY <1>1
<1> QED  BY <1>2, Invariance, PTL DEF Spec, OnlyTheHandlerWrites

-----------------------------------------------------------------------------
(* The policy that a task has resolved stays what it is until the task is done *)
(* with the notifications: the runtime state is written between two awaits,    *)
(* and the task has the event loop to itself.                                  *)
PolicyInv ==
  \A t \in Tasks :
    /\ pc[t] \in Delivering => signals[frame[t].id].symbol = target[t]
    /\ pc[t] \in {"audience", "watchers", "notify"} => PolicyReason(runtime[target[t]]) = "none"

LEMMA PolicyStep == IInv /\ PolicyInv /\ [Next]_vars => PolicyInv'
<1> SUFFICES ASSUME IInv, PolicyInv, [Next]_vars PROVE PolicyInv'
  OBVIOUS
<1> DEFINE Fine(u) ==
      /\ pc[u] \in Delivering => signals[frame[u].id].symbol = target[u]
      /\ pc[u] \in {"audience", "watchers", "notify"} => PolicyReason(runtime[target[u]]) = "none"
<1>a. TypeOK /\ Busy /\ \A u \in Tasks : Fine(u)
  BY DEF IInv, PolicyInv
<1>b. SUFFICES \A u \in Tasks : Fine(u)'
  BY DEF PolicyInv
<1>1. ASSUME NEW t \in Tasks, Evaluate(t) \/ PipelineStep(t)
      PROVE  \A u \in Tasks : Fine(u)'
  <2>1. \A u \in Tasks \ {t} : pc'[u] \notin Working
    <3>1. loop = t \/ loop = None
      BY <1>1 DEF Evaluate, PipelineStep, ReadThreshold, InsertSignalIfNew, ResolvePolicy,
         ReadAudience, SelectWatchers, CreateNotifications, UpdateSignalDelivery,
         Broadcast, ResumeAfterBroadcast, At
    <3> QED  BY <1>1, <1>a, <3>1, Exclusive, OthersUnchanged
  <2>2. \A u \in Tasks \ {t} : Fine(u)'
    BY <2>1 DEF Working, Delivering
  <2>3. Fine(t)'
    <3> USE <1>a DEF TypeOK, Delivering
    <3>1. CASE Evaluate(t)
      BY <3>1 DEF Evaluate
    <3>2. CASE ReadThreshold(t)
      BY <3>2 DEF ReadThreshold, At, Goto
    <3>3. CASE InsertSignalIfNew(t)
      <4>1. CASE Recent(target[t], frame[t].kind, frame[t].threshold)
        BY <3>3, <4>1 DEF InsertSignalIfNew, At, EndTurn
      <4>2. CASE ~Recent(target[t], frame[t].kind, frame[t].threshold)
        <5>1. PICK i \in SignalIds \ Stored :
                /\ signals' = [signals EXCEPT ![i] =
                     [symbol |-> target[t], kind |-> frame[t].kind, created_at |-> now,
                      delivery |-> "pending", reason |-> "none", count |-> 0]]
                /\ frame' = [frame EXCEPT ![t].id = i]
          BY <3>3, <4>2 DEF InsertSignalIfNew
        <5>2. frame'[t].id = i /\ signals'[i].symbol = target[t] /\ target' = target
          BY <3>3, <5>1 DEF InsertSignalIfNew, Frame
        <5> QED  BY <3>3, <4>2, <5>2 DEF InsertSignalIfNew, At, Goto
      <4> QED  BY <4>1, <4>2
    <3>4. CASE ResolvePolicy(t)
      <4>1. /\ frame'[t].id = frame[t].id /\ UNCHANGED <<signals, runtime, target>>
            /\ pc[t] = "policy"
        BY <3>4 DEF ResolvePolicy, At, tables, Frame
      <4>2. pc'[t] = "update" \/ PolicyReason(runtime[target[t]]) = "none"
        BY <3>4 DEF ResolvePolicy, Goto
      <4> QED  BY <3>4, <4>1, <4>2 DEF ResolvePolicy, Goto
    <3>5. CASE ReadAudience(t)
      <4>1. /\ frame'[t].id = frame[t].id /\ UNCHANGED <<signals, runtime, target>>
            /\ pc[t] = "audience" /\ pc'[t] = "watchers"
        BY <3>5 DEF ReadAudience, At, Goto, tables, Frame
      <4> QED  BY <4>1
    <3>6. CASE SelectWatchers(t)
      <4>1. /\ frame'[t].id = frame[t].id /\ UNCHANGED <<signals, runtime, target>>
            /\ pc[t] = "watchers" /\ pc'[t] = "notify"
        BY <3>6 DEF SelectWatchers, At, Goto, tables, Frame
      <4> QED  BY <4>1
    <3>7. CASE CreateNotifications(t)
      <4>1. /\ frame'[t].id = frame[t].id /\ UNCHANGED <<signals, target>>
            /\ pc[t] = "notify" /\ pc'[t] = "update"
        BY <3>7 DEF CreateNotifications, At, Goto, Frame
      <4> QED  BY <4>1
    <3>8. CASE UpdateSignalDelivery(t)
      BY <3>8 DEF UpdateSignalDelivery, At, Goto
    <3>9. CASE Broadcast(t)
      BY <3>9 DEF Broadcast, At
    <3>10. CASE ResumeAfterBroadcast(t)
      BY <3>10 DEF ResumeAfterBroadcast, EndTurn
    <3> QED
      BY <1>1, <3>1, <3>2, <3>3, <3>4, <3>5, <3>6, <3>7, <3>8, <3>9, <3>10
      DEF PipelineStep
  <2> QED  BY <2>2, <2>3
<1>2. ASSUME NEW T \in SUBSET Tasks, Reset(T)
      PROVE  \A u \in Tasks : Fine(u)'
  BY <1>2, <1>a DEF Reset, tables, Delivering, TypeOK
(* The scanner refreshes its symbols only while nobody works. *)
<1>3. ASSUME NEW t \in Tasks, RefreshRuntimeState(t) PROVE \A u \in Tasks : Fine(u)'
  <2>1. UNCHANGED pc /\ \A u \in Tasks : pc[u] \notin Working
    BY <1>3, <1>a, Exclusive DEF RefreshRuntimeState
  <2> QED  BY <2>1 DEF Working, Delivering
<1>4. CASE UNCHANGED <<signals, runtime, pc, target, frame>>
  BY <1>4, <1>a
<1>5. ASSUME NEW t \in Tasks, Abort(t) PROVE \A u \in Tasks : Fine(u)'
  BY <1>2, <1>5, {t} \in SUBSET Tasks DEF Abort
<1>6. CASE Crash
  BY <1>2, <1>6, Tasks \in SUBSET Tasks DEF Crash
<1>7. CASE HandlerStep \/ Tick \/ UNCHANGED vars
  BY <1>4, <1>7 DEF HandlerStep, AddWatchlistItem, DeleteWatchlistItem,
     WriteNotificationSettings, MarkNotificationRead, pipeline, Tick, vars, tables
<1> QED  BY <1>1, <1>3, <1>5, <1>6, <1>7 DEF Next

(* The policy that a delivery resolved still holds until its alerts are out. *)
THEOREM PolicyInvariance == Spec => []PolicyInv
<1>1. Init => PolicyInv
  BY DEF Init, PolicyInv, Delivering
<1> QED  BY <1>1, PolicyStep, Invariance, PTL DEF Spec

(* Nobody is alerted about a symbol that the delivery policy blocks at that *)
(* moment: the policy read before the audience holds when the notifications *)
(* are written.                                                             *)
THEOREM NoAlertWhenBlockedCorrect == Spec => NoAlertWhenBlocked
<1> DEFINE Allowed == \A n \in notifications' \ notifications :
                        PolicyReason(runtime[signals[n[2]].symbol]) = "none"
<1>1. ASSUME IInv, PolicyInv, [Next]_vars PROVE Allowed
  <2>1. CASE UNCHANGED notifications
    BY <2>1
  <2>2. ASSUME NEW t \in Tasks, CreateNotifications(t) PROVE Allowed
    <3>1. pc[t] = "notify"
      BY <2>2 DEF CreateNotifications, At
    <3>2. PolicyReason(runtime[signals[frame[t].id].symbol]) = "none"
      BY <1>1, <3>1 DEF PolicyInv, Delivering
    <3> QED  BY <1>1, <2>2, <3>2, NotifyStep
  <2> QED  BY <1>1, <2>1, <2>2, WritersStep, InsertStep, SettleStep
<1> QED  BY <1>1, PolicyInvariance, Invariance, PTL DEF Spec, NoAlertWhenBlocked

-----------------------------------------------------------------------------
(* The refinement of the ledger.  Only two steps show: a new row raises a     *)
(* signal, a stored outcome settles it.  The notifications are written while  *)
(* the signal is pending, so that step is a stutter.                          *)
LEMMA LedgerRaise ==
  ASSUME IInv, NEW t \in Tasks, InsertSignalIfNew(t)
  PROVE  [Ledger!Next]_Ledger!vars
<1>1. UNCHANGED notifications
  BY InsertStep
<1>2. CASE UNCHANGED signals
  <2>1. UNCHANGED <<Raised, Settled>>
    BY <1>1, <1>2 DEF Raised, Settled, Stored, IsFinal, Recipients
  <2> QED  BY <2>1 DEF Ledger!vars
<1>3. ASSUME NEW i \in SignalIds \ Stored,
             signals'[i] \in SignalRow, signals'[i].delivery = "pending",
             \A j \in Stored :
               signals[j].symbol = signals'[i].symbol /\ signals[j].kind = signals'[i].kind
                 => signals[j].created_at + DedupSeconds < signals'[i].created_at,
             \A j \in SignalIds \ {i} : signals'[j] = signals[j]
      PROVE  [Ledger!Next]_Ledger!vars
  <2> DEFINE row == [symbol |-> signals'[i].symbol, kind |-> signals'[i].kind,
                     created_at |-> signals'[i].created_at]
  <2>1. i \in Stored' /\ ~IsFinal(i) /\ ~IsFinal(i)'
    BY <1>3, NoneAssumption DEF Stored, IsFinal, Final
  <2>2. \A j \in SignalIds \ {i} : /\ (j \in Stored)' = (j \in Stored)
                                   /\ IsFinal(j)' = IsFinal(j)
    BY <1>3 DEF Stored, IsFinal
  <2>3. Raised[i] = None /\ Raised'[i] = row
    BY <2>1 DEF Raised
  <2>4. \A j \in SignalIds \ {i} : Raised'[j] = Raised[j]
    BY <1>3, <2>2 DEF Raised
  <2>5. row \in [symbol: Symbols, kind: Kinds, created_at: Nat]
    BY <1>3 DEF SignalRow
  <2>6. \A j \in SignalIds :
          Raised[j] # None /\ Raised[j].symbol = row.symbol /\ Raised[j].kind = row.kind
            => Raised[j].created_at + DedupSeconds < row.created_at
    BY <1>3 DEF Raised
  <2>7. Raised' = [Raised EXCEPT ![i] = row]
    BY <2>3, <2>4 DEF Raised
  <2>8. UNCHANGED Settled
    BY <1>1, <1>3, <2>1, <2>2 DEF Settled, Recipients
  <2>9. Ledger!Raise(i)
    BY <2>3, <2>5, <2>6, <2>7, <2>8 DEF Ledger!Raise
  <2> QED  BY <2>9 DEF Ledger!Next
<1> QED  BY <1>2, <1>3, InsertStep

LEMMA LedgerNotify ==
  ASSUME IInv, NEW t \in Tasks, CreateNotifications(t)
  PROVE  UNCHANGED Ledger!vars
<1>1. UNCHANGED signals /\ ~IsFinal(frame[t].id)
  BY NotifyStep DEF IsPending, IsFinal, Final
<1>2. \A j \in SignalIds : IsFinal(j) => Recipients(j)' = Recipients(j)
  BY <1>1, NotifyStep
<1>3. UNCHANGED Raised
  BY <1>1 DEF Raised, Stored
<1>4. UNCHANGED Settled
  BY <1>1, <1>2 DEF Settled, IsFinal, Stored
<1> QED  BY <1>3, <1>4 DEF Ledger!vars

LEMMA LedgerSettle ==
  ASSUME IInv, NEW t \in Tasks, UpdateSignalDelivery(t)
  PROVE  Ledger!Next
<1>1. PICK i \in SignalIds :
        /\ i = frame[t].id /\ IsPending(i) /\ UNCHANGED notifications
        /\ signals'[i] \in SignalRow /\ signals'[i].delivery \in Final
        /\ signals'[i].symbol = signals[i].symbol /\ signals'[i].kind = signals[i].kind
        /\ signals'[i].created_at = signals[i].created_at
        /\ signals'[i].count = Cardinality(Recipients(i))
        /\ (signals'[i].delivery = "notified") <=> (Recipients(i) # {})
        /\ \A j \in SignalIds \ {i} : signals'[j] = signals[j]
  BY SettleStep
<1>2. /\ i \in Stored /\ i \in Stored' /\ ~IsFinal(i) /\ IsFinal(i)'
      /\ \A j \in SignalIds \ {i} : /\ (j \in Stored)' = (j \in Stored)
                                   /\ IsFinal(j)' = IsFinal(j)
  BY <1>1, NoneAssumption DEF IsPending, IsFinal, Stored, Final
<1>3. \A j : Recipients(j)' = Recipients(j)
  BY <1>1 DEF Recipients
<1>4. UNCHANGED Raised
  BY <1>1, <1>2 DEF Raised
<1>5. Raised[i] # None
  <2>1. signals[i] \in SignalRow
    BY <1>2 DEF IInv, TypeOK, Stored
  <2>2. [symbol |-> signals[i].symbol, kind |-> signals[i].kind,
         created_at |-> signals[i].created_at]
          \in [symbol: Symbols, kind: Kinds, created_at: Nat]
    BY <2>1 DEF SignalRow
  <2> QED  BY <1>2, <2>2, NoneAssumption DEF Raised
<1>6. /\ Settled[i] = None
      /\ Settled'[i] = [delivery |-> signals'[i].delivery,
                        count |-> Cardinality(Recipients(i)), alerted |-> Recipients(i)]
      /\ \A j \in SignalIds \ {i} : Settled'[j] = Settled[j]
  BY <1>1, <1>2, <1>3 DEF Settled
<1>7. Settled' = [Settled EXCEPT ![i] =
        [delivery |-> signals'[i].delivery, count |-> Cardinality(Recipients(i)),
         alerted |-> Recipients(i)]]
  BY <1>6 DEF Settled
<1>8. Recipients(i) \in SUBSET Users
  BY DEF Recipients
<1>9. Ledger!Cardinality(Recipients(i)) = Cardinality(Recipients(i))
  BY DEF Ledger!Cardinality, Cardinality
<1>10. Ledger!Settle(i, signals'[i].delivery, Recipients(i))
  BY <1>1, <1>4, <1>5, <1>6, <1>7, <1>9 DEF Ledger!Settle
<1> QED  BY <1>1, <1>8, <1>10 DEF Ledger!Next, Final

(* The signal pipeline implements the ledger: a signal is raised at most once *)
(* per deduplication window and settled at most once, in one step, with an    *)
(* outcome that agrees with who was alerted, whatever is interleaved with the *)
(* statements of the pipeline and wherever it fails.                          *)
THEOREM LedgerImplemented == Spec => ImplementsLedger
<1>1. Init => Ledger!Init
  BY DEF Init, Ledger!Init, Raised, Settled, Stored, IsFinal
<1>2. ASSUME IInv, [Next]_vars PROVE [Ledger!Next]_Ledger!vars
  <2>1. CASE UNCHANGED <<signals, notifications>>
    BY <2>1 DEF Ledger!vars, Raised, Settled, Stored, IsFinal, Recipients
  <2>2. ASSUME NEW t \in Tasks,
               InsertSignalIfNew(t) \/ CreateNotifications(t) \/ UpdateSignalDelivery(t)
        PROVE  [Ledger!Next]_Ledger!vars
    BY <1>2, <2>2, LedgerRaise, LedgerNotify, LedgerSettle
  <2> QED  BY <1>2, <2>1, <2>2, WritersStep
<1> QED  BY <1>1, <1>2, Invariance, PTL DEF Spec, ImplementsLedger, Ledger!Spec
=============================================================================
