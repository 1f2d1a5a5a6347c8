------------------------ MODULE SignalDeliveryProofs ------------------------
(***************************************************************************)
(* Theorems about SignalDelivery, for any number of users, symbols, tasks, *)
(* signals and failures.                                                   *)
(***************************************************************************)
EXTENDS SignalDelivery, FiniteSetTheorems, TLAPS

LEMMA EmptyFrameIsFrame == EmptyFrame \in Frame
BY DEF EmptyFrame, Frame, Reasons

(* Updating the fields of a frame with values of their types keeps it a frame. *)
LEMMA FrameUpdates ==
  ASSUME NEW f \in Frame
  PROVE  /\ \A k \in Kinds, x \in Int : [f EXCEPT !.kind = k, !.threshold = x] \in Frame
         /\ \A i \in SignalIds : [f EXCEPT !.id = i] \in Frame
         /\ \A a \in BOOLEAN, r \in Reasons :
              [f EXCEPT !.allow = a, !.reason = r] \in Frame
         /\ \A r \in Reasons : [f EXCEPT !.reason = r] \in Frame
         /\ \A W \in SUBSET Users : [f EXCEPT !.watchers = W] \in Frame
         /\ \A n \in Nat : [f EXCEPT !.count = n] \in Frame
<1>1. \A k \in Kinds, x \in Int : [f EXCEPT !.kind = k, !.threshold = x] \in Frame
  BY DEF Frame
<1>2. \A i \in SignalIds : [f EXCEPT !.id = i] \in Frame
  BY DEF Frame
<1>3. \A a \in BOOLEAN, r \in Reasons : [f EXCEPT !.allow = a, !.reason = r] \in Frame
  BY DEF Frame
<1>4. \A r \in Reasons : [f EXCEPT !.reason = r] \in Frame
  BY DEF Frame
<1>5. \A W \in SUBSET Users : [f EXCEPT !.watchers = W] \in Frame
  BY DEF Frame
<1>6. \A n \in Nat : [f EXCEPT !.count = n] \in Frame
  BY DEF Frame
<1> QED  BY <1>1, <1>2, <1>3, <1>4, <1>5, <1>6

LEMMA RowUpdate ==
  ASSUME NEW r \in SignalRow, NEW d \in Deliveries, NEW x \in Reasons, NEW n \in Nat
  PROVE  /\ [r EXCEPT !.delivery = d, !.reason = x, !.count = n] \in SignalRow
         /\ [r EXCEPT !.delivery = d, !.reason = x, !.count = n].delivery = d
         /\ [r EXCEPT !.delivery = d, !.reason = x, !.count = n].reason = x
         /\ [r EXCEPT !.delivery = d, !.reason = x, !.count = n].count = n
BY DEF SignalRow

(* Every recipient set is finite, so its cardinality is a number that is *)
(* positive exactly when somebody was notified.                          *)
LEMMA UserSets ==
  ASSUME NEW S \in SUBSET Users
  PROVE  /\ IsFiniteSet(S) /\ Cardinality(S) \in Nat
         /\ Cardinality(S) > 0 <=> S # {}
<1>1. IsFiniteSet(S)
  BY UsersAssumption, FS_Subset
<1>2. Cardinality(S) \in Nat
  BY <1>1, FS_CardinalityType
<1>3. Cardinality(S) = 0 <=> S = {}
  BY <1>1, FS_EmptySet
<1> QED  BY <1>1, <1>2, <1>3

(* The three tables of outcomes stay within their value sets. *)
LEMMA PolicyReasonType ==
  ASSUME NEW state
  PROVE  PolicyReason(state) \in {"none", "session_blocked", "delayed_blocked"}
BY DEF PolicyReason

LEMMA OutcomeType ==
  ASSUME NEW f \in Frame
  PROVE  Outcome(f).delivery \in Final /\ Outcome(f).reason \in Reasons
BY DEF Outcome, Frame, Final, Reasons

(* Type correctness: every table and every local keeps its shape.  Busy tells *)
(* that a task that works has a symbol, and one that delivers a signal.       *)
LEMMA TypeStep == TypeOK /\ Busy /\ [Next]_vars => TypeOK'
<1> SUFFICES ASSUME TypeOK, Busy, [Next]_vars PROVE TypeOK'
  OBVIOUS
<1> USE TaskAssumption, EmptyFrameIsFrame DEF TypeOK
<1>1. ASSUME NEW t \in Tasks, Evaluate(t) PROVE TypeOK'
  BY <1>1 DEF Evaluate, tables, Steps
<1>2. ASSUME NEW t \in Tasks, ReadThreshold(t) PROVE TypeOK'
  <2>1. PICK k \in todo[t] :
          /\ frame' = [frame EXCEPT ![t] =
                         [EmptyFrame EXCEPT !.kind = k, !.threshold = now - DedupSeconds]]
          /\ todo' = [todo EXCEPT ![t] = @ \ {k}]
    BY <1>2 DEF ReadThreshold
  <2>2. k \in Kinds /\ now - DedupSeconds \in Int
    BY ConfigAssumption
  <2>3. frame' \in [Tasks -> Frame]
    BY <2>1, <2>2, FrameUpdates
  <2> QED  BY <1>2, <2>1, <2>3 DEF ReadThreshold, tables, Goto, Steps
<1>3. ASSUME NEW t \in Tasks, InsertSignalIfNew(t) PROVE TypeOK'
  <2>1. CASE Recent(target[t], frame[t].kind, frame[t].threshold)
    BY <1>3, <2>1 DEF InsertSignalIfNew, handled, EndTurn, Steps
  <2>2. CASE ~Recent(target[t], frame[t].kind, frame[t].threshold)
    <3>1. PICK i \in SignalIds \ Stored :
            /\ signals' = [signals EXCEPT ![i] =
                 [symbol |-> target[t], kind |-> frame[t].kind, created_at |-> now,
                  delivery |-> "pending", reason |-> "none", count |-> 0]]
            /\ frame' = [frame EXCEPT ![t].id = i]
      BY <1>3, <2>2 DEF InsertSignalIfNew
    <3>2. target[t] \in Symbols /\ frame[t].kind \in Kinds /\ now \in Nat
      BY <1>3, ConfigAssumption DEF Busy, InsertSignalIfNew, At
    <3>3. [symbol |-> target[t], kind |-> frame[t].kind, created_at |-> now,
           delivery |-> "pending", reason |-> "none", count |-> 0] \in SignalRow
      BY <3>2 DEF SignalRow, Deliveries, Reasons
    <3>4. frame' \in [Tasks -> Frame]
      BY <3>1, FrameUpdates
    <3>5. signals' \in [SignalIds -> SignalRow \cup {None}]
      BY <3>1, <3>3
    <3> QED  BY <1>3, <2>2, <3>4, <3>5 DEF InsertSignalIfNew, handled, Goto, Steps
  <2> QED  BY <2>1, <2>2
<1>4. ASSUME NEW t \in Tasks, ResolvePolicy(t) PROVE TypeOK'
  <2> DEFINE reason == PolicyReason(runtime[target[t]])
  <2>1. reason \in Reasons
    BY PolicyReasonType DEF Reasons
  <2> HIDE DEF reason
  <2>2. frame' = [frame EXCEPT ![t] =
                    [frame[t] EXCEPT !.allow = (reason = "none"), !.reason = reason]]
    BY <1>4 DEF ResolvePolicy, reason
  <2>3. [frame[t] EXCEPT !.allow = (reason = "none"), !.reason = reason] \in Frame
    BY <2>1, FrameUpdates
  <2>4. frame' \in [Tasks -> Frame]
    BY <2>2, <2>3
  <2> QED  BY <1>4, <2>4 DEF ResolvePolicy, tables, Goto, Steps
<1>5. ASSUME NEW t \in Tasks, ReadAudience(t) PROVE TypeOK'
  <2>1. PICK r \in Reasons : frame' = [frame EXCEPT ![t].reason = r]
    BY <1>5 DEF ReadAudience, AudienceReason, Reasons
  <2>2. frame' \in [Tasks -> Frame]
    BY <2>1, FrameUpdates
  <2> QED  BY <1>5, <2>2 DEF ReadAudience, tables, Goto, Steps
<1>6. ASSUME NEW t \in Tasks, SelectWatchers(t) PROVE TypeOK'
  <2>1. Eligible(target[t]) \in SUBSET Users
    BY DEF Eligible, Watchers
  <2>2. frame' \in [Tasks -> Frame]
    BY <1>6, <2>1, FrameUpdates DEF SelectWatchers
  <2> QED  BY <1>6, <2>2 DEF SelectWatchers, tables, Goto, Steps
<1>7. ASSUME NEW t \in Tasks, CreateNotifications(t) PROVE TypeOK'
  <2> DEFINE fresh == frame[t].watchers \ Recipients(frame[t].id)
  <2>1. frame[t].id \in SignalIds
    BY <1>7 DEF CreateNotifications, At, Busy, Delivering, Stored
  <2>2. fresh \in SUBSET Users /\ Cardinality(fresh) \in Nat
    <3>1. fresh \in SUBSET Users
      BY DEF Frame
    <3> QED  BY <3>1, UserSets
  <2> HIDE DEF fresh
  <2>3. /\ notifications' = notifications \cup (fresh \X {frame[t].id})
        /\ frame' = [frame EXCEPT ![t] = [frame[t] EXCEPT !.count = Cardinality(fresh)]]
    BY <1>7 DEF CreateNotifications, fresh
  <2>4. frame' \in [Tasks -> Frame]
    BY <2>2, <2>3, FrameUpdates
  <2>5. notifications' \subseteq Users \X SignalIds /\ notifications \subseteq notifications'
    BY <2>1, <2>2, <2>3
  <2> QED  BY <1>7, <2>4, <2>5 DEF CreateNotifications, handled, Goto, Steps
<1>8. ASSUME NEW t \in Tasks, UpdateSignalDelivery(t) PROVE TypeOK'
  <2> DEFINE o == Outcome(frame[t])
             i == frame[t].id
  <2>1. i \in SignalIds /\ signals[i] \in SignalRow
    BY <1>8 DEF UpdateSignalDelivery, At, Busy, Delivering, Stored
  <2>2. o.delivery \in Deliveries /\ o.reason \in Reasons /\ frame[t].count \in Nat
    BY OutcomeType DEF Deliveries, Frame
  <2> HIDE DEF o
  <2>3. signals' = [signals EXCEPT ![i] =
          [signals[i] EXCEPT !.delivery = o.delivery, !.reason = o.reason,
                             !.count = frame[t].count]]
    BY <1>8 DEF UpdateSignalDelivery, o
  <2>4. PICK row \in SignalRow : signals' = [signals EXCEPT ![i] = row]
    BY <2>1, <2>2, <2>3, RowUpdate
  <2>5. signals' \in [SignalIds -> SignalRow \cup {None}]
    BY <2>4
  <2> QED  BY <1>8, <2>5 DEF UpdateSignalDelivery, handled, Goto, Steps
<1>9. ASSUME NEW t \in Tasks, Broadcast(t) PROVE TypeOK'
  <2>1. frame[t].id \in SignalIds /\ signals[frame[t].id] \in SignalRow
    BY <1>9 DEF Broadcast, At, Busy, Stored
  <2> DEFINE i == frame[t].id
             m == [id |-> i, delivery |-> signals[i].delivery,
                   reason |-> signals[i].reason, count |-> signals[i].count]
  <2>2. m \in Message
    <3>1. /\ signals[i].delivery \in Deliveries /\ signals[i].reason \in Reasons
          /\ signals[i].count \in Nat
      BY <2>1 DEF SignalRow
    <3> QED  BY <2>1, <3>1 DEF Message
  <2>3. published' = published \cup {m}
    BY <1>9 DEF Broadcast
  <2> QED  BY <1>9, <2>2, <2>3 DEF Broadcast, tables, Steps
<1>10. ASSUME NEW t \in Tasks, ResumeAfterBroadcast(t) PROVE TypeOK'
  BY <1>10 DEF ResumeAfterBroadcast, tables, EndTurn, Steps
<1>11. ASSUME NEW T \in SUBSET Tasks, Reset(T), aborts < MaxAborts PROVE TypeOK'
  BY <1>11, ConfigAssumption DEF Reset, tables, Steps
<1>16. ASSUME NEW t \in Tasks, Abort(t) PROVE TypeOK'
  <2>1. {t} \in SUBSET Tasks
    OBVIOUS
  <2> QED  BY <1>11, <1>16, <2>1 DEF Abort
<1>17. CASE Crash
  <2>1. Tasks \in SUBSET Tasks
    OBVIOUS
  <2> QED  BY <1>11, <1>17, <2>1 DEF Crash
<1>12. ASSUME NEW t \in Tasks, RefreshRuntimeState(t) PROVE TypeOK'
  BY <1>12 DEF RefreshRuntimeState, handled
<1>13. CASE HandlerStep
  <2>1. ASSUME NEW u \in Users, NEW sym \in Symbols,
               AddWatchlistItem(u, sym) \/ DeleteWatchlistItem(u, sym)
        PROVE  TypeOK'
    BY <2>1 DEF AddWatchlistItem, DeleteWatchlistItem, pipeline
  <2>2. ASSUME NEW u \in Users, NEW web \in BOOLEAN, NEW email \in BOOLEAN,
               WriteNotificationSettings(u, web, email)
        PROVE  TypeOK'
    BY <2>2 DEF WriteNotificationSettings, pipeline
  <2>3. ASSUME NEW u \in Users, NEW i \in SignalIds, MarkNotificationRead(u, i)
        PROVE  TypeOK'
    BY <2>3 DEF MarkNotificationRead, pipeline
  <2> QED  BY <1>13, <2>1, <2>2, <2>3 DEF HandlerStep
<1>14. CASE Tick
  BY <1>14, ConfigAssumption DEF Tick, tables
<1>15. CASE UNCHANGED vars
  BY <1>15 DEF vars, tables
<1>18. ASSUME NEW t \in Tasks, PipelineStep(t) PROVE TypeOK'
  BY <1>2, <1>3, <1>4, <1>5, <1>6, <1>7, <1>8, <1>9, <1>10, <1>18 DEF PipelineStep
<1> HIDE DEF TypeOK
<1> QED  BY <1>1, <1>12, <1>13, <1>14, <1>15, <1>16, <1>17, <1>18 DEF Next

(* While task t has the event loop no other task is between two awaits, and *)
(* while nobody has it no task is.                                          *)
LEMMA Exclusive ==
  ASSUME Busy
  PROVE  /\ \A t, u \in Tasks : loop = t /\ u # t => pc[u] \notin Working
         /\ loop = None => \A u \in Tasks : pc[u] \notin Working
BY TaskAssumption DEF Busy

(* What a step of the pipeline leaves alone: the other tasks. *)
LEMMA OthersUnchanged ==
  ASSUME TypeOK, NEW t \in Tasks, Evaluate(t) \/ PipelineStep(t)
  PROVE  \A u \in Tasks \ {t} :
           pc'[u] = pc[u] /\ frame'[u] = frame[u] /\ target'[u] = target[u]
<1> USE DEF TypeOK
<1>1. CASE Evaluate(t)
  BY <1>1 DEF Evaluate
<1>2. CASE ReadThreshold(t)
  BY <1>2 DEF ReadThreshold, Goto
<1>3. CASE InsertSignalIfNew(t)
  BY <1>3 DEF InsertSignalIfNew, Goto, EndTurn
<1>4. CASE ResolvePolicy(t)
  BY <1>4 DEF ResolvePolicy, Goto
<1>5. CASE ReadAudience(t)
  BY <1>5 DEF ReadAudience, Goto
<1>6. CASE SelectWatchers(t)
  BY <1>6 DEF SelectWatchers, Goto
<1>7. CASE CreateNotifications(t)
  BY <1>7 DEF CreateNotifications, Goto
<1>8. CASE UpdateSignalDelivery(t)
  BY <1>8 DEF UpdateSignalDelivery, Goto
<1>9. CASE Broadcast(t)
  BY <1>9 DEF Broadcast
<1>10. CASE ResumeAfterBroadcast(t)
  BY <1>10 DEF ResumeAfterBroadcast, EndTurn
<1> QED
  BY <1>1, <1>2, <1>3, <1>4, <1>5, <1>6, <1>7, <1>8, <1>9, <1>10 DEF PipelineStep

(* No step removes a row of the signals table. *)
LEMMA StoredGrows == TypeOK /\ [Next]_vars => Stored \subseteq Stored'
<1> SUFFICES ASSUME TypeOK, [Next]_vars PROVE Stored \subseteq Stored'
  OBVIOUS
<1>1. ASSUME NEW t \in Tasks, InsertSignalIfNew(t) PROVE Stored \subseteq Stored'
  <2>1. CASE UNCHANGED signals
    BY <2>1 DEF Stored
  <2>2. CASE \E i \in SignalIds \ Stored : \E row : signals' = [signals EXCEPT ![i] = row]
    BY <2>2 DEF Stored, TypeOK
  <2> QED  BY <1>1, <2>1, <2>2 DEF InsertSignalIfNew
<1>2. ASSUME NEW t \in Tasks, UpdateSignalDelivery(t) PROVE Stored \subseteq Stored'
  <2> DEFINE i == frame[t].id
             o == Outcome(frame[t])
             row == [signals[i] EXCEPT !.delivery = o.delivery, !.reason = o.reason,
                                       !.count = frame[t].count]
  <2>1. signals' = [signals EXCEPT ![i] = row]
    BY <1>2 DEF UpdateSignalDelivery
  <2>2. ASSUME signals[i] \in SignalRow PROVE row # None
    <3>1. o.delivery \in Deliveries /\ o.reason \in Reasons /\ frame[t].count \in Nat
      BY OutcomeType DEF Deliveries, Frame, TypeOK
    <3> HIDE DEF o
    <3>2. row \in SignalRow
      BY <2>2, <3>1, RowUpdate
    <3> QED  BY <3>2, NoneAssumption
  <2> HIDE DEF row
  <2> QED  BY <2>1, <2>2 DEF Stored, TypeOK
<1>3. CASE UNCHANGED signals
  BY <1>3 DEF Stored
<1> QED
  BY <1>1, <1>2, <1>3 DEF Next, PipelineStep, Evaluate, ReadThreshold, ResolvePolicy,
     ReadAudience, SelectWatchers, CreateNotifications, Broadcast, ResumeAfterBroadcast,
     Abort, Crash, Reset, RefreshRuntimeState, HandlerStep, AddWatchlistItem,
     DeleteWatchlistItem, WriteNotificationSettings, MarkNotificationRead, Tick,
     tables, handled, pipeline, vars

(* A task between two awaits keeps the event loop, its symbol and its signal. *)
LEMMA BusyStep == TypeOK /\ Busy /\ [Next]_vars => Busy'
<1> SUFFICES ASSUME TypeOK, Busy, [Next]_vars PROVE Busy'
  OBVIOUS
<1> DEFINE Fine(u) ==
      /\ pc[u] \in Working => loop = u
      /\ pc[u] # "idle" => target[u] \in Symbols
      /\ pc[u] = "insert" => frame[u].kind \in Kinds
      /\ pc[u] \in Delivering \cup {"broadcast"} => frame[u].id \in Stored
<1>a. Stored \subseteq Stored'
  BY StoredGrows
<1>b. \A u \in Tasks : Fine(u)
  BY DEF Busy
<1>c. SUFFICES \A u \in Tasks : Fine(u)'
  BY DEF Busy
<1>1. ASSUME NEW t \in Tasks, Evaluate(t) \/ PipelineStep(t)
      PROVE  \A u \in Tasks : Fine(u)'
  <2>1. \A u \in Tasks \ {t} : pc[u] \notin Working
    <3>1. loop = t \/ loop = None
      BY <1>1 DEF Evaluate, PipelineStep, ReadThreshold, InsertSignalIfNew, ResolvePolicy,
         ReadAudience, SelectWatchers, CreateNotifications, UpdateSignalDelivery,
         Broadcast, ResumeAfterBroadcast, At
    <3> QED  BY <3>1, Exclusive
  <2>2. \A u \in Tasks \ {t} : Fine(u)'
    BY <1>1, <1>a, <1>b, <2>1, OthersUnchanged DEF Working, Delivering
  <2>3. Fine(t)'
    <3> USE <1>b DEF TypeOK, Working, Delivering
    <3>1. CASE Evaluate(t)
      BY <3>1 DEF Evaluate
    <3>2. CASE ReadThreshold(t)
      <4>1. PICK k \in todo[t] :
              frame' = [frame EXCEPT ![t] =
                         [EmptyFrame EXCEPT !.kind = k, !.threshold = now - DedupSeconds]]
        BY <3>2 DEF ReadThreshold
      <4>2. frame'[t].kind = k /\ k \in Kinds
        BY <4>1 DEF EmptyFrame
      <4> QED  BY <3>2, <4>2 DEF ReadThreshold, At, Goto
    <3>3. CASE InsertSignalIfNew(t)
      <4>1. CASE Recent(target[t], frame[t].kind, frame[t].threshold)
        BY <3>3, <4>1 DEF InsertSignalIfNew, At, EndTurn
      <4>2. CASE ~Recent(target[t], frame[t].kind, frame[t].threshold)
        <5>1. PICK i \in SignalIds \ Stored :
                /\ signals' = [signals EXCEPT ![i] =
                     [symbol |-> target[t], kind |-> frame[t].kind, created_at |-> now,
                      delivery |-> "pending", reason |-> "none", count |-> 0]]
                /\ frame' = [frame EXCEPT ![t].id = i]
          BY <3>3, <4>2 DEF InsertSignalIfNew
        <5>2. [symbol |-> target[t], kind |-> frame[t].kind, created_at |-> now,
               delivery |-> "pending", reason |-> "none", count |-> 0] \in SignalRow
          BY <3>3, ConfigAssumption DEF InsertSignalIfNew, At, SignalRow, Deliveries, Reasons
        <5>3. frame'[t].id = i /\ i \in Stored'
          BY <5>1, <5>2, NoneAssumption DEF Frame, Stored
        <5> QED  BY <3>3, <4>2, <5>3 DEF InsertSignalIfNew, At, Goto
      <4> QED  BY <4>1, <4>2
    <3>4. CASE ResolvePolicy(t)
      BY <3>4, <1>a DEF ResolvePolicy, At, Goto, Frame
    <3>5. CASE ReadAudience(t)
      BY <3>5, <1>a DEF ReadAudience, At, Goto, Frame
    <3>6. CASE SelectWatchers(t)
      BY <3>6, <1>a DEF SelectWatchers, At, Goto, Frame
    <3>7. CASE CreateNotifications(t)
      BY <3>7, <1>a DEF CreateNotifications, At, Goto, Frame
    <3>8. CASE UpdateSignalDelivery(t)
      BY <3>8, <1>a DEF UpdateSignalDelivery, At, Goto, Frame
    <3>9. CASE Broadcast(t)
      BY <3>9 DEF Broadcast, At
    <3>10. CASE ResumeAfterBroadcast(t)
      BY <3>10 DEF ResumeAfterBroadcast, EndTurn
    <3> QED
      BY <1>1, <3>1, <3>2, <3>3, <3>4, <3>5, <3>6, <3>7, <3>8, <3>9, <3>10
      DEF PipelineStep
  <2> QED  BY <2>2, <2>3
<1>2. ASSUME NEW T \in SUBSET Tasks, Reset(T), T = Tasks \/ loop \in T \cup {None}
      PROVE  \A u \in Tasks : Fine(u)'
  BY <1>2, <1>a, <1>b, Exclusive DEF Reset, Working, Delivering, TypeOK
<1>3. CASE UNCHANGED <<loop, pc, target, frame>>
  BY <1>3, <1>a, <1>b
<1> QED
  BY <1>1, <1>2, <1>3 DEF Next, Abort, Crash, RefreshRuntimeState, HandlerStep,
     AddWatchlistItem, DeleteWatchlistItem, WriteNotificationSettings,
     MarkNotificationRead, pipeline, Tick, vars

(* Delivery: the signal a task delivers is pending until the step that stores *)
(* its outcome, and that outcome counts the notifications in the table.       *)
DeliveryInv == HandledInv /\ OutcomeInv /\ PublishedAsPersisted

LEMMA DeliveryStep == TypeOK /\ Busy /\ DeliveryInv /\ [Next]_vars => DeliveryInv'
<1> SUFFICES ASSUME TypeOK, Busy, DeliveryInv, [Next]_vars PROVE DeliveryInv'
  OBVIOUS
<1> DEFINE Fine(u) ==
      /\ pc[u] \in Delivering => IsPending(frame[u].id)
      /\ pc[u] \in Delivering \ {"update"} => Recipients(frame[u].id) = {}
      /\ pc[u] \in Delivering \cup {"insert"} /\ pc[u] # "update" => frame[u].count = 0
      /\ pc[u] = "update" => /\ frame[u].count = Cardinality(Recipients(frame[u].id))
                             /\ ~frame[u].allow => frame[u].count = 0
      /\ pc[u] \in {"audience", "watchers", "notify"} => frame[u].allow
      /\ pc[u] = "broadcast" => IsFinal(frame[u].id)
    Done(i) ==
      /\ i \notin Stored => Recipients(i) = {}
      /\ IsFinal(i) => /\ signals[i].count = Cardinality(Recipients(i))
                       /\ (signals[i].delivery = "notified") <=> (signals[i].count > 0)
    Same(m) == /\ IsFinal(m.id)
               /\ m.delivery = signals[m.id].delivery
               /\ m.reason = signals[m.id].reason
               /\ m.count = signals[m.id].count
<1>a. /\ \A u \in Tasks : Fine(u)
      /\ \A i \in SignalIds : Done(i)
      /\ \A m \in published : Same(m)
  BY DEF DeliveryInv, HandledInv, OutcomeInv, PublishedAsPersisted
<1>b. SUFFICES /\ \A u \in Tasks : Fine(u)'
               /\ \A i \in SignalIds : Done(i)'
               /\ \A m \in published' : Same(m)'
  BY DEF DeliveryInv, HandledInv, OutcomeInv, PublishedAsPersisted
<1> DEFINE Goal == /\ \A u \in Tasks : Fine(u)'
                   /\ \A i \in SignalIds : Done(i)'
                   /\ \A m \in published' : Same(m)'
<1>c. ASSUME UNCHANGED <<signals, notifications>>
      PROVE  /\ \A i : /\ Recipients(i)' = Recipients(i)
                        /\ IsPending(i)' = IsPending(i) /\ IsFinal(i)' = IsFinal(i)
             /\ \A i \in SignalIds : Done(i)'
             /\ UNCHANGED published => \A m \in published' : Same(m)'
  <2>1. \A i : /\ Recipients(i)' = Recipients(i)
               /\ IsPending(i)' = IsPending(i) /\ IsFinal(i)' = IsFinal(i)
               /\ (i \in Stored)' = (i \in Stored)
    BY <1>c DEF Recipients, IsPending, IsFinal, Stored
  <2> QED  BY <1>a, <1>c, <2>1
(* While a task works the others do not deliver, so nothing is asked of them. *)
<1>d. ASSUME NEW t \in Tasks, Evaluate(t) \/ PipelineStep(t)
      PROVE  \A u \in Tasks \ {t} : Fine(u)'
  <2>1. loop = t \/ loop = None
    BY <1>d DEF Evaluate, PipelineStep, ReadThreshold, InsertSignalIfNew, ResolvePolicy,
       ReadAudience, SelectWatchers, CreateNotifications, UpdateSignalDelivery,
       Broadcast, ResumeAfterBroadcast, At
  <2>2. \A u \in Tasks \ {t} : pc'[u] \notin Working
    BY <1>d, <2>1, Exclusive, OthersUnchanged
  <2> QED  BY <2>2 DEF Working, Delivering
<1>1. ASSUME NEW t \in Tasks, Evaluate(t) PROVE Goal
  BY <1>1, <1>c, <1>d DEF Evaluate, tables, TypeOK, Delivering
<1>2. ASSUME NEW t \in Tasks, ReadThreshold(t) PROVE Goal
  <2>1. frame'[t].count = 0
    BY <1>2 DEF ReadThreshold, TypeOK, EmptyFrame
  <2> QED
    BY <1>2, <2>1, <1>c, <1>d DEF ReadThreshold, PipelineStep, tables, Goto, TypeOK, Delivering
<1>3. ASSUME NEW t \in Tasks, InsertSignalIfNew(t) PROVE Goal
  <2>1. CASE Recent(target[t], frame[t].kind, frame[t].threshold)
    <3>1. UNCHANGED <<signals, notifications, published>> /\ pc'[t] \in {"idle", "decide"}
      BY <1>3, <2>1 DEF InsertSignalIfNew, EndTurn, TypeOK
    <3> QED  BY <1>3, <3>1, <1>c, <1>d DEF PipelineStep, Delivering
  <2>2. CASE ~Recent(target[t], frame[t].kind, frame[t].threshold)
    <3> DEFINE row == [symbol |-> target[t], kind |-> frame[t].kind, created_at |-> now,
                       delivery |-> "pending", reason |-> "none", count |-> 0]
    <3>1. PICK i \in SignalIds \ Stored :
            signals' = [signals EXCEPT ![i] = row] /\ frame' = [frame EXCEPT ![t].id = i]
      BY <1>3, <2>2 DEF InsertSignalIfNew
    <3>2. row \in SignalRow /\ row # None /\ row.delivery = "pending"
      BY <1>3, ConfigAssumption, NoneAssumption
      DEF Busy, InsertSignalIfNew, At, SignalRow, Deliveries, Reasons, TypeOK, Working
    <3>3. UNCHANGED <<notifications, published>> /\ pc'[t] = "policy"
      BY <1>3, <2>2 DEF InsertSignalIfNew, Goto, TypeOK
    <3> HIDE DEF row
    <3>4. /\ \A j \in SignalIds : j # i => signals'[j] = signals[j]
          /\ signals'[i] = row
          /\ \A j : Recipients(j)' = Recipients(j)
      BY <3>1, <3>3 DEF Recipients, TypeOK
    <3>5. \A j \in SignalIds : j # i => /\ IsFinal(j)' = IsFinal(j)
                                        /\ (j \in Stored)' = (j \in Stored)
      BY <3>4 DEF IsFinal, Stored
    <3>6. IsPending(i)' /\ ~IsFinal(i)' /\ i \in Stored' /\ ~IsFinal(i)
      BY <3>1, <3>2, <3>4 DEF IsPending, IsFinal, Stored, Final
    <3>7. Fine(t)'
      <4>1. frame'[t].id = i /\ frame'[t].count = frame[t].count
        BY <3>1 DEF TypeOK, Frame
      <4>2. Recipients(i)' = {}
        BY <3>1, <3>4, <1>a
      <4>3. frame[t].count = 0
        BY <1>3, <1>a DEF InsertSignalIfNew, At
      <4> QED  BY <3>3, <3>6, <4>1, <4>2, <4>3 DEF Delivering
    <3>8. \A j \in SignalIds : Done(j)'
      BY <1>a, <3>4, <3>5, <3>6
    <3>9. \A m \in published' : Same(m)'
      <4>1. \A m \in published : m.id \in SignalIds
        BY DEF TypeOK, Message
      <4> QED  BY <1>a, <3>3, <3>4, <3>5, <3>6, <4>1
    <3> QED  BY <1>3, <1>d, <3>7, <3>8, <3>9 DEF PipelineStep
  <2> QED  BY <2>1, <2>2
<1>4. ASSUME NEW t \in Tasks, ResolvePolicy(t) PROVE Goal
  <2> DEFINE reason == PolicyReason(runtime[target[t]])
  <2>1. /\ pc[t] = "policy"
        /\ frame'[t].id = frame[t].id /\ frame'[t].count = frame[t].count
        /\ frame'[t].allow = (reason = "none")
        /\ pc'[t] = IF reason = "none" THEN "audience" ELSE "update"
        /\ UNCHANGED <<signals, notifications, published>>
    BY <1>4 DEF ResolvePolicy, At, Goto, TypeOK, Frame, tables
  <2> HIDE DEF reason
  <2>2. Cardinality({}) = 0
    BY FS_EmptySet
  <2>3. /\ IsPending(frame[t].id)' /\ Recipients(frame[t].id)' = {}
        /\ frame'[t].count = 0
    BY <1>a, <1>c, <2>1 DEF Delivering
  <2>4. Fine(t)'
    <3>1. CASE reason = "none"
      <4>1. (reason = "none") = TRUE
        BY <3>1
      <4>2. frame'[t].allow = TRUE /\ pc'[t] = "audience"
        BY <2>1, <3>1, <4>1, Zenon
      <4> QED  BY <2>3, <4>2 DEF Delivering
    <3>2. CASE reason # "none"
      <4>1. pc'[t] = "update"
        BY <2>1, <3>2
      <4> QED  BY <2>2, <2>3, <4>1 DEF Delivering
    <3> QED  BY <3>1, <3>2
  <2> QED  BY <1>4, <1>c, <1>d, <2>1, <2>4 DEF PipelineStep
<1>5. ASSUME NEW t \in Tasks, ReadAudience(t) PROVE Goal
  <2>1. /\ pc[t] = "audience" /\ pc'[t] = "watchers"
        /\ frame'[t].id = frame[t].id /\ frame'[t].count = frame[t].count
        /\ frame'[t].allow = frame[t].allow
        /\ UNCHANGED <<signals, notifications, published>>
    BY <1>5 DEF ReadAudience, At, Goto, TypeOK, Frame, tables
  <2>2. Fine(t)'
    BY <1>a, <1>c, <2>1 DEF Delivering
  <2> QED  BY <1>5, <1>c, <1>d, <2>1, <2>2 DEF PipelineStep
<1>6. ASSUME NEW t \in Tasks, SelectWatchers(t) PROVE Goal
  <2>1. /\ pc[t] = "watchers" /\ pc'[t] = "notify"
        /\ frame'[t].id = frame[t].id /\ frame'[t].count = frame[t].count
        /\ frame'[t].allow = frame[t].allow
        /\ UNCHANGED <<signals, notifications, published>>
    BY <1>6 DEF SelectWatchers, At, Goto, TypeOK, Frame, tables
  <2>2. Fine(t)'
    BY <1>a, <1>c, <2>1 DEF Delivering
  <2> QED  BY <1>6, <1>c, <1>d, <2>1, <2>2 DEF PipelineStep
<1>7. ASSUME NEW t \in Tasks, CreateNotifications(t) PROVE Goal
  <2> DEFINE i == frame[t].id
             W == frame[t].watchers
  <2>1. /\ pc[t] = "notify" /\ pc'[t] = "update"
        /\ UNCHANGED <<signals, published>>
    BY <1>7 DEF CreateNotifications, At, Goto, TypeOK
  <2>2. /\ i \in SignalIds /\ IsPending(i) /\ Recipients(i) = {} /\ frame[t].allow
        /\ W \subseteq Users
    BY <1>a, <2>1 DEF Delivering, IsPending, Stored, TypeOK, Frame
  <2>3. W \ Recipients(i) = W
    BY <2>2
  <2>4. /\ notifications' = notifications \cup (W \X {i})
        /\ frame' = [frame EXCEPT ![t].count = Cardinality(W)]
    BY <1>7, <2>3 DEF CreateNotifications
  <2>5. /\ Recipients(i)' = W
        /\ \A j : j # i => Recipients(j)' = Recipients(j)
    BY <2>2, <2>4 DEF Recipients
  <2>6. /\ frame'[t].id = i /\ frame'[t].count = Cardinality(W)
        /\ frame'[t].allow = frame[t].allow
    BY <2>4 DEF TypeOK, Frame
  <2>7. \A j : /\ IsPending(j)' = IsPending(j) /\ IsFinal(j)' = IsFinal(j)
               /\ (j \in Stored)' = (j \in Stored)
    BY <2>1 DEF IsPending, IsFinal, Stored
  <2>8. ~IsFinal(i) /\ i \in Stored
    BY <2>2 DEF IsPending, IsFinal, Final
  <2>9. Fine(t)'
    BY <2>1, <2>2, <2>5, <2>6, <2>7 DEF Delivering
  <2>10. \A j \in SignalIds : Done(j)'
    BY <1>a, <2>1, <2>5, <2>7, <2>8
  <2>11. \A m \in published' : Same(m)'
    BY <1>a, <2>1, <2>7
  <2> QED  BY <1>7, <1>d, <2>9, <2>10, <2>11 DEF PipelineStep
<1>8. ASSUME NEW t \in Tasks, UpdateSignalDelivery(t) PROVE Goal
  <2> DEFINE i == frame[t].id
             o == Outcome(frame[t])
             row == [signals[i] EXCEPT !.delivery = o.delivery, !.reason = o.reason,
                                       !.count = frame[t].count]
  <2>1. /\ pc[t] = "update" /\ pc'[t] = "broadcast"
        /\ UNCHANGED <<notifications, published, frame>>
        /\ signals' = [signals EXCEPT ![i] = row]
    BY <1>8 DEF UpdateSignalDelivery, At, Goto, TypeOK
  <2>2. /\ i \in SignalIds /\ IsPending(i) /\ signals[i] \in SignalRow
        /\ frame[t].count = Cardinality(Recipients(i))
        /\ ~frame[t].allow => frame[t].count = 0
    BY <1>a, <2>1 DEF Delivering, IsPending, Stored, TypeOK
  <2>3. /\ o.delivery \in Final /\ o.reason \in Reasons /\ frame[t].count \in Nat
        /\ (o.delivery = "notified") <=> (frame[t].count > 0)
    <3>1. frame[t] \in Frame /\ frame[t].count \in Nat
      BY DEF TypeOK, Frame
    <3> QED  BY <2>2, <3>1, OutcomeType DEF Outcome
  <2> HIDE DEF o
  <2>4. /\ row \in SignalRow /\ row.delivery = o.delivery /\ row.count = frame[t].count
    <3>1. o.delivery \in Deliveries
      BY <2>3 DEF Deliveries
    <3>2. signals[i] \in SignalRow /\ o.reason \in Reasons /\ frame[t].count \in Nat
      BY <2>2, <2>3
    <3>3. row \in SignalRow
      BY <3>1, <3>2, RowUpdate
    <3>4. row.delivery = o.delivery
      BY <3>2 DEF SignalRow
    <3>5. row.count = frame[t].count
      BY <3>2 DEF SignalRow
    <3> QED  BY <3>3, <3>4, <3>5
  <2> HIDE DEF row
  <2>5. signals'[i] = row /\ \A j \in SignalIds : j # i => signals'[j] = signals[j]
    BY <2>1, <2>2 DEF TypeOK
  <2>6. /\ IsFinal(i)' /\ i \in Stored' /\ ~IsFinal(i)
        /\ \A j \in SignalIds : j # i => /\ IsFinal(j)' = IsFinal(j)
                                         /\ (j \in Stored)' = (j \in Stored)
        /\ \A j : Recipients(j)' = Recipients(j)
    BY <2>1, <2>2, <2>3, <2>4, <2>5, NoneAssumption
    DEF IsFinal, IsPending, Stored, Final, Recipients
  <2>7. Fine(t)'
    BY <2>1, <2>6 DEF Delivering
  <2>8. \A j \in SignalIds : Done(j)'
    BY <1>a, <2>2, <2>3, <2>4, <2>5, <2>6
  <2>9. \A m \in published' : Same(m)'
    <3>1. \A m \in published : m.id \in SignalIds
      BY DEF TypeOK, Message
    <3> QED  BY <1>a, <2>1, <2>5, <2>6, <3>1
  <2> QED  BY <1>8, <1>d, <2>7, <2>8, <2>9 DEF PipelineStep
<1>9. ASSUME NEW t \in Tasks, Broadcast(t) PROVE Goal
  <2> DEFINE i == frame[t].id
             n == [id |-> i, delivery |-> signals[i].delivery,
                   reason |-> signals[i].reason, count |-> signals[i].count]
  <2>1. /\ pc[t] = "broadcast" /\ pc'[t] = "sending"
        /\ UNCHANGED <<signals, notifications>>
        /\ published' = published \cup {n}
    BY <1>9 DEF Broadcast, At, tables, TypeOK
  <2>2. Same(n)
    BY <1>a, <2>1
  <2>3. \A m \in published' : Same(m)'
    BY <1>a, <1>c, <2>1, <2>2
  <2>4. Fine(t)'
    BY <2>1 DEF Delivering
  <2> QED  BY <1>9, <1>c, <1>d, <2>1, <2>3, <2>4 DEF PipelineStep
<1>10. ASSUME NEW t \in Tasks, ResumeAfterBroadcast(t) PROVE Goal
  <2>1. pc'[t] \in {"idle", "decide"}
    BY <1>10 DEF ResumeAfterBroadcast, EndTurn, TypeOK
  <2> QED  BY <1>10, <1>c, <1>d, <2>1 DEF ResumeAfterBroadcast, PipelineStep, tables, Delivering
<1>11. ASSUME NEW T \in SUBSET Tasks, Reset(T) PROVE Goal
  <2>1. UNCHANGED <<signals, notifications, published>>
    BY <1>11 DEF Reset, tables
  <2>2. ASSUME NEW u \in T PROVE Fine(u)'
    BY <1>11 DEF Reset, Delivering
  <2>3. ASSUME NEW u \in Tasks \ T PROVE Fine(u)'
    <3>1. pc'[u] = pc[u] /\ frame'[u] = frame[u]
      BY <1>11 DEF Reset
    <3> QED  BY <1>a, <1>c, <2>1, <3>1
  <2> QED  BY <1>c, <2>1, <2>2, <2>3
<1>12. CASE UNCHANGED <<signals, published, pc, frame, notifications>>
  BY <1>12, <1>a, <1>c
<1>13. ASSUME NEW t \in Tasks, PipelineStep(t) PROVE Goal
  BY <1>2, <1>3, <1>4, <1>5, <1>6, <1>7, <1>8, <1>9, <1>10, <1>13 DEF PipelineStep
<1>14. ASSUME NEW t \in Tasks, RefreshRuntimeState(t) PROVE Goal
  BY <1>12, <1>14 DEF RefreshRuntimeState
<1>15. CASE HandlerStep \/ Tick \/ UNCHANGED vars
  BY <1>12, <1>15 DEF HandlerStep, AddWatchlistItem, DeleteWatchlistItem,
     WriteNotificationSettings, MarkNotificationRead, pipeline, Tick, vars, tables
<1>16. ASSUME NEW t \in Tasks, Abort(t) PROVE Goal
  <2>1. {t} \in SUBSET Tasks
    OBVIOUS
  <2> QED  BY <1>11, <1>16, <2>1 DEF Abort
<1>17. CASE Crash
  BY <1>11, <1>17 DEF Crash
<1> HIDE DEF Fine, Done, Same, Goal
<1> QED
  BY <1>1, <1>13, <1>14, <1>15, <1>16, <1>17 DEF Next, Goal

(* What a step does to the rows of the signals table: nothing, or one new  *)
(* row of a signal without a recent one, or an outcome that leaves symbol,  *)
(* kind and creation time as they are.                                      *)
LEMMA RowsStep ==
  ASSUME TypeOK, Busy, [Next]_vars
  PROVE  \/ \A j \in SignalIds : j \in Stored' =>
              /\ j \in Stored /\ signals'[j].symbol = signals[j].symbol
              /\ signals'[j].kind = signals[j].kind
              /\ signals'[j].created_at = signals[j].created_at
         \/ \E t \in Tasks, i \in SignalIds \ Stored :
              /\ pc[t] = "insert" /\ now' = now
              /\ ~Recent(target[t], frame[t].kind, frame[t].threshold)
              /\ signals'[i].symbol = target[t] /\ signals'[i].kind = frame[t].kind
              /\ signals'[i].created_at = now
              /\ \A j \in SignalIds \ {i} : signals'[j] = signals[j]
<1> DEFINE Kept == \A j \in SignalIds : j \in Stored' =>
              /\ j \in Stored /\ signals'[j].symbol = signals[j].symbol
              /\ signals'[j].kind = signals[j].kind
              /\ signals'[j].created_at = signals[j].created_at
           Inserted == \E t \in Tasks, i \in SignalIds \ Stored :
              /\ pc[t] = "insert" /\ now' = now
              /\ ~Recent(target[t], frame[t].kind, frame[t].threshold)
              /\ signals'[i].symbol = target[t] /\ signals'[i].kind = frame[t].kind
              /\ signals'[i].created_at = now
              /\ \A j \in SignalIds \ {i} : signals'[j] = signals[j]
<1>1. CASE UNCHANGED signals
  BY <1>1 DEF Stored
<1>2. ASSUME NEW t \in Tasks, InsertSignalIfNew(t) PROVE Kept \/ Inserted
  <2>1. CASE Recent(target[t], frame[t].kind, frame[t].threshold)
    BY <1>1, <1>2, <2>1 DEF InsertSignalIfNew
  <2>2. CASE ~Recent(target[t], frame[t].kind, frame[t].threshold)
    <3>1. PICK i \in SignalIds \ Stored :
            signals' = [signals EXCEPT ![i] =
              [symbol |-> target[t], kind |-> frame[t].kind, created_at |-> now,
               delivery |-> "pending", reason |-> "none", count |-> 0]]
      BY <1>2, <2>2 DEF InsertSignalIfNew
    <3>2. /\ signals'[i].symbol = target[t] /\ signals'[i].kind = frame[t].kind
          /\ signals'[i].created_at = now
          /\ \A j \in SignalIds \ {i} : signals'[j] = signals[j]
      BY <3>1 DEF TypeOK
    <3>3. pc[t] = "insert" /\ now' = now
      BY <1>2 DEF InsertSignalIfNew, At
    <3> QED  BY <2>2, <3>2, <3>3
  <2> QED  BY <2>1, <2>2
<1>3. ASSUME NEW t \in Tasks, UpdateSignalDelivery(t) PROVE Kept
  <2> DEFINE i == frame[t].id
             o == Outcome(frame[t])
             row == [signals[i] EXCEPT !.delivery = o.delivery, !.reason = o.reason,
                                       !.count = frame[t].count]
  <2>1. signals' = [signals EXCEPT ![i] = row]
    BY <1>3 DEF UpdateSignalDelivery
  <2>2. i \in Stored /\ signals[i] \in SignalRow
    BY <1>3 DEF UpdateSignalDelivery, At, Busy, Delivering, Stored, TypeOK
  <2> HIDE DEF o
  <2>3. /\ row.symbol = signals[i].symbol /\ row.kind = signals[i].kind
        /\ row.created_at = signals[i].created_at
    BY <2>2 DEF SignalRow
  <2> HIDE DEF row
  <2> QED  BY <2>1, <2>2, <2>3 DEF Stored, TypeOK
<1>4. ASSUME NEW t \in Tasks,
             Evaluate(t) \/ ReadThreshold(t) \/ ResolvePolicy(t) \/ ReadAudience(t)
               \/ SelectWatchers(t) \/ CreateNotifications(t) \/ Broadcast(t)
               \/ ResumeAfterBroadcast(t) \/ Abort(t) \/ RefreshRuntimeState(t)
      PROVE  UNCHANGED signals
  BY <1>4 DEF Evaluate, ReadThreshold, ResolvePolicy, ReadAudience, SelectWatchers,
     CreateNotifications, Broadcast, ResumeAfterBroadcast, Abort, Reset,
     RefreshRuntimeState, tables
<1>5. ASSUME Crash \/ HandlerStep \/ Tick \/ UNCHANGED vars
      PROVE  UNCHANGED signals
  BY <1>5 DEF Crash, Reset, HandlerStep, AddWatchlistItem, DeleteWatchlistItem,
     WriteNotificationSettings, MarkNotificationRead, Tick, tables, pipeline, vars
<1>6. UNCHANGED signals => Kept
  BY DEF Stored
<1> HIDE DEF Kept, Inserted
<1>7. Kept \/ Inserted
  BY <1>2, <1>3, <1>4, <1>5, <1>6 DEF Next, PipelineStep
<1> QED  BY <1>7 DEF Kept, Inserted

(* Deduplication: a new signal is created after the threshold was read, so it *)
(* is more than the window younger than every signal of its kind.             *)
LEMMA ClockStep ==
  TypeOK /\ Busy /\ ClockInv /\ DedupWindow /\ [Next]_vars => ClockInv' /\ DedupWindow'
<1> SUFFICES ASSUME TypeOK, Busy, ClockInv, DedupWindow, [Next]_vars
             PROVE  ClockInv' /\ DedupWindow'
  OBVIOUS
<1>1. now \in Nat /\ now' \in Nat /\ now <= now' /\ DedupSeconds \in Nat
  <2>1. now \in Nat /\ DedupSeconds \in Nat
    BY ConfigAssumption DEF TypeOK
  <2>2. now' = now \/ now' = now + 1
    BY DEF Next, PipelineStep, Evaluate, ReadThreshold, InsertSignalIfNew, ResolvePolicy,
       ReadAudience, SelectWatchers, CreateNotifications, UpdateSignalDelivery, Broadcast,
       ResumeAfterBroadcast, Abort, Crash, Reset, RefreshRuntimeState, HandlerStep,
       AddWatchlistItem, DeleteWatchlistItem, WriteNotificationSettings,
       MarkNotificationRead, pipeline, Tick, vars
  <2> QED  BY <2>1, <2>2
<1>2. \A j \in Stored : signals[j].created_at \in Nat
  BY DEF TypeOK, Stored, SignalRow
<1>3. \A t \in Tasks : pc'[t] = "insert" => frame'[t].threshold <= now' - DedupSeconds
  <2>1. ASSUME NEW t \in Tasks, ReadThreshold(t)
        PROVE  frame'[t].threshold = now - DedupSeconds
    BY <2>1 DEF ReadThreshold, EmptyFrame, TypeOK
  <2>2. ASSUME NEW t \in Tasks, NEW u \in Tasks, Evaluate(t) \/ PipelineStep(t),
               pc'[u] = "insert"
        PROVE  ReadThreshold(u) \/ (pc[u] = "insert" /\ frame'[u] = frame[u])
    <3>1. CASE u # t
      BY <2>2, <3>1, OthersUnchanged
    <3>2. CASE u = t
      BY <2>2, <3>2 DEF Evaluate, PipelineStep, InsertSignalIfNew, ResolvePolicy,
         ReadAudience, SelectWatchers, CreateNotifications, UpdateSignalDelivery, Broadcast,
         ResumeAfterBroadcast, At, Goto, EndTurn, TypeOK
    <3> QED  BY <3>1, <3>2
  <2>3. ASSUME NEW u \in Tasks, pc'[u] = "insert",
               ~\E t \in Tasks : Evaluate(t) \/ PipelineStep(t)
        PROVE  pc[u] = "insert" /\ frame'[u] = frame[u]
    BY <2>3 DEF Next, Abort, Crash, Reset, RefreshRuntimeState, HandlerStep,
       AddWatchlistItem, DeleteWatchlistItem, WriteNotificationSettings,
       MarkNotificationRead, pipeline, Tick, vars
  <2>4. \A u \in Tasks : frame[u].threshold \in Int
    BY DEF TypeOK, Frame
  <2> QED  BY <1>1, <2>1, <2>2, <2>3, <2>4 DEF ClockInv
<1>4. CASE \A j \in SignalIds : j \in Stored' =>
              /\ j \in Stored /\ signals'[j].symbol = signals[j].symbol
              /\ signals'[j].kind = signals[j].kind
              /\ signals'[j].created_at = signals[j].created_at
  <2>1. \A j \in Stored' : j \in SignalIds
    BY DEF Stored
  <2>2. ClockInv'
    BY <1>1, <1>2, <1>3, <1>4, <2>1 DEF ClockInv
  <2>3. DedupWindow'
    BY <1>4, <2>1 DEF DedupWindow
  <2> QED  BY <2>2, <2>3
<1>5. CASE \E t \in Tasks, i \in SignalIds \ Stored :
              /\ pc[t] = "insert" /\ now' = now
              /\ ~Recent(target[t], frame[t].kind, frame[t].threshold)
              /\ signals'[i].symbol = target[t] /\ signals'[i].kind = frame[t].kind
              /\ signals'[i].created_at = now
              /\ \A j \in SignalIds \ {i} : signals'[j] = signals[j]
  <2>1. PICK t \in Tasks, i \in SignalIds \ Stored :
              /\ pc[t] = "insert" /\ now' = now
              /\ ~Recent(target[t], frame[t].kind, frame[t].threshold)
              /\ signals'[i].symbol = target[t] /\ signals'[i].kind = frame[t].kind
              /\ signals'[i].created_at = now
              /\ \A j \in SignalIds \ {i} : signals'[j] = signals[j]
    BY <1>5
  <2>2. \A j \in Stored' \ {i} : j \in Stored /\ signals'[j] = signals[j]
    BY <2>1 DEF Stored
  <2>3. frame[t].threshold \in Int /\ frame[t].threshold <= now - DedupSeconds
    BY <2>1 DEF ClockInv, TypeOK, Frame
  <2>4. \A j \in Stored :
          signals[j].symbol = target[t] /\ signals[j].kind = frame[t].kind
            => now - signals[j].created_at > DedupSeconds
    BY <1>1, <1>2, <2>1, <2>3 DEF Recent
  <2>5. ClockInv'
    BY <1>1, <1>2, <1>3, <2>1, <2>2 DEF ClockInv
  <2>6. DedupWindow'
    <3> SUFFICES ASSUME NEW j \in Stored', NEW k \in Stored', j # k,
                        signals'[j].symbol = signals'[k].symbol,
                        signals'[j].kind = signals'[k].kind,
                        signals'[j].created_at <= signals'[k].created_at
                 PROVE  signals'[k].created_at - signals'[j].created_at > DedupSeconds
      BY DEF DedupWindow
    <3>1. CASE j # i /\ k # i
      BY <2>2, <3>1 DEF DedupWindow
    <3>2. CASE k = i
      BY <2>1, <2>2, <2>4, <3>2
    <3>3. CASE j = i
      <4>1. now - signals[k].created_at > DedupSeconds /\ now <= signals[k].created_at
        BY <2>1, <2>2, <2>4, <3>3
      <4> QED  BY <1>1, <1>2, <2>2, <3>3, <4>1
    <3> QED  BY <3>1, <3>2, <3>3
  <2> QED  BY <2>5, <2>6
<1> QED  BY <1>4, <1>5, RowsStep

LEMMA InitIInv == Init => IInv
<1> SUFFICES ASSUME Init PROVE IInv
  OBVIOUS
<1>1. TypeOK
  BY ConfigAssumption, EmptyFrameIsFrame DEF Init, TypeOK, Steps
<1>2. Stored = {} /\ \A i : Recipients(i) = {}
  BY DEF Init, Stored, Recipients
<1> QED
  BY <1>1, <1>2 DEF Init, IInv, Busy, HandledInv, OutcomeInv, PublishedAsPersisted,
     ClockInv, DedupWindow, Delivering, Working, IsFinal

LEMMA NextIInv == IInv /\ [Next]_vars => IInv'
BY TypeStep, BusyStep, DeliveryStep, ClockStep DEF IInv, DeliveryInv

(* IInv is inductive. *)
THEOREM Invariance == Spec => []IInv
<1> QED  BY InitIInv, NextIInv, PTL DEF Spec

(* Every table and every local has its type. *)
THEOREM TypeCorrect == Spec => []TypeOK
<1>1. IInv => TypeOK
  BY DEF IInv
<1> QED  BY <1>1, Invariance, PTL

(* The stored outcome of a signal agrees with the notifications table, with   *)
(* any number of tasks, users and requests, and whatever fails.               *)
THEOREM DeliveryCorrect == Spec => []DeliveryMatchesNotifications
<1>1. IInv => DeliveryMatchesNotifications
  <2> SUFFICES ASSUME IInv, NEW i \in SignalIds, IsFinal(i)
               PROVE  /\ signals[i].count = Cardinality(Recipients(i))
                      /\ (signals[i].delivery = "notified") <=> (Recipients(i) # {})
    BY DEF DeliveryMatchesNotifications
  <2>1. Recipients(i) \in SUBSET Users
    BY DEF Recipients
  <2> QED  BY <2>1, UserSets DEF IInv, OutcomeInv
<1> QED  BY <1>1, Invariance, PTL

(* Two signals of a kind are never within the deduplication window. *)
THEOREM DedupCorrect == Spec => []DedupWindow
<1>1. IInv => DedupWindow
  BY DEF IInv
<1> QED  BY <1>1, Invariance, PTL

(* A broadcast signal agrees for ever with its row in the table. *)
THEOREM PublishedCorrect == Spec => []PublishedAsPersisted
<1>1. IInv => PublishedAsPersisted
  BY DEF IInv
<1> QED  BY <1>1, Invariance, PTL
=============================================================================
