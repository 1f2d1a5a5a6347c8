--------------------------- MODULE SignalDelivery ---------------------------
(***************************************************************************)
(* The signal pipeline of app/signal_service.py over the tables of         *)
(* app/db.py.  The market engine and the scanner are two tasks of one      *)
(* asyncio event loop; each evaluates a symbol, inserts the signals its    *)
(* strategies decide on, delivers web notifications to the watchers of the *)
(* symbol, stores the delivery outcome and broadcasts the signal.  The     *)
(* pipeline never awaits between the insertion and the broadcast, so a     *)
(* task holds the event loop there; but every database statement is a      *)
(* separate step, because the HTTP handlers run in other threads and       *)
(* change watchlists and settings between any two of them.                 *)
(*                                                                         *)
(* Bounds: MaxTime (clock), SignalIds (rows), MaxAborts (failures).        *)
(***************************************************************************)
EXTENDS Integers, FiniteSets

CONSTANTS
  Users, Symbols,
  Kinds,            \* pairs (signal_type, strategy_name) a decision can carry
  SignalIds,        \* primary keys of the signals table
  Tasks,            \* asyncio tasks that evaluate symbols
  TaskOf,           \* the task that evaluates a symbol
  ScannerTask,      \* the task whose symbols are in data_mode 'scanner'
  ScannerSessions,  \* market_session values of scanner symbols
  AllowedSessions,  \* SCANNER_ALERT_ALLOWED_SESSIONS
  AllowDelayed,     \* SCANNER_ALERT_ALLOW_DELAYED
  DedupSeconds,     \* SIGNAL_DEDUP_SECONDS
  MaxTime, MaxAborts,
  None

ASSUME UsersAssumption == IsFiniteSet(Users)
ASSUME TaskAssumption ==
  /\ TaskOf \in [Symbols -> Tasks]
  /\ None \notin Tasks
ASSUME ConfigAssumption ==
  /\ AllowDelayed \in BOOLEAN /\ DedupSeconds \in Nat
  /\ MaxTime \in Nat
  /\ MaxAborts \in Nat

Final      == {"notified", "suppressed", "no_subscribers"}
Deliveries == {"pending"} \cup Final
Reasons    == {"none", "session_blocked", "delayed_blocked",
               "no_watchlist_subscribers", "email_only", "web_disabled"}

SignalRow ==
  [symbol: Symbols, kind: Kinds, created_at: Nat,
   delivery: Deliveries, reason: Reasons, count: Nat]

ASSUME NoneAssumption ==
  /\ None \notin SignalRow
  /\ None \notin [symbol: Symbols, kind: Kinds, created_at: Nat]

(* What a broadcast carries of the persisted signal. *)
Message == [id: SignalIds, delivery: Deliveries, reason: Reasons, count: Nat]

(* The rows of instrument_runtime_state that the two tasks write. *)
RealtimeState ==
  [data_mode |-> "realtime", market_session |-> "continuous", is_delayed |-> FALSE]
ScannerStates ==
  [data_mode: {"scanner"}, market_session: ScannerSessions, is_delayed: BOOLEAN]
RuntimeStates(sym) == IF TaskOf[sym] = ScannerTask THEN ScannerStates ELSE {RealtimeState}

Steps == {"idle", "decide", "insert", "policy", "audience", "watchers",
          "notify", "update", "broadcast", "sending"}

(* The locals of one turn of the loop over the decisions. *)
Frame ==
  [kind: Kinds \cup {None}, threshold: Int, id: SignalIds \cup {None}, allow: BOOLEAN,
   reason: Reasons, watchers: SUBSET Users, count: Nat]

VARIABLES
  signals,        \* table signals: row of each primary key, or None
  notifications,  \* table notifications: pairs (user, signal id), unique
  is_read,        \* the notifications with is_read = 1
  watchlists,     \* table watchlists: pairs (user, symbol), unique
  web_enabled, email_enabled,  \* users with the flag set in notification_settings
  runtime,        \* table instrument_runtime_state
  published,      \* 'signal' messages handed to the broadcaster
  loop,           \* the task between two awaits, or None
  pc, target, todo, frame,     \* per task: step, symbol, decisions left, locals
  aborts,         \* failures so far
  now             \* wall clock

tables  == <<signals, notifications, is_read, watchlists, web_enabled,
             email_enabled, runtime>>
handled == <<watchlists, web_enabled, email_enabled, is_read>>
vars    == <<tables, published, loop, pc, target, todo, frame, aborts, now>>

-----------------------------------------------------------------------------
Stored        == {i \in SignalIds : signals[i] # None}
Recipients(i) == {u \in Users : <<u, i>> \in notifications}
IsFinal(i)    == i \in Stored /\ signals[i].delivery \in Final
IsPending(i)  == i \in Stored /\ signals[i].delivery = "pending"

(* Task t has inserted signal i and not yet stored its outcome. *)
Handles(t, i) ==
  pc[t] \in {"policy", "audience", "watchers", "notify", "update"} /\ frame[t].id = i
InFlight(i) == \E t \in Tasks : Handles(t, i)

Watchers(sym) == {u \in Users : <<u, sym>> \in watchlists}
Eligible(sym) == Watchers(sym) \cap web_enabled

(* resolve_signal_delivery_policy: why the symbol must not alert, or "none". *)
PolicyReason(state) ==
  IF state.data_mode # "scanner" THEN "none"
  ELSE IF state.market_session \notin AllowedSessions THEN "session_blocked"
  ELSE IF state.is_delayed /\ ~AllowDelayed THEN "delayed_blocked"
  ELSE "none"

(* The reason resolve_signal_delivery_outcome gives when nobody was notified, *)
(* as a function of the audience that get_signal_delivery_audience counts.    *)
AudienceReason(watching, web, email) ==
  IF watching = {} THEN "no_watchlist_subscribers"
  ELSE IF web = {} /\ email # {} THEN "email_only"
  ELSE "web_disabled"

\* Mutant: a signal nobody was alerted about is 'notified' when alerts are allowed.
OutcomeIgnoresCount(f) ==
  IF ~f.allow THEN [delivery |-> "suppressed", reason |-> f.reason]
  ELSE [delivery |-> "notified", reason |-> "none"]

\* Mutant: the two results of a blocked signal are returned in the wrong order.
OutcomeSwapped(f) ==
  IF ~f.allow THEN [delivery |-> f.reason, reason |-> "suppressed"]
  ELSE IF f.count > 0 THEN [delivery |-> "notified", reason |-> "none"]
  ELSE [delivery |-> "no_subscribers", reason |-> f.reason]

(* resolve_signal_delivery_outcome. *)
Outcome(f) ==
  IF ~f.allow THEN [delivery |-> "suppressed", reason |-> f.reason]
  ELSE IF f.count > 0 THEN [delivery |-> "notified", reason |-> "none"]
  ELSE [delivery |-> "no_subscribers", reason |-> f.reason]

\* Mutant: a signal exactly as old as the threshold no longer counts.
RecentExclusive(sym, kind, threshold) ==
  \E i \in Stored : /\ signals[i].symbol = sym
                    /\ signals[i].kind = kind
                    /\ signals[i].created_at > threshold

(* A signal of the same symbol, type and strategy not older than threshold. *)
Recent(sym, kind, threshold) ==
  \E i \in Stored : /\ signals[i].symbol = sym
                    /\ signals[i].kind = kind
                    /\ signals[i].created_at >= threshold

EmptyFrame ==
  [kind |-> None, threshold |-> 0, id |-> None, allow |-> FALSE,
   reason |-> "none", watchers |-> {}, count |-> 0]

Init ==
  /\ signals = [i \in SignalIds |-> None]
  /\ notifications = {} /\ is_read = {}
  /\ watchlists \in SUBSET (Users \X Symbols)
  /\ web_enabled = Users /\ email_enabled = {}
  /\ runtime \in [Symbols -> ScannerStates \cup {RealtimeState}]
  /\ \A sym \in Symbols : runtime[sym] \in RuntimeStates(sym)
  /\ published = {}
  /\ loop = None
  /\ pc = [t \in Tasks |-> "idle"]
  /\ target = [t \in Tasks |-> None]
  /\ todo = [t \in Tasks |-> {}]
  /\ frame = [t \in Tasks |-> EmptyFrame]
  /\ aborts = 0 /\ now = 0

-----------------------------------------------------------------------------
(* The pipeline of task t.  At(t, step) is the guard of every step but the   *)
(* first and the last: the task has the event loop and is at that step.      *)
At(t, step) == loop = t /\ pc[t] = step
Goto(t, step) == pc' = [pc EXCEPT ![t] = step] /\ UNCHANGED loop
EndTurn(t, rest) ==  \* next decision, or evaluate_symbol_and_broadcast returns
  IF rest = {}
  THEN pc' = [pc EXCEPT ![t] = "idle"] /\ loop' = None
  ELSE pc' = [pc EXCEPT ![t] = "decide"] /\ loop' = t

(* Bound: an evaluation starts only if every decision still to come finds an id. *)
IdsLeftFor(ds) ==
  Cardinality(ds) + Cardinality({d \in Tasks \X Kinds : d[2] \in todo[d[1]]})
    <= Cardinality(SignalIds \ Stored)

(* Candles and strategies are read and the strategies decide.  Which decisions *)
(* come out is a free choice here; no decision at all changes nothing.          *)
Evaluate(t) ==
  /\ loop = None /\ pc[t] = "idle"
  /\ \E sym \in Symbols, ds \in SUBSET Kinds :
       /\ TaskOf[sym] = t /\ ds # {} /\ IdsLeftFor(ds)
       /\ target' = [target EXCEPT ![t] = sym]
       /\ todo' = [todo EXCEPT ![t] = ds]
  /\ loop' = t /\ pc' = [pc EXCEPT ![t] = "decide"]
  /\ UNCHANGED <<tables, published, frame, aborts, now>>

(* insert_signal_if_new computes its threshold before it opens a transaction. *)
ReadThreshold(t) ==
  /\ At(t, "decide") /\ Goto(t, "insert")
  /\ \E k \in todo[t] :
       /\ frame' = [frame EXCEPT ![t] =
                      [EmptyFrame EXCEPT !.kind = k, !.threshold = now - DedupSeconds]]
       /\ todo' = [todo EXCEPT ![t] = @ \ {k}]
  /\ UNCHANGED <<tables, published, target, aborts, now>>

\* Mutant: a recent signal is returned instead of nothing, and delivered again.
InsertOrReuseSignal(t) ==
  /\ At(t, "insert") /\ Goto(t, "policy")
  /\ \E i \in SignalIds :
       /\ IF Recent(target[t], frame[t].kind, frame[t].threshold)
          THEN /\ i \in Stored /\ UNCHANGED signals
               /\ signals[i].symbol = target[t] /\ signals[i].kind = frame[t].kind
          ELSE i \notin Stored /\ signals' = [signals EXCEPT ![i] =
                 [symbol |-> target[t], kind |-> frame[t].kind, created_at |-> now,
                  delivery |-> "pending", reason |-> "none", count |-> 0]]
       /\ frame' = [frame EXCEPT ![t].id = i]
  /\ UNCHANGED <<notifications, handled, runtime, published, target, todo, aborts, now>>

InsertSignalIfNew(t) ==
  /\ At(t, "insert")
  /\ IF Recent(target[t], frame[t].kind, frame[t].threshold)
     THEN /\ EndTurn(t, todo[t])
          /\ UNCHANGED <<signals, frame>>
     ELSE /\ \E i \in SignalIds \ Stored :
               /\ signals' = [signals EXCEPT ![i] =
                    [symbol |-> target[t], kind |-> frame[t].kind, created_at |-> now,
                     delivery |-> "pending", reason |-> "none", count |-> 0]]
               /\ frame' = [frame EXCEPT ![t].id = i]
          /\ Goto(t, "policy")
  /\ UNCHANGED <<notifications, handled, runtime, published, target, todo, aborts, now>>

\* Mutant: a blocked symbol goes on to its next decision at once.
ResolvePolicySkipsBlocked(t) ==
  /\ At(t, "policy")
  /\ LET reason == PolicyReason(runtime[target[t]])
     IN  /\ frame' = [frame EXCEPT ![t].allow = (reason = "none"), ![t].reason = reason]
         /\ IF reason = "none" THEN Goto(t, "audience") ELSE EndTurn(t, todo[t])
  /\ UNCHANGED <<tables, published, target, todo, aborts, now>>

ResolvePolicy(t) ==
  /\ At(t, "policy")
  /\ LET reason == PolicyReason(runtime[target[t]])
     IN  /\ frame' = [frame EXCEPT ![t].allow = (reason = "none"), ![t].reason = reason]
         /\ Goto(t, IF reason = "none" THEN "audience" ELSE "update")
  /\ UNCHANGED <<tables, published, target, todo, aborts, now>>

(* get_signal_delivery_audience: one SELECT. *)
ReadAudience(t) ==
  /\ At(t, "audience") /\ Goto(t, "watchers")
  /\ LET w == Watchers(target[t])
     IN  frame' = [frame EXCEPT ![t].reason =
                     AudienceReason(w, w \cap web_enabled, w \cap email_enabled)]
  /\ UNCHANGED <<tables, published, target, todo, aborts, now>>

\* Mutant: the join with notification_settings is left out.
SelectAllWatchers(t) ==
  /\ At(t, "watchers") /\ Goto(t, "notify")
  /\ frame' = [frame EXCEPT ![t].watchers = Watchers(target[t])]
  /\ UNCHANGED <<tables, published, target, todo, aborts, now>>

(* create_notifications_for_signal: the SELECT of the watchers, then the      *)
(* INSERTs.  Neither database serialises the SELECT with a concurrent delete. *)
SelectWatchers(t) ==
  /\ At(t, "watchers") /\ Goto(t, "notify")
  /\ frame' = [frame EXCEPT ![t].watchers = Eligible(target[t])]
  /\ UNCHANGED <<tables, published, target, todo, aborts, now>>

CreateNotifications(t) ==
  /\ At(t, "notify") /\ Goto(t, "update")
  /\ LET fresh == frame[t].watchers \ Recipients(frame[t].id)  \* on conflict do nothing
     IN  /\ notifications' = notifications \cup (fresh \X {frame[t].id})
         /\ frame' = [frame EXCEPT ![t].count = Cardinality(fresh)]
  /\ UNCHANGED <<signals, handled, runtime, published, target, todo, aborts, now>>

UpdateSignalDelivery(t) ==
  /\ At(t, "update") /\ Goto(t, "broadcast")
  /\ LET o == Outcome(frame[t])
     IN  signals' = [signals EXCEPT ![frame[t].id] =
                       [@ EXCEPT !.delivery = o.delivery, !.reason = o.reason,
                                 !.count = frame[t].count]]
  /\ UNCHANGED <<notifications, handled, runtime, published, target, todo, frame,
                 aborts, now>>

\* Mutant: the payload takes the reason found before the outcome was resolved.
BroadcastStaleReason(t) ==
  /\ At(t, "broadcast")
  /\ LET i == frame[t].id
     IN  published' = published \cup
           {[id |-> i, delivery |-> signals[i].delivery,
             reason |-> frame[t].reason, count |-> signals[i].count]}
  /\ frame' = [frame EXCEPT ![t] = EmptyFrame]
  /\ pc' = [pc EXCEPT ![t] = "sending"] /\ loop' = None
  /\ UNCHANGED <<tables, target, todo, aborts, now>>

(* The payload is built from the persisted row; awaiting the sends gives up *)
(* the event loop until the broadcaster is done.                            *)
Broadcast(t) ==
  /\ At(t, "broadcast")
  /\ LET i == frame[t].id
     IN  published' = published \cup
           {[id |-> i, delivery |-> signals[i].delivery,
             reason |-> signals[i].reason, count |-> signals[i].count]}
  /\ frame' = [frame EXCEPT ![t] = EmptyFrame]
  /\ pc' = [pc EXCEPT ![t] = "sending"] /\ loop' = None
  /\ UNCHANGED <<tables, target, todo, aborts, now>>

ResumeAfterBroadcast(t) ==
  /\ loop = None /\ pc[t] = "sending"
  /\ EndTurn(t, todo[t])
  /\ UNCHANGED <<tables, published, target, todo, frame, aborts, now>>

(* A database error, a cancellation at the await, or the end of the process *)
(* drops what the task had left to do; the tables keep what was committed.  *)
Reset(T) ==
  /\ pc' = [t \in Tasks |-> IF t \in T THEN "idle" ELSE pc[t]]
  /\ todo' = [t \in Tasks |-> IF t \in T THEN {} ELSE todo[t]]
  /\ frame' = [t \in Tasks |-> IF t \in T THEN EmptyFrame ELSE frame[t]]
  /\ loop' = IF loop \in T THEN None ELSE loop
  /\ aborts' = aborts + 1
  /\ UNCHANGED <<tables, published, target, now>>

Abort(t) == aborts < MaxAborts /\ pc[t] # "idle" /\ loop \in {t, None} /\ Reset({t})
Crash    == aborts < MaxAborts /\ Reset(Tasks)

\* Mutant: the scanner refreshes from a thread, whatever the event loop is doing.
RefreshFromThread(t) ==
  /\ t = ScannerTask
  /\ \E sym \in Symbols, state \in ScannerStates :
       /\ TaskOf[sym] = t
       /\ runtime' = [runtime EXCEPT ![sym] = state]
  /\ UNCHANGED <<signals, notifications, handled, published, loop, pc, target, todo,
                 frame, aborts, now>>

(* upsert_instrument_runtime_state, called by the owning task between awaits. *)
RefreshRuntimeState(t) ==
  /\ loop = None /\ pc[t] = "idle" /\ t = ScannerTask
  /\ \E sym \in Symbols, state \in ScannerStates :
       /\ TaskOf[sym] = t
       /\ runtime' = [runtime EXCEPT ![sym] = state]
  /\ UNCHANGED <<signals, notifications, handled, published, loop, pc, target, todo,
                 frame, aborts, now>>

-----------------------------------------------------------------------------
(* HTTP handlers, each in a thread of its own. *)
pipeline == <<signals, notifications, runtime, published, loop, pc, target, todo,
              frame, aborts, now>>

AddWatchlistItem(u, sym) ==
  /\ watchlists' = watchlists \cup {<<u, sym>>}
  /\ UNCHANGED <<pipeline, web_enabled, email_enabled, is_read>>

DeleteWatchlistItem(u, sym) ==
  /\ watchlists' = watchlists \ {<<u, sym>>}
  /\ UNCHANGED <<pipeline, web_enabled, email_enabled, is_read>>

(* The write of update_notification_settings. *)
WriteNotificationSettings(u, web, email) ==
  /\ web_enabled' = IF web THEN web_enabled \cup {u} ELSE web_enabled \ {u}
  /\ email_enabled' = IF email THEN email_enabled \cup {u} ELSE email_enabled \ {u}
  /\ UNCHANGED <<pipeline, watchlists, is_read>>

MarkNotificationRead(u, i) ==
  /\ <<u, i>> \in notifications
  /\ is_read' = is_read \cup {<<u, i>>}
  /\ UNCHANGED <<pipeline, watchlists, web_enabled, email_enabled>>

Tick ==
  /\ now < MaxTime /\ now' = now + 1
  /\ UNCHANGED <<tables, published, loop, pc, target, todo, frame, aborts>>

PipelineStep(t) ==
  \/ ReadThreshold(t) \/ InsertSignalIfNew(t) \/ ResolvePolicy(t) \/ ReadAudience(t)
  \/ SelectWatchers(t) \/ CreateNotifications(t) \/ UpdateSignalDelivery(t)
  \/ Broadcast(t) \/ ResumeAfterBroadcast(t)

HandlerStep ==
  \/ \E u \in Users, sym \in Symbols : AddWatchlistItem(u, sym) \/ DeleteWatchlistItem(u, sym)
  \/ \E u \in Users, web, email \in BOOLEAN : WriteNotificationSettings(u, web, email)
  \/ \E u \in Users, i \in SignalIds : MarkNotificationRead(u, i)

Next ==
  \/ \E t \in Tasks : Evaluate(t) \/ PipelineStep(t) \/ Abort(t) \/ RefreshRuntimeState(t)
  \/ Crash
  \/ HandlerStep
  \/ Tick

Spec == Init /\ [][Next]_vars

(* A task that holds the event loop keeps running: blocking database calls  *)
(* return or raise.  Nothing forces a handler, a failure or an evaluation,  *)
(* and a task that waits for the loop may wait.                             *)
FairSpec == Spec /\ \A t \in Tasks : WF_vars(PipelineStep(t))

-----------------------------------------------------------------------------
TypeOK ==
  /\ signals \in [SignalIds -> SignalRow \cup {None}]
  /\ notifications \subseteq Users \X SignalIds
  /\ is_read \subseteq notifications
  /\ watchlists \subseteq Users \X Symbols
  /\ web_enabled \subseteq Users /\ email_enabled \subseteq Users
  /\ runtime \in [Symbols -> ScannerStates \cup {RealtimeState}]
  /\ published \subseteq Message
  /\ loop \in Tasks \cup {None}
  /\ pc \in [Tasks -> Steps]
  /\ target \in [Tasks -> Symbols \cup {None}]
  /\ todo \in [Tasks -> SUBSET Kinds]
  /\ frame \in [Tasks -> Frame]
  /\ aborts \in 0..MaxAborts /\ now \in 0..MaxTime

(* Two signals of one symbol, type and strategy are more than DedupSeconds *)
(* apart, whatever the interleaving, the clock and the failures            *)
(* (insert_signal_if_new; its threshold and its created_at are two reads). *)
DedupWindow ==
  \A i, j \in Stored :
    ( /\ i # j
      /\ signals[i].symbol = signals[j].symbol
      /\ signals[i].kind = signals[j].kind
      /\ signals[i].created_at <= signals[j].created_at )
      => signals[j].created_at - signals[i].created_at > DedupSeconds

(* The outcome stored with a signal agrees with the notifications table:    *)
(* the count is the number of rows, and 'notified' means there is a row.    *)
(* The two are written by different transactions                            *)
(* (create_notifications_for_signal, update_signal_delivery).               *)
DeliveryMatchesNotifications ==
  \A i \in SignalIds : IsFinal(i) =>
    /\ signals[i].count = Cardinality(Recipients(i))
    /\ (signals[i].delivery = "notified") <=> (Recipients(i) # {})

(* Every broadcast signal carries what the table says, then and ever after. *)
PublishedAsPersisted ==
  \A m \in published :
    /\ IsFinal(m.id)
    /\ m.delivery = signals[m.id].delivery
    /\ m.reason = signals[m.id].reason
    /\ m.count = signals[m.id].count

(* A stored signal is never taken up again, by any task, and its row and its   *)
(* recipients change only by a step of the task that is handling it: a settled *)
(* signal is frozen for ever, one whose task failed stays pending for ever     *)
(* (nothing in the code looks for pending signals), and no request, refresh or *)
(* other task touches a signal in flight.                                      *)
OnlyTheHandlerWrites ==
  [][\A i \in Stored :
       /\ \A t \in Tasks : Handles(t, i)' => Handles(t, i)
       /\ signals'[i] # signals[i] \/ Recipients(i)' # Recipients(i)
            => \E t \in Tasks : Handles(t, i) /\ loop = t /\ pc'[t] # pc[t]]_vars

(* A user is alerted only while the delivery policy of the symbol allows it:  *)
(* the runtime state read by resolve_signal_delivery_policy is not stale when *)
(* the notifications are written.                                             *)
NoAlertWhenBlocked ==
  [][\A n \in notifications' \ notifications :
       PolicyReason(runtime[signals[n[2]].symbol]) = "none"]_vars

(* Once failures have ceased, a signal being delivered gets its outcome and is *)
(* broadcast.                                                                  *)
EventuallyPublished ==
  \A i \in SignalIds :
    (InFlight(i) /\ aborts = MaxAborts) ~> (\E m \in published : m.id = i)

(* The pipeline implements the ledger: a reader who sees a final outcome sees *)
(* all of its notifications, and an outcome never changes or comes undone.    *)
Raised ==
  [i \in SignalIds |->
    IF i \in Stored
    THEN [symbol |-> signals[i].symbol, kind |-> signals[i].kind,
          created_at |-> signals[i].created_at]
    ELSE None]
Settled ==
  [i \in SignalIds |->
    IF IsFinal(i)
    THEN [delivery |-> signals[i].delivery, count |-> signals[i].count,
          alerted |-> Recipients(i)]
    ELSE None]
Ledger == INSTANCE SignalLedger WITH raised <- Raised, settled <- Settled
ImplementsLedger == Ledger!Spec

-----------------------------------------------------------------------------
(* Why the invariants hold.  A task between two awaits has the event loop to  *)
(* itself (Busy), so the signal it delivers is pending and nobody else writes *)
(* it (Deliveries agree); created_at is read after the threshold (Clock).     *)
Delivering == {"policy", "audience", "watchers", "notify", "update"}
Working    == Delivering \cup {"decide", "insert", "broadcast"}

Busy ==
  \A t \in Tasks :
    /\ pc[t] \in Working => loop = t
    /\ pc[t] # "idle" => target[t] \in Symbols
    /\ pc[t] = "insert" => frame[t].kind \in Kinds
    /\ pc[t] \in Delivering \cup {"broadcast"} => frame[t].id \in Stored

HandledInv ==
  \A t \in Tasks :
    /\ pc[t] \in Delivering => IsPending(frame[t].id)
    /\ pc[t] \in Delivering \ {"update"} => Recipients(frame[t].id) = {}
    /\ pc[t] \in Delivering \cup {"insert"} /\ pc[t] # "update" => frame[t].count = 0
    /\ pc[t] = "update" => /\ frame[t].count = Cardinality(Recipients(frame[t].id))
                           /\ ~frame[t].allow => frame[t].count = 0
    /\ pc[t] \in {"audience", "watchers", "notify"} => frame[t].allow
    /\ pc[t] = "broadcast" => IsFinal(frame[t].id)

OutcomeInv ==
  \A i \in SignalIds :
    /\ i \notin Stored => Recipients(i) = {}
    /\ IsFinal(i) => /\ signals[i].count = Cardinality(Recipients(i))
                     /\ (signals[i].delivery = "notified") <=> (signals[i].count > 0)

ClockInv ==
  /\ \A i \in Stored : signals[i].created_at <= now
  /\ \A t \in Tasks : pc[t] = "insert" => frame[t].threshold <= now - DedupSeconds

IInv == TypeOK /\ Busy /\ HandledInv /\ OutcomeInv /\ PublishedAsPersisted
          /\ ClockInv /\ DedupWindow
=============================================================================
