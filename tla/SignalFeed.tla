----------------------------- MODULE SignalFeed -----------------------------
(***************************************************************************)
(* build_signal_feed of app/client_api.py: one request reads the signals,  *)
(* newest first, page by page with LIMIT and OFFSET, keeps those its       *)
(* filters admit until it has as many as it was asked for, and answers     *)
(* with the most urgent.  Every page is a query of its own, and the signal *)
(* pipeline inserts and updates rows between two pages.                    *)
(*                                                                         *)
(* Abstracted: a signal is named by its place in the order of created_at;  *)
(* created_at values are distinct.  A list of rows is a set of entries     *)
(* that carry the place at which the row was read.                         *)
(* The pipeline is followed up to the answer.                              *)
(* Bounds: MaxSignals (rows), BatchFactor and MinBatch (page size).        *)
(***************************************************************************)
EXTENDS Naturals, Sequences, FiniteSetsExt

CONSTANTS
  MaxSignals,
  Filters,                \* the limits and filters a client asks for
  BatchFactor, MinBatch,  \* 4 and 20 in the code
  Unset                   \* a filter that is left out

Deliveries == {"notified", "no_subscribers", "pending", "suppressed"}
Modes      == {"realtime", "scanner"}

Row   == [mode: Modes, delivery: Deliveries]
Entry == [place: Nat, id: 1..MaxSignals, delivery: Deliveries]

ASSUME FeedAssumption ==
  /\ MaxSignals \in Nat
  /\ BatchFactor \in Nat \ {0} /\ MinBatch \in Nat \ {0}
  /\ Unset \notin Filters
  /\ \A f \in Filters :
       /\ DOMAIN f = {"limit", "delivery", "mode", "include_suppressed", "audit_only"}
       /\ f.limit \in Nat
       /\ f.delivery \in Deliveries \cup {Unset} /\ f.mode \in Modes \cup {Unset}
       /\ {f.include_suppressed, f.audit_only} \subseteq BOOLEAN

VARIABLES
  signals,          \* table signals, in the order of created_at
  feed,             \* feed request: not yet made, before a query, answered
  filter,           \* what it asks for
  offset, filtered, \* its locals
  answer,           \* what the client gets
  steady,           \* history: signals that have not changed since it began
  shifted,          \* history: signals inserted since it began
  deepest           \* history: the oldest signal it has read

feedVars == <<signals, feed, filter, offset, filtered, answer, steady, shifted, deepest>>

TypeOKFeed ==
  /\ signals \in Seq(Row) /\ Len(signals) <= MaxSignals
  /\ feed \in {"new", "scanning", "answered"}
  /\ filter \in Filters \cup {Unset}
  /\ offset \in Nat
  /\ filtered \subseteq Entry /\ answer \subseteq filtered
  /\ filter # Unset => Cardinality(answer) <= filter.limit
  /\ steady \subseteq 1..MaxSignals /\ shifted \in 0..MaxSignals
  /\ deepest \in 1..(MaxSignals + 1)

InitFeed ==
  /\ signals = <<>> /\ feed = "new" /\ filter = Unset
  /\ offset = 0 /\ filtered = {} /\ answer = {}
  /\ steady = {} /\ shifted = 0 /\ deepest = MaxSignals + 1

Ids(entries) == {x.id : x \in entries}

-----------------------------------------------------------------------------
(* The signal pipeline (SignalDelivery), as far as the feed can tell.         *)

(* insert_signal_if_new. *)
InsertSignal ==
  /\ Len(signals) < MaxSignals /\ feed # "answered"
  /\ \E mode \in Modes : signals' = Append(signals, [mode |-> mode, delivery |-> "pending"])
  /\ shifted' = IF feed = "scanning" THEN shifted + 1 ELSE shifted
  /\ UNCHANGED <<feed, filter, offset, filtered, answer, steady, deepest>>

(* update_signal_delivery: the pipeline stores the outcome of a signal before *)
(* it inserts another one, or has failed and leaves it pending.               *)
UpdateSignalDelivery ==
  LET newest == Len(signals) IN
  /\ feed # "answered" /\ signals # <<>> /\ signals[newest].delivery = "pending"
  /\ \E delivery \in Deliveries \ {"pending"} :
       /\ delivery = "suppressed" => signals[newest].mode = "scanner"
       /\ signals' = [signals EXCEPT ![newest].delivery = delivery]
  /\ steady' = steady \ {newest}
  /\ UNCHANGED <<feed, filter, offset, filtered, answer, shifted, deepest>>

-----------------------------------------------------------------------------
(* _is_audit_signal: the reasons that begin with scanner_ are those of        *)
(* suppressed signals.                                                        *)
IsAudit(row) == row.mode = "scanner" /\ row.delivery = "suppressed"

(* The four filters of the loop body. *)
Admits(f, row) ==
  /\ f.include_suppressed \/ row.delivery # "suppressed"
  /\ f.delivery \in {Unset, row.delivery}
  /\ f.mode \in {Unset, row.mode}
  /\ f.audit_only => IsAudit(row)

BatchSize(f) == Max({BatchFactor * f.limit, f.limit, MinBatch})

(* _signal_delivery_priority. *)
Priority(delivery) ==
  CASE delivery = "notified"       -> 0
    [] delivery = "no_subscribers" -> 1
    [] delivery = "pending"        -> 2
    [] delivery = "suppressed"     -> 3

\* Mutant: rows of one priority come oldest first.
OldestFirst(x, y) ==
  \/ Priority(x.delivery) < Priority(y.delivery)
  \/ Priority(x.delivery) = Priority(y.delivery) /\ x.place > y.place

(* The order of sorted, which is stable. *)
Precedes(x, y) ==
  \/ Priority(x.delivery) < Priority(y.delivery)
  \/ Priority(x.delivery) = Priority(y.delivery) /\ x.place < y.place

\* Mutant: what was found is not cut to the limit.
AllRanked(f, found) == found

(* ranked[:limit]: the entries that fewer than limit others precede. *)
Ranked(f, found) ==
  {x \in found : Cardinality({y \in found : Precedes(y, x)}) < f.limit}

(* A request begins; one that asks for nothing reads nothing. *)
BeginFeed ==
  /\ feed = "new"
  /\ \E f \in Filters :
       /\ filter' = f
       /\ feed' = IF f.limit = 0 THEN "answered" ELSE "scanning"
  /\ steady' = DOMAIN signals
  /\ UNCHANGED <<signals, offset, filtered, answer, shifted, deepest>>

(* The query of a page: the places that it returns, newest first, and the *)
(* signal that is at a place.                                              *)
Page == {p \in 1..Len(signals) : offset < p /\ p <= offset + BatchSize(filter)}
IdAt(place) == Len(signals) + 1 - place

Kept ==
  {[place |-> p, id |-> IdAt(p), delivery |-> signals[IdAt(p)].delivery] :
     p \in {p \in Page : Admits(filter, signals[IdAt(p)])}}

\* Mutant: the first page is the last one.
OnePage(found) == TRUE

(* The loop ends when enough is found or the page was not a full one. *)
LastPage(found) ==
  Cardinality(found) >= filter.limit \/ Cardinality(Page) < BatchSize(filter)

NextOffset == offset + BatchSize(filter)

(* A turn of the loop: one page, filtered. *)
ReadPage ==
  /\ feed = "scanning"
  /\ LET found == filtered \cup Kept IN
     /\ filtered' = found
     /\ deepest' = Min({deepest} \cup {IdAt(p) : p \in Page})
     /\ IF LastPage(found)
        THEN feed' = "answered" /\ answer' = Ranked(filter, found) /\ UNCHANGED offset
        ELSE offset' = NextOffset /\ UNCHANGED <<feed, answer>>
  /\ UNCHANGED <<signals, filter, steady, shifted>>

NextFeed == InsertSignal \/ UpdateSignalDelivery \/ BeginFeed \/ ReadPage

-----------------------------------------------------------------------------
(* A signal that the filters admit and that nobody touches while the feed is   *)
(* read is in the answer, whatever is inserted meanwhile, unless the answer is *)
(* full of signals that are at least as urgent or it is older than all that    *)
(* was read (client_api.py:113, docs/TROUBLESHOOTING_KO.md, section 2).        *)
NothingMissed ==
  feed = "answered" =>
    \A i \in steady :
      Admits(filter, signals[i]) /\ i \notin Ids(answer) =>
        /\ Cardinality(answer) = filter.limit
        /\ \/ i < deepest
           \/ \A x \in answer : Priority(x.delivery) <= Priority(signals[i].delivery)

(* A signal is repeated in an answer only because others were inserted while  *)
(* it was read, once for each of them at most; undisturbed, signals of one     *)
(* urgency come newest first (client_api.py:113).                              *)
RepeatsOnlyShifted ==
  /\ Cardinality(answer) - Cardinality(Ids(answer)) <= shifted
  /\ shifted = 0 =>
       \A x, y \in answer :
         Precedes(x, y) => Priority(x.delivery) < Priority(y.delivery) \/ x.id > y.id
=============================================================================
