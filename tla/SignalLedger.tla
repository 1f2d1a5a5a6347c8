----------------------------- MODULE SignalLedger -----------------------------
(***************************************************************************)
(* What the signal pipeline promises to the readers of its tables: a signal *)
(* is raised at most once per deduplication window, and settled at most     *)
(* once, in one step, with an outcome that agrees with who was alerted.     *)
(***************************************************************************)
EXTENDS Naturals, FiniteSets

CONSTANTS Users, Symbols, Kinds, SignalIds, DedupSeconds, None

VARIABLES
  raised,    \* what a signal is about, or None
  settled    \* its outcome and who was alerted, or None

vars == <<raised, settled>>

Init ==
  /\ raised = [i \in SignalIds |-> None]
  /\ settled = [i \in SignalIds |-> None]

(* A signal with none of its kind within the window before it. *)
Raise(i) ==
  LET signal == raised'[i] IN
  /\ raised[i] = None
  /\ signal \in [symbol: Symbols, kind: Kinds, created_at: Nat]
  /\ \A j \in SignalIds :
       raised[j] # None /\ raised[j].symbol = signal.symbol /\ raised[j].kind = signal.kind
         => raised[j].created_at + DedupSeconds < signal.created_at
  /\ raised' = [raised EXCEPT ![i] = signal]
  /\ UNCHANGED settled

Settle(i, delivery, alerted) ==
  /\ raised[i] # None /\ settled[i] = None
  /\ (delivery = "notified") <=> (alerted # {})
  /\ settled' = [settled EXCEPT ![i] =
       [delivery |-> delivery, count |-> Cardinality(alerted), alerted |-> alerted]]
  /\ UNCHANGED raised

Next ==
  \E i \in SignalIds :
    \/ Raise(i)
    \/ \E delivery \in {"notified", "suppressed", "no_subscribers"}, alerted \in SUBSET Users :
         Settle(i, delivery, alerted)

Spec == Init /\ [][Next]_vars
=============================================================================
