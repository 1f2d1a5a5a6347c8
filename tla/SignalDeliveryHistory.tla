------------------------ MODULE SignalDeliveryHistory ------------------------
(***************************************************************************)
(* SignalDelivery watched by an observer that remembers, for every signal, *)
(* who was entitled to an alert while its delivery was running.  The       *)
(* observer changes nothing: every step is a step of SignalDelivery.       *)
(***************************************************************************)
EXTENDS SignalDelivery

VARIABLES
  always,   \* users watching with web alerts on during the whole delivery so far
  ever,     \* users watching with web alerts on at some moment of it
  muted     \* a watcher had web alerts off at some moment of it

hvars == <<vars, always, ever, muted>>

HInit ==
  /\ Init
  /\ always = [i \in SignalIds |-> Users]
  /\ ever = [i \in SignalIds |-> {}]
  /\ muted = [i \in SignalIds |-> FALSE]

(* Both the state a delivery step starts from and the one it leads to count. *)
HNext ==
  /\ Next
  /\ LET seen(i) == InFlight(i) \/ InFlight(i)' IN
     /\ always' = [i \in SignalIds |->
          IF ~seen(i) THEN always[i] ELSE always[i] \cap Eligible(signals[i].symbol)']
     /\ ever' = [i \in SignalIds |->
          IF ~seen(i) THEN ever[i] ELSE ever[i] \cup Eligible(signals[i].symbol)']
     /\ muted' = [i \in SignalIds |->
          \/ muted[i]
          \/ seen(i) /\ (Watchers(signals[i].symbol) \ web_enabled)' # {}]

HSpec == HInit /\ [][HNext]_hvars

(* A user who watched the symbol with web alerts on throughout a delivery that *)
(* was not suppressed has the notification, and nobody has one who was not     *)
(* entitled to it at some moment of the delivery, however watchlist and        *)
(* settings requests interleave with it.                                       *)
AlertsTheEntitled ==
  \A i \in Stored :
    /\ Recipients(i) \subseteq ever[i]
    /\ IsFinal(i) /\ signals[i].delivery # "suppressed" => always[i] \subseteq Recipients(i)

(* README.md:31: the reasons "explain why a user was not alerted".  A signal  *)
(* stored with the reason web_notifications_disabled had a watcher whose web  *)
(* alerts were off at some moment of the delivery.                            *)
ReasonExplains ==
  \A i \in Stored : signals[i].reason = "web_disabled" => muted[i]
=============================================================================
