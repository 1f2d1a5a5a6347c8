----------------------------- MODULE ClientApi -----------------------------
(***************************************************************************)
(* The reads of app/client_api.py: the signal feed, the candles of an      *)
(* asset, and what the rules conclude from candles.  None of them writes   *)
(* what another reads, so one is followed at a time, next to everything    *)
(* that writes to its tables.                                              *)
(***************************************************************************)
EXTENDS SignalFeed, AssetDetail, StrategyEngine

VARIABLE reading

vars == <<reading, feedVars, detailVars, rulesVars>>

TypeOK ==
  reading \in {"feed", "detail", "rules"} /\ TypeOKFeed /\ TypeOKDetail /\ TypeOKRules

Init ==
  /\ reading \in {"feed", "detail", "rules"}
  /\ InitFeed /\ InitDetail /\ InitRules
  /\ reading # "detail" => realtime /\ active = NoInterval

Next ==
  /\ UNCHANGED reading
  /\ \/ reading = "feed" /\ NextFeed /\ UNCHANGED <<detailVars, rulesVars>>
     \/ reading = "detail" /\ NextDetail /\ UNCHANGED <<feedVars, rulesVars>>
     \/ reading = "rules" /\ NextRules /\ UNCHANGED <<feedVars, detailVars>>

Spec == Init /\ [][Next]_vars
=============================================================================
