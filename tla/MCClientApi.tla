---------------------------- MODULE MCClientApi ----------------------------
(* An instance of ClientApi for TLC. *)
EXTENDS ClientApi

Asks(n) ==
  [limit |-> n, delivery |-> Unset, mode |-> Unset, include_suppressed |-> TRUE, audit_only |-> FALSE]

MCFilters ==
  {Asks(0), [Asks(1) EXCEPT !.delivery = "notified"], [Asks(1) EXCEPT !.mode = "scanner"],
   Asks(2), [Asks(2) EXCEPT !.include_suppressed = FALSE], [Asks(2) EXCEPT !.audit_only = TRUE]}

(* No candles, a page of them, and all of them. *)
MCCandleLimits == {0, 20, -1}

MCSourceOf == [i \in Intervals |->
  CASE i \in {"upbit-1m", "upbit-5m"} -> "upbit" [] i = "demo-10s" -> "demo" [] OTHER -> "scanner"]
=============================================================================
