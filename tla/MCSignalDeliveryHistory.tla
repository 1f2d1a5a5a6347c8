-------------------------- MODULE MCSignalDeliveryHistory --------------------------
(* Instances of SignalDeliveryHistory for TLC: btc belongs to the market engine, *)
(* aapl to the scanner.                                                   *)
EXTENDS SignalDeliveryHistory, TLC

CONSTANTS btc, aapl, engine, scanner

MCTaskOf == [s \in Symbols |-> IF s = aapl THEN scanner ELSE engine]

Interchangeable == Permutations(Users) \cup Permutations(SignalIds)
=============================================================================
