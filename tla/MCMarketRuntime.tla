--------------------------- MODULE MCMarketRuntime ---------------------------
(* An instance of MarketRuntime for TLC: two markets and two instruments, so *)
(* that a bootstrap or a refresh can fail half way.                          *)
EXTENDS MarketRuntime

MCMarkets     == <<"KRW-BTC", "KRW-ETH">>
MCInstruments == <<"AAPL", "TSLA">>
=============================================================================
