---- MODULE MCOrderBook ----
(* Small instances of OrderBook for TLC. *)
EXTENDS OrderBook

====
