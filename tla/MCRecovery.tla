----------------------------- MODULE MCRecovery -----------------------------
(* Small instances of the exchange and its restarts.  Alice's bid takes     *)
(* most of her dollars, so that a restored lock can fall short.             *)
EXTENDS MCExchange, RecoveryProperties

WholeBid == [o \in {bid} |-> [Bid EXCEPT !.quantity = 3, !.remaining = 3, !.reserved = 6]]

OpeningWithWholeBid ==
  [Opening EXCEPT ![alice].balances[usd] = [available |-> 2, locked |-> 6]]

(* Bob sells into the bid; two orders at the same price can rest. *)
CrashInputs ==
  { OrderOf(bob, BTC, "sell", 1, 1), OrderOf(bob, BTC, "sell", 2, 2),
    OrderOf(bob, BTC, "sell", 3, 1), OrderOf(alice, BTC, "buy", 2, 1) }

(* No deposit: what the accounts hold together is constant. *)
SellInputs == { OrderOf(bob, BTC, "sell", 1, 1) }

(* A clean stop after any of these, and more of them after the restart. *)
RestartInputs ==
  { OrderOf(alice, BTC, "buy", 2, 1), OrderOf(alice, ETH, "buy", 1, 2),
    OrderOf(bob, BTC, "sell", 1, 2), OrderOf(bob, BTC, "sell", 2, 1),
    OrderOf(bob, ETH, "sell", 1, 1), DepositOf(alice, usd, 1) }

=============================================================================
