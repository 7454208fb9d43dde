----------------------------- MODULE MCReaders -----------------------------
(* Small instances of the readers: a bid of one unit that a larger order   *)
(* takes before it rests itself.                                           *)
EXTENDS MCExchange, Readers

SmallBid == [o \in {bid} |-> [Bid EXCEPT !.quantity = 1, !.remaining = 1, !.reserved = 2]]

OpeningWithSmallBid ==
  [Opening EXCEPT ![alice].balances[usd] = [available |-> 4, locked |-> 2]]

(* A taker that rests, another that takes it, and a new account. *)
ReadInputs ==
  { OrderOf(bob, BTC, "sell", 2, 2), OrderOf(alice, BTC, "buy", 2, 1), DepositOf(carol, usd, 2) }

Views == {<<"book", BTC>>, <<"trades", BTC>>, <<"account", carol>>}

AlicesAccount == {<<"account", alice>>}

=============================================================================
