----------------------------- MODULE MCExchange -----------------------------
(* Small instances of the exchange for TLC: alice holds dollars and a few    *)
(* coins, bob coins, carol has no account yet; one or two markets.           *)
EXTENDS ExchangeProperties, ExchangeBooks

CONSTANTS bid, alice, bob, carol, btc, eth, usd, BTC, ETH

(* Two books that share the quote asset. *)
MarketOf == [s \in Symbols |-> [base |-> IF s = BTC THEN btc ELSE eth, quote |-> usd]]

Holding(a, version, coins, dollars) ==
  [id |-> a, version |-> version,
   balances |-> [asset \in Assets |->
     [available |-> IF asset = usd THEN dollars ELSE coins, locked |-> 0]]]

Opening == [a \in Accounts |->
  IF a = alice THEN Holding(a, 1, 1, 6)
  ELSE IF a = bob THEN Holding(a, 3, 2, 0) ELSE Holding(a, 0, 0, 0)]

(* Nothing was open, or alice's bid was. *)
NoOrders == << >>

Bid == [account |-> alice, symbol |-> BTC, side |-> "buy", price |-> 2, quantity |-> 2,
        remaining |-> 2, reserved |-> 4, sequence |-> 5, status |-> "open"]
OpenBid == [o \in {bid} |-> Bid]

OpeningWithBid == [Opening EXCEPT ![alice].balances[usd] = [available |-> 2, locked |-> 4]]

OrderOf(a, s, side, price, n) ==
  [kind |-> "order", account |-> a, symbol |-> s, side |-> side,
   price |-> price, quantity |-> n]

DepositOf(a, asset, amount) ==
  [kind |-> "deposit", account |-> a, asset |-> asset, amount |-> amount]

(* Requests differ only in what they ask for. *)
Symmetry == Permutations(Requests)

(* One after the other: partial fills, price improvement, a self trade,    *)
(* sweeps over two makers, a second book, a new account, refusals.         *)
SerialInputs ==
  { OrderOf(alice, BTC, "buy", 2, 2), OrderOf(alice, BTC, "sell", 1, 1),
    OrderOf(bob, BTC, "sell", 1, 1), OrderOf(bob, BTC, "sell", 2, 2),
    OrderOf(bob, ETH, "sell", 1, 2), OrderOf(alice, ETH, "buy", 1, 1),
    OrderOf(bob, BTC, "sell", 0, 1), OrderOf(alice, BTC, "hold", 1, 1),
    OrderOf(alice, "DOGE", "buy", 1, 1), OrderOf(carol, BTC, "buy", 1, 0),
    DepositOf(carol, usd, 2), DepositOf(bob, usd, 0), OrderOf(carol, BTC, "buy", 2, 1) }

FaultInputs ==
  { OrderOf(alice, BTC, "buy", 2, 2), OrderOf(bob, BTC, "sell", 1, 1),
    OrderOf(bob, BTC, "sell", 2, 2), DepositOf(bob, usd, 1) }

(* Two at a time: an order that is matched while it is still being served, *)
(* a restored order with two takers, and a deposit between the steps of    *)
(* another request.                                                        *)
RaceInputs ==
  { OrderOf(alice, BTC, "buy", 4, 1), OrderOf(bob, BTC, "sell", 1, 1),
    DepositOf(alice, usd, 1) }

OpeningForRace ==
  [Opening EXCEPT ![alice].balances[usd] = [available |-> 6, locked |-> 4]]

(* The restored order is bob's: his two sells fill it at the same time, so *)
(* that one account is maker and taker of both, and alice's buy comes      *)
(* between, or a deposit.                                                  *)
BobsBid == [o \in {bid} |-> [Bid EXCEPT !.account = bob]]

SharedInputs == RaceInputs \cup { DepositOf(bob, usd, 1) }

OpeningForSharing ==
  [Opening EXCEPT ![bob].balances[usd] = [available |-> 0, locked |-> 4]]

(* Without a store nobody has anything before the first deposits. *)
Nobody == [a \in Accounts |-> Holding(a, 0, 0, 0)]

NoopInputs ==
  { DepositOf(alice, usd, 4), DepositOf(bob, btc, 2), OrderOf(alice, BTC, "buy", 2, 2),
    OrderOf(bob, BTC, "sell", 1, 1), OrderOf(bob, BTC, "sell", 2, 1) }

OneDeposit == { DepositOf(alice, usd, 1) }

(* A buyer and a seller. *)
LiveInputs == { OrderOf(alice, BTC, "buy", 4, 1), OrderOf(bob, BTC, "sell", 1, 1) }

=============================================================================
