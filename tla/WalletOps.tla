------------------------------ MODULE WalletOps ------------------------------
(***************************************************************************)
(* The arithmetic of wallet.Service (internal/wallet/service.go) on one    *)
(* account record, and of risk.ValidateOrder, which reads the same         *)
(* balance.  `pair' is [base, quote], the two assets of a symbol.  Amounts *)
(* are integers: the code's float64 has no lower bound either, so a        *)
(* negative balance is a state of the model and not a type error.          *)
(***************************************************************************)
EXTENDS Integers

(* The asset an order locks, and how much of it `n' units of it need.      *)
LockedAsset(pair, order) == IF order.side = "buy" THEN pair.quote ELSE pair.base

Needs(order, n) == IF order.side = "buy" THEN order.price * n ELSE n

(* Mutant of CanReserve: what is locked already counts as well. *)
CanReserveAll(account, pair, order) ==
  LET balance == account.balances[LockedAsset(pair, order)]
  IN  balance.available + balance.locked >= Needs(order, order.quantity)

(* The same test in ValidateOrder, Reserve and, on Locked, in Settle. *)
CanReserve(account, pair, order) ==
  account.balances[LockedAsset(pair, order)].available >= Needs(order, order.quantity)

(* Move an amount from available to locked. *)
Locking(account, asset, amount) ==
  [account EXCEPT !.balances[asset].available = @ - amount,
                  !.balances[asset].locked = @ + amount]

(* Mutant of Reserved: a buy locks its quantity, not its cost. *)
ReservedByQuantity(account, pair, order) ==
  Locking(account, LockedAsset(pair, order), order.quantity)

(* Reserve *)
Reserved(account, pair, order) ==
  Locking(account, LockedAsset(pair, order), Needs(order, order.quantity))

Crediting(account, asset, amount) ==
  [account EXCEPT !.balances[asset].available = @ + amount]

(* Settle refuses to drive Locked below zero ... *)
CanSettle(account, pair, order, n) ==
  account.balances[LockedAsset(pair, order)].locked >= Needs(order, n)

(* Mutant of Settled: the buyer is not refunded the price improvement. *)
SettledWithoutRefund(account, pair, order, price, n) ==
  IF order.side = "buy"
    THEN [account EXCEPT !.balances[pair.quote].locked = @ - order.price * n,
                         !.balances[pair.base].available = @ + n]
    ELSE [account EXCEPT !.balances[pair.base].locked = @ - n,
                         !.balances[pair.quote].available = @ + price * n]

(* ... and otherwise pays: the buyer's lock was taken at the order's own   *)
(* price and the trade is at the maker's, the difference is refunded.      *)
Settled(account, pair, order, price, n) ==
  IF order.side = "buy"
    THEN [account EXCEPT
            !.balances[pair.quote].locked = @ - order.price * n,
            !.balances[pair.quote].available = @ + (order.price * n - price * n),
            !.balances[pair.base].available = @ + n]
    ELSE [account EXCEPT
            !.balances[pair.base].locked = @ - n,
            !.balances[pair.quote].available = @ + price * n]

(* ReleaseRemaining compares this with what is reserved, takes `taken' from *)
(* it and gives `given' back: two loads of the same field.                 *)
LockedBalance(account, pair, order) == account.balances[LockedAsset(pair, order)].locked

Released(account, asset, taken, given) ==
  [account EXCEPT !.balances[asset].locked = @ - taken,
                  !.balances[asset].available = @ + given]

(* Mutant of Adjusted: it is not called. *)
NotAdjusted(reserved, consumed) == reserved

(* AdjustRemainingReservation, before the result is compared with zero. *)
Adjusted(reserved, consumed) == reserved - consumed

=============================================================================
