----------------------------- MODULE MCPayments -----------------------------
(***************************************************************************)
(* Small instances of Payments: amounts are counted in units of a hundred  *)
(* million, and every limit is a few units.                                *)
(***************************************************************************)
EXTENDS Payments, TLC

CONSTANTS a, b, c, p1, p2, p3

Plain == [riskyChannel |-> FALSE, unusualCountry |-> FALSE, device |-> "unknown"]
Risky == [riskyChannel |-> TRUE, unusualCountry |-> TRUE, device |-> "suspicious"]

Pay(from, to, amount, context) ==
  [from |-> from, to |-> to, amount |-> amount, sameCurrency |-> TRUE,
   context |-> context]

Rows == (a :> 10) @@ (b :> 0) @@ (c :> NoRow)

\* Two payments of the critical amount out of one account, the second to an
\* account that may be opened meanwhile.
CriticalOrder == (p1 :> Pay(a, b, 5, Plain)) @@ (p2 :> Pay(a, c, 5, Plain))

\* As before, and one above what payment-service accepts.
ThreeOrder == CriticalOrder @@ (p3 :> Pay(a, b, 6, Risky))

\* One payment of each kind: liveness is a matter of one payment.
LiveOrder == (p1 :> Pay(a, b, 5, Plain)) @@ (p3 :> Pay(a, b, 6, Risky))

\* Two small payments without strong authentication.
WeakOrder == (p1 :> Pay(a, b, 4, Plain)) @@ (p2 :> Pay(a, b, 4, Plain))
=============================================================================
