----------------------------- MODULE MCTransfers -----------------------------
(***************************************************************************)
(* Small instances of Transfers: three accounts, the third without a row   *)
(* at first, and transfers that cross each other.                          *)
(***************************************************************************)
EXTENDS Transfers, TLC

CONSTANTS a1, a2, a3, t1, t2, t3

Move(from, to, amount) ==
  [from |-> from, to |-> to, amount |-> amount, sameCurrency |-> TRUE]

SmallOpening == (a1 :> 2) @@ (a2 :> 1) @@ (a3 :> NoRow)
OneGrant == {1}

\* Two transfers compete for the money of a1, the third closes a cycle.
CrossingOrder ==
  (t1 :> Move(a1, a2, 2)) @@ (t2 :> Move(a2, a1, 1)) @@ (t3 :> Move(a1, a3, 1))

\* A transfer from an account to itself.
SelfOrder == t1 :> Move(a1, a1, 1)
=============================================================================
