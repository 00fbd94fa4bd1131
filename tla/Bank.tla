-------------------------------- MODULE Bank --------------------------------
(***************************************************************************)
(* What account-service promises core-banking: a transfer moves an amount  *)
(* from one account to another in one step or not at all, at most once,    *)
(* and only if the source account can pay for it.                          *)
(***************************************************************************)
EXTENDS Integers

CONSTANTS
  Accounts,  \* account identifiers
  Txns,      \* transfer requests
  Order,     \* Order[t]: accounts, amount and currency of transfer t
  Opening,   \* balances at the start, NoRow for accounts not yet created
  Grants,    \* opening balances a new account may be created with
  NoRow      \* "balance" of an account that has no row

VARIABLES
  balance,   \* balance[a], NoRow if a has no row
  applied    \* transfers that took place

vars == <<balance, applied>>

Init == balance = Opening /\ applied = {}

Payable(t) ==
  /\ Order[t].sameCurrency
  /\ balance[Order[t].from] # NoRow
  /\ balance[Order[t].to] # NoRow
  /\ balance[Order[t].from] >= Order[t].amount

Apply(t) ==
  /\ t \notin applied
  /\ Payable(t)
  /\ applied' = applied \cup {t}
  /\ balance' = [balance EXCEPT ![Order[t].from] = @ - Order[t].amount,
                                ![Order[t].to] = @ + Order[t].amount]

Create(a, amount) ==
  /\ balance[a] = NoRow
  /\ balance' = [balance EXCEPT ![a] = amount]
  /\ UNCHANGED applied

Next ==
  \/ \E t \in Txns : Apply(t)
  \/ \E a \in Accounts, amount \in Grants : Create(a, amount)

Spec == Init /\ [][Next]_vars
=============================================================================
