------------------------------ MODULE Transfers ------------------------------
(***************************************************************************)
(* account-service: POST /accounts/transfer as the statements of one       *)
(* PostgreSQL transaction, and POST /accounts.  Each statement is awaited, *)
(* so the transactions of concurrent requests interleave between them; row *)
(* locks, the deadlock detector and roll-back are PostgreSQL's.            *)
(***************************************************************************)
EXTENDS Integers, FiniteSets

CONSTANTS
  Accounts, Txns, Order, Opening, Grants, NoRow,  \* see Bank
  Free,       \* "holder" of a row nobody has locked
  PoolSize,   \* connections of the pool
  MayFail     \* may a connection break or the process die?

ASSUME TransfersAssumption ==
  /\ NoRow \notin Int
  /\ Opening \in [Accounts -> Nat \cup {NoRow}]
  /\ Grants \subseteq Nat
  /\ Order \in [Txns -> [from : Accounts, to : Accounts, amount : Nat \ {0},
                         sameCurrency : BOOLEAN]]
  /\ Free \notin Txns
  /\ PoolSize \in Nat \ {0}
  /\ MayFail \in BOOLEAN

VARIABLES
  balance,    \* committed rows: balance[a], NoRow if there is none
  lock,       \* lock[a]: the transaction that holds the row of a
  pc,         \* pc[t]: the statement transfer t has finished last
  source,     \* source[t]: balance read from the row of from_account
  target      \* target[t]: balance read from the row of to_account

vars == <<balance, lock, pc, source, target>>

Open    == {"begun", "sourced", "targeted", "debited", "credited"}
Closed  == {"applied", "refused", "failed"}
Balances == Int \cup {NoRow}

TypeOK ==
  /\ balance \in [Accounts -> Balances]
  /\ lock \in [Accounts -> Txns \cup {Free}]
  /\ pc \in [Txns -> {"new"} \cup Open \cup Closed]
  /\ source \in [Txns -> Balances]
  /\ target \in [Txns -> Balances]

Init ==
  /\ balance = Opening
  /\ lock = [a \in Accounts |-> Free]
  /\ pc = [t \in Txns |-> "new"]
  /\ source = [t \in Txns |-> NoRow]
  /\ target = [t \in Txns |-> NoRow]

-----------------------------------------------------------------------------
From(t)   == Order[t].from
To(t)     == Order[t].to
Amount(t) == Order[t].amount

Goto(t, place) == pc' = [pc EXCEPT ![t] = place]

(* COMMIT and ROLLBACK release the locks of the transaction.               *)
Release(t) == lock' = [a \in Accounts |-> IF lock[a] = t THEN Free ELSE lock[a]]

(* SELECT ... FOR UPDATE: waits for the row's lock; a missing row is       *)
(* neither waited for nor locked.                                          *)
\* Mutation: SELECT without FOR UPDATE.
Select_m(t, a) == UNCHANGED lock

Select(t, a) ==
  IF balance[a] = NoRow
  THEN UNCHANGED lock
  ELSE /\ lock[a] \in {Free, t}
       /\ lock' = [lock EXCEPT ![a] = t]

Begin(t) ==
  /\ pc[t] = "new"
  /\ Cardinality({u \in Txns : pc[u] \in Open}) < PoolSize
  /\ Goto(t, "begun")
  /\ UNCHANGED <<balance, lock, source, target>>

SelectSource(t) ==
  /\ pc[t] = "begun"
  /\ Select(t, From(t))
  /\ source' = [source EXCEPT ![t] = balance[From(t)]]
  /\ Goto(t, "sourced")
  /\ UNCHANGED <<balance, target>>

SelectTarget(t) ==
  /\ pc[t] = "sourced"
  /\ Select(t, To(t))
  /\ target' = [target EXCEPT ![t] = balance[To(t)]]
  /\ Goto(t, "targeted")
  /\ UNCHANGED <<balance, source>>

(* 404 for a missing row, 400 for another currency, 409 for too little     *)
(* money; the raised HTTPException rolls the transaction back.             *)
\* Mutation: nobody looks whether the source account can pay.
Acceptable_m(t) ==
  /\ source[t] # NoRow /\ target[t] # NoRow
  /\ Order[t].sameCurrency

Acceptable(t) ==
  /\ source[t] # NoRow /\ target[t] # NoRow
  /\ Order[t].sameCurrency
  /\ source[t] >= Amount(t)

\* Mutation: an early return keeps the transaction, and its locks, open.
Refuse_m(t) ==
  /\ pc[t] = "targeted"
  /\ ~Acceptable(t)
  /\ Goto(t, "refused")
  /\ UNCHANGED <<balance, lock, source, target>>

\* Mutation: an outcome of its own.
RefuseOtherwise_m(t) ==
  /\ pc[t] = "targeted"
  /\ ~Acceptable(t)
  /\ Goto(t, "rejected")
  /\ Release(t)
  /\ UNCHANGED <<balance, source, target>>

Refuse(t) ==
  /\ pc[t] = "targeted"
  /\ ~Acceptable(t)
  /\ Goto(t, "refused")
  /\ Release(t)
  /\ UNCHANGED <<balance, source, target>>

(* The two UPDATEs; nobody else sees their effect before COMMIT.           *)
\* Mutation: the statements commit one by one.
Debit_m(t) ==
  /\ pc[t] = "targeted"
  /\ Acceptable(t)
  /\ balance' = [balance EXCEPT ![From(t)] = source[t] - Amount(t)]
  /\ Goto(t, "debited")
  /\ UNCHANGED <<lock, source, target>>

Debit(t) ==
  /\ pc[t] = "targeted"
  /\ Acceptable(t)
  /\ Goto(t, "debited")
  /\ UNCHANGED <<balance, lock, source, target>>

Credit(t) ==
  /\ pc[t] = "debited"
  /\ Goto(t, "credited")
  /\ UNCHANGED <<balance, lock, source, target>>

(* Both new balances come from the values read at first, and the update of *)
(* to_account is the later one.                                            *)
Commit(t) ==
  /\ pc[t] = "credited"
  /\ balance' = [balance EXCEPT ![From(t)] = source[t] - Amount(t),
                                ![To(t)] = target[t] + Amount(t)]
  /\ Release(t)
  /\ Goto(t, "applied")
  /\ UNCHANGED <<source, target>>

(* The connection breaks or the process dies: PostgreSQL rolls back.       *)
Break(t) ==
  /\ MayFail
  /\ pc[t] \in Open
  /\ Release(t)
  /\ Goto(t, "failed")
  /\ UNCHANGED <<balance, source, target>>

(* PostgreSQL aborts a transaction in a cycle of transactions that wait    *)
(* for each other's locks; the request is answered with 500.               *)
WaitsFor(t, u) ==
  \/ pc[t] = "begun" /\ lock[From(t)] = u
  \/ pc[t] = "sourced" /\ lock[To(t)] = u

InCycle(t) ==
  \E cycle \in SUBSET Txns :
    /\ t \in cycle
    /\ \A u \in cycle :
         /\ \E v \in cycle \ {u} : WaitsFor(u, v)
         /\ \E v \in cycle \ {u} : WaitsFor(v, u)

AbortDeadlocked(t) ==
  /\ InCycle(t)
  /\ Release(t)
  /\ Goto(t, "failed")
  /\ UNCHANGED <<balance, source, target>>

(* POST /accounts: one INSERT; a duplicate is answered with 409.           *)
CreateAccount(a, amount) ==
  /\ balance[a] = NoRow
  /\ balance' = [balance EXCEPT ![a] = amount]
  /\ UNCHANGED <<lock, pc, source, target>>

Next ==
  \/ \E t \in Txns :
       \/ Begin(t) \/ SelectSource(t) \/ SelectTarget(t) \/ Refuse(t)
       \/ Debit(t) \/ Credit(t) \/ Commit(t) \/ Break(t) \/ AbortDeadlocked(t)
  \/ \E a \in Accounts, amount \in Grants : CreateAccount(a, amount)

Spec == Init /\ [][Next]_vars

(* PostgreSQL answers every statement that is not waiting for a lock, and  *)
(* its deadlock detector runs after deadlock_timeout.                      *)
Fairness ==
  \A t \in Txns :
    /\ WF_vars(Begin(t) \/ SelectSource(t) \/ SelectTarget(t) \/ Refuse(t)
               \/ Debit(t) \/ Credit(t) \/ Commit(t))
    /\ WF_vars(AbortDeadlocked(t))

FairSpec == Spec /\ Fairness

-----------------------------------------------------------------------------
(* No interleaving of transfers out of one account spends the same money   *)
(* twice: "insufficient balance" is decided on a value that still stands   *)
(* when the debit is committed.                                            *)
NoOverdraft == \A a \in Accounts : balance[a] # NoRow => balance[a] >= 0

(* "Debit/credit via account-service (atomic DB transfer)": seen through   *)
(* the committed rows, transfers are the atomic steps of Bank.             *)
Applied == {t \in Txns : pc[t] = "applied"}
TheBank == INSTANCE Bank WITH applied <- Applied
BankSpec == TheBank!Spec

(* Transfers that lock the same rows in opposite orders do not block each  *)
(* other for ever: every transfer that was begun is answered.              *)
TransfersEnd == \A t \in Txns : pc[t] \in Open ~> pc[t] \in Closed
=============================================================================
