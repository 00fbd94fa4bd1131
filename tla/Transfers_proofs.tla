-------------------------- MODULE Transfers_proofs --------------------------
(***************************************************************************)
(* Proofs about Transfers, for any accounts, transfers, pool and opening   *)
(* balances: the types, that no account is overdrawn, and that transfers   *)
(* between two different accounts are the atomic steps of Bank.            *)
(***************************************************************************)
EXTENDS Transfers, TLAPS

LEMMA Fields ==
  ASSUME NEW t \in Txns
  PROVE  /\ From(t) \in Accounts /\ To(t) \in Accounts
         /\ Amount(t) \in Nat \ {0}
  BY TransfersAssumption DEF From, To, Amount

-----------------------------------------------------------------------------
(* Between its SELECTs and its COMMIT a transfer holds the rows it has     *)
(* read, and they still hold what it has read.                             *)
AfterSource == {"sourced", "targeted", "debited", "credited"}
AfterTarget == {"targeted", "debited", "credited"}
AfterCheck  == {"debited", "credited"}

SourceStands(t) ==
  pc[t] \in AfterSource /\ source[t] # NoRow =>
    lock[From(t)] = t /\ balance[From(t)] = source[t]

TargetStands(t) ==
  pc[t] \in AfterTarget /\ target[t] # NoRow =>
    lock[To(t)] = t /\ balance[To(t)] = target[t]

CheckStands(t) == pc[t] \in AfterCheck => Acceptable(t)

TxnInv(t) == SourceStands(t) /\ TargetStands(t) /\ CheckStands(t)

IInv == TypeOK /\ NoOverdraft /\ \A t \in Txns : TxnInv(t)

(* A step that leaves a transfer alone, the locks it holds and the rows it *)
(* has locked, keeps its invariant.                                        *)
Kept(u) ==
  /\ pc'[u] = pc[u] /\ source'[u] = source[u] /\ target'[u] = target[u]
  /\ \A a \in Accounts : lock[a] = u => lock'[a] = u /\ balance'[a] = balance[a]

LEMMA Frame ==
  ASSUME NEW u \in Txns, TxnInv(u), Kept(u)
  PROVE  TxnInv(u)'
  BY Fields DEF TxnInv, SourceStands, TargetStands, CheckStands, Acceptable, Kept,
                From, To, Amount

LEMMA InitInv == Init => IInv
<1> SUFFICES ASSUME Init PROVE IInv
  OBVIOUS
<1>1. TypeOK
  BY TransfersAssumption DEF Init, TypeOK, Balances
<1>2. NoOverdraft
  BY TransfersAssumption DEF Init, NoOverdraft
<1>3. \A t \in Txns : TxnInv(t)
  BY DEF Init, TxnInv, SourceStands, TargetStands, CheckStands,
         AfterSource, AfterTarget, AfterCheck
<1> QED
  BY <1>1, <1>2, <1>3 DEF IInv

-----------------------------------------------------------------------------
LEMMA StepTyped == IInv /\ [Next]_vars => TypeOK'
<1> SUFFICES ASSUME IInv, [Next]_vars PROVE TypeOK'
  OBVIOUS
<1> USE DEF TypeOK, IInv
<1>1. ASSUME NEW t \in Txns, Begin(t) \/ Debit(t) \/ Credit(t) PROVE TypeOK'
  BY <1>1 DEF Begin, Debit, Credit, Goto, Open
<1>2. ASSUME NEW t \in Txns, SelectSource(t) PROVE TypeOK'
  BY <1>2, Fields DEF SelectSource, Select, Goto, Open
<1>3. ASSUME NEW t \in Txns, SelectTarget(t) PROVE TypeOK'
  BY <1>3, Fields DEF SelectTarget, Select, Goto, Open
<1>4. ASSUME NEW t \in Txns, Refuse(t) \/ Break(t) \/ AbortDeadlocked(t) PROVE TypeOK'
  BY <1>4 DEF Refuse, Break, AbortDeadlocked, Release, Goto, Closed
<1>5. ASSUME NEW t \in Txns, Commit(t) PROVE TypeOK'
  <2>1. lock' \in [Accounts -> Txns \cup {Free}] /\ pc' \in [Txns -> {"new"} \cup Open \cup Closed]
    BY <1>5 DEF Commit, Release, Goto, Closed
  <2>2. source[t] \in Int /\ target[t] \in Int
    BY <1>5 DEF Commit, TxnInv, CheckStands, AfterCheck, Acceptable, Balances
  <2>3. source[t] - Amount(t) \in Balances /\ target[t] + Amount(t) \in Balances
    BY <2>2, Fields DEF Balances
  <2> QED
    BY <1>5, <2>1, <2>3, Fields DEF Commit
<1>6. ASSUME NEW a \in Accounts, NEW amount \in Grants, CreateAccount(a, amount)
      PROVE  TypeOK'
  BY <1>6, TransfersAssumption DEF CreateAccount, Balances
<1>7. CASE UNCHANGED vars
  BY <1>7 DEF vars
<1> QED
  BY <1>1, <1>2, <1>3, <1>4, <1>5, <1>6, <1>7 DEF Next

-----------------------------------------------------------------------------
(* A statement of t, other than COMMIT, leaves the rows alone.             *)
Statement(t) ==
  \/ Begin(t) \/ SelectSource(t) \/ SelectTarget(t) \/ Refuse(t)
  \/ Debit(t) \/ Credit(t) \/ Break(t) \/ AbortDeadlocked(t)

LEMMA StatementKeepsRows ==
  ASSUME NEW t \in Txns, Statement(t)
  PROVE  balance' = balance
  BY DEF Statement, Begin, SelectSource, SelectTarget, Refuse, Debit, Credit,
         Break, AbortDeadlocked

(* A step of t takes no lock and no row from another transfer.             *)
LEMMA OthersKept ==
  ASSUME IInv, NEW t \in Txns, NEW u \in Txns \ {t}, Statement(t) \/ Commit(t)
  PROVE  Kept(u)
<1> USE DEF IInv, TypeOK
<1>1. pc'[u] = pc[u] /\ source'[u] = source[u] /\ target'[u] = target[u]
  BY DEF Statement, Begin, SelectSource, SelectTarget, Refuse, Debit, Credit, Commit,
         Break, AbortDeadlocked, Goto
<1>2. ASSUME NEW a \in Accounts, lock[a] = u PROVE lock'[a] = u
  <2>1. u # Free
    BY TransfersAssumption
  <2>2. CASE SelectSource(t)
    BY <1>2, <2>1, <2>2, Fields DEF SelectSource, Select
  <2>3. CASE SelectTarget(t)
    BY <1>2, <2>1, <2>3, Fields DEF SelectTarget, Select
  <2>4. CASE Begin(t) \/ Debit(t) \/ Credit(t)
    BY <1>2, <2>4 DEF Begin, Debit, Credit
  <2>5. CASE Refuse(t) \/ Break(t) \/ AbortDeadlocked(t) \/ Commit(t)
    <3>1. Release(t)
      BY <2>5 DEF Refuse, Break, AbortDeadlocked, Commit
    <3> QED
      BY <1>2, <3>1 DEF Release
  <2> QED
    BY <2>2, <2>3, <2>4, <2>5 DEF Statement
<1>3. ASSUME NEW a \in Accounts, lock[a] = u PROVE balance'[a] = balance[a]
  <2>1. CASE Statement(t)
    BY <2>1, StatementKeepsRows
  <2>2. CASE Commit(t)
    <3>1. a # From(t) /\ a # To(t)
      BY <1>3, <2>2
      DEF Commit, TxnInv, SourceStands, TargetStands, CheckStands, Acceptable,
          AfterSource, AfterTarget, AfterCheck
    <3> QED
      BY <2>2, <3>1, Fields DEF Commit
  <2> QED
    BY <2>1, <2>2
<1> QED
  BY <1>1, <1>2, <1>3 DEF Kept

(* A step of t keeps what the invariant says of t.                         *)
LEMMA OwnInv ==
  ASSUME IInv, NEW t \in Txns, Statement(t) \/ Commit(t)
  PROVE  TxnInv(t)'
<1> USE DEF IInv, TypeOK, TxnInv, SourceStands, TargetStands, CheckStands,
            AfterSource, AfterTarget, AfterCheck
<1>1. CASE Begin(t)
  BY <1>1 DEF Begin, Goto
<1>2. CASE SelectSource(t)
  BY <1>2, Fields DEF SelectSource, Select, Goto, From, To
<1>3. CASE SelectTarget(t)
  <2>1. pc'[t] = "targeted" /\ source'[t] = source[t] /\ target'[t] = balance[To(t)]
        /\ balance' = balance
    BY <1>3 DEF SelectTarget, Goto
  <2>2. \A a \in Accounts : lock[a] = t => lock'[a] = t
    BY <1>3, Fields DEF SelectTarget, Select
  <2>3. target'[t] # NoRow => lock'[To(t)] = t
    BY <1>3, <2>1, Fields DEF SelectTarget, Select
  <2>4. source'[t] # NoRow => lock'[From(t)] = t /\ balance'[From(t)] = source'[t]
    BY <1>3, <2>1, <2>2, Fields DEF SelectTarget
  <2> QED
    BY <2>1, <2>3, <2>4 DEF From, To
<1>4. CASE Debit(t)
  BY <1>4 DEF Debit, Goto, Acceptable, From, To, Amount
<1>5. CASE Credit(t)
  BY <1>5 DEF Credit, Goto, Acceptable, From, To, Amount
<1>6. CASE Refuse(t) \/ Break(t) \/ AbortDeadlocked(t) \/ Commit(t)
  <2>1. pc'[t] \in Closed
    BY <1>6 DEF Refuse, Break, AbortDeadlocked, Commit, Goto, Closed
  <2> QED
    BY <2>1 DEF Closed
<1> QED
  BY <1>1, <1>2, <1>3, <1>4, <1>5, <1>6 DEF Statement

LEMMA StepInv == IInv /\ [Next]_vars => IInv'
<1> SUFFICES ASSUME IInv, [Next]_vars PROVE IInv'
  OBVIOUS
<1>1. TypeOK'
  BY StepTyped
<1>2. ASSUME NEW t \in Txns, Statement(t) \/ Commit(t) PROVE NoOverdraft' /\ \A u \in Txns : TxnInv(u)'
  <2>1. \A u \in Txns : TxnInv(u)'
    BY <1>2, OwnInv, OthersKept, Frame DEF IInv
  <2>2. CASE Statement(t)
    BY <2>1, <2>2, StatementKeepsRows DEF IInv, NoOverdraft
  <2>3. CASE Commit(t)
    <3>1. /\ source[t] \in Int /\ target[t] \in Int /\ source[t] >= Amount(t)
          /\ target[t] = balance[To(t)] /\ target[t] # NoRow
      BY <2>3 DEF Commit, IInv, TypeOK, TxnInv, CheckStands, TargetStands, Acceptable,
                  AfterCheck, AfterTarget, Balances
    <3>2. source[t] - Amount(t) >= 0 /\ target[t] + Amount(t) >= 0
      BY <3>1, Fields DEF IInv, NoOverdraft
    <3>3. \A a \in Accounts : balance'[a] \in {balance[a], source[t] - Amount(t), target[t] + Amount(t)}
      BY <2>3, Fields DEF Commit, IInv, TypeOK
    <3> QED
      BY <2>1, <3>2, <3>3 DEF IInv, NoOverdraft
  <2> QED
    BY <1>2, <2>2, <2>3
<1>3. ASSUME NEW a \in Accounts, NEW amount \in Grants, CreateAccount(a, amount)
      PROVE  NoOverdraft' /\ \A u \in Txns : TxnInv(u)'
  <2>1. \A b \in Accounts : balance[b] # NoRow => balance'[b] = balance[b]
    BY <1>3 DEF CreateAccount, IInv, TypeOK
  <2>2. \A u \in Txns : TxnInv(u)'
    BY <1>3, <2>1, Fields
    DEF CreateAccount, IInv, TxnInv, SourceStands, TargetStands, CheckStands, Acceptable,
        From, To, Amount
  <2>3. amount >= 0
    BY TransfersAssumption
  <2> QED
    BY <1>3, <2>2, <2>3 DEF CreateAccount, IInv, TypeOK, NoOverdraft
<1>4. ASSUME UNCHANGED vars PROVE NoOverdraft' /\ \A u \in Txns : TxnInv(u)'
  <2>1. \A u \in Txns : Kept(u)
    BY <1>4 DEF vars, Kept
  <2> QED
    BY <1>4, <2>1, Frame DEF vars, IInv, NoOverdraft
<1>5. NoOverdraft' /\ \A u \in Txns : TxnInv(u)'
  BY <1>2, <1>3, <1>4 DEF Next, Statement
<1> QED
  BY <1>1, <1>5 DEF IInv

(* The types of the rows, locks and transactions.                          *)
THEOREM Typing == Spec => []TypeOK
<1>1. IInv => TypeOK
  BY DEF IInv
<1> QED
  BY <1>1, InitInv, StepInv, PTL DEF Spec

(* No interleaving of transfers, failures and new accounts overdraws an    *)
(* account.                                                                *)
THEOREM NobodyOverdraws == Spec => []NoOverdraft
<1>1. IInv => NoOverdraft
  BY DEF IInv
<1> QED
  BY <1>1, InitInv, StepInv, PTL DEF Spec

-----------------------------------------------------------------------------
(* Transfers between two different accounts are the atomic steps of Bank.  *)
DifferentAccounts == \A t \in Txns : From(t) # To(t)

LEMMA StepRefines ==
  DifferentAccounts /\ IInv /\ [Next]_vars => [TheBank!Next]_(TheBank!vars)
<1> SUFFICES ASSUME DifferentAccounts, IInv, [Next]_vars
             PROVE  [TheBank!Next]_(TheBank!vars)
  OBVIOUS
<1>1. ASSUME NEW t \in Txns, Statement(t) PROVE UNCHANGED TheBank!vars
  <2>1. balance' = balance
    BY <1>1, StatementKeepsRows
  <2>2. pc[t] # "applied" /\ pc'[t] # "applied" /\ \A u \in Txns \ {t} : pc'[u] = pc[u]
    BY <1>1
    DEF Statement, Begin, SelectSource, SelectTarget, Refuse, Debit, Credit, Break,
        AbortDeadlocked, InCycle, WaitsFor, Goto, IInv, TypeOK, Open
  <2> QED
    BY <2>1, <2>2 DEF TheBank!vars, Applied
<1>2. ASSUME NEW t \in Txns, Commit(t) PROVE TheBank!Next
  <2>1. /\ source[t] = balance[From(t)] /\ target[t] = balance[To(t)]
        /\ Acceptable(t)
    BY <1>2 DEF Commit, IInv, TxnInv, SourceStands, TargetStands, CheckStands, Acceptable,
                AfterSource, AfterTarget, AfterCheck
  <2>2. t \notin Applied /\ Applied' = Applied \cup {t}
    BY <1>2 DEF Commit, Goto, Applied, IInv, TypeOK
  <2>3. TheBank!Payable(t)
    BY <2>1 DEF TheBank!Payable, Acceptable, From, To, Amount
  <2>4. balance' = [balance EXCEPT ![Order[t].from] = @ - Order[t].amount,
                                   ![Order[t].to] = @ + Order[t].amount]
    BY <1>2, <2>1, Fields DEF Commit, DifferentAccounts, From, To, Amount, IInv, TypeOK
  <2> QED
    BY <2>2, <2>3, <2>4 DEF TheBank!Apply, TheBank!Next
<1>3. ASSUME NEW a \in Accounts, NEW amount \in Grants, CreateAccount(a, amount)
      PROVE  TheBank!Next
  BY <1>3 DEF CreateAccount, TheBank!Create, TheBank!Next, Applied
<1>4. CASE UNCHANGED vars
  BY <1>4 DEF vars, TheBank!vars, Applied
<1> QED
  BY <1>1, <1>2, <1>3, <1>4 DEF Next, Statement

(* Seen through the committed rows, account-service is the atomic bank its *)
(* callers rely on, unless a transfer names one account twice.             *)
THEOREM TransfersImplementBank ==
  ASSUME DifferentAccounts PROVE Spec => BankSpec
<1>1. Init => TheBank!Init
  BY DEF Init, TheBank!Init, Applied
<1>2. IInv /\ [Next]_vars => [TheBank!Next]_(TheBank!vars)
  BY StepRefines
<1> QED
  BY <1>1, <1>2, InitInv, StepInv, PTL DEF Spec, BankSpec, TheBank!Spec
=============================================================================
