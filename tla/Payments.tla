------------------------------ MODULE Payments ------------------------------
(***************************************************************************)
(* A payment on its way: POST /payments at api-gateway, payment-service    *)
(* (which asks fraud-detection), POST /transactions/execute at             *)
(* core-banking, POST /accounts/transfer at account-service, and on the    *)
(* way back the ledger of transaction-service, the notification and the    *)
(* gateway's daily total.                                                  *)
(*                                                                         *)
(* Each hop is an HTTP call with a time limit.  A caller whose time is up  *)
(* answers its own caller, and the callee, which knows nothing of that,    *)
(* still does its work, later or never.  A handler's code between two      *)
(* awaits is one action.  account-service is the abstract Bank.            *)
(***************************************************************************)
EXTENDS FraudScore, FiniteSets, FiniteSetsExt

CONSTANTS
  Accounts, Opening, Grants, NoRow,  \* see Bank
  Payments,   \* requests to the gateway
  Order,      \* Order[p]: from, to, amount, sameCurrency and context of p
  Strong,     \* payments whose token says acr = "high"
  Single,     \* STEP_UP_SINGLE_VND
  Daily,      \* STEP_UP_DAILY_VND
  MaxSingle,  \* MAX_SINGLE_TXN_VND
  OneDay      \* does no midnight (UTC) pass?

ASSUME PaymentsAssumption ==
  /\ NoRow \notin Int
  /\ Opening \in [Accounts -> Nat \cup {NoRow}]
  /\ Grants \subseteq Nat
  /\ Order \in [Payments -> [from : Accounts, to : Accounts, amount : Nat \ {0},
                             sameCurrency : BOOLEAN, context : Contexts]]
  /\ Strong \subseteq Payments
  /\ Single \in Nat /\ Daily \in Nat /\ MaxSingle \in Nat /\ OneDay \in BOOLEAN

VARIABLES
  balance,   \* rows of account-service
  applied,   \* transfers that account-service committed
  at,        \* at[h][p]: where service h stands with payment p
  score,     \* score[p]: the signed score of p, NoScore before it has one
  recent,    \* payments in the velocity windows of fraud-detection
  counter,   \* counter[a]: the gateway's total of account a for today
  ledger,    \* payments with a record in transaction-service
  notified   \* payments notification-service was told of

vars == <<balance, applied, at, score, recent, counter, ledger, notified>>
bank == <<balance, applied>>

TheBank == INSTANCE Bank WITH Txns <- Payments

Hops == {"gateway", "payment", "fraud", "core", "account", "ledger", "notification"}

\* The service a handler waits for.
Callee == [paying       |-> "payment",      scoring   |-> "fraud",
           executing    |-> "core",         notifying |-> "notification",
           transferring |-> "account",      recording |-> "ledger"]
Waiting == DOMAIN Callee

\* 2xx, 4xx and 5xx (a time-out answers 503).
Answers == {"completed", "refused", "failed"}

NoScore == -1

TypeOK ==
  /\ balance \in [Accounts -> Int \cup {NoRow}]
  /\ applied \subseteq Payments
  /\ at \in [Hops -> [Payments -> {"idle", "called"} \cup Waiting \cup Answers]]
  /\ score \in [Payments -> {NoScore} \cup 0..100]
  /\ recent \subseteq Payments
  /\ counter \in [Accounts -> Nat]
  /\ ledger \subseteq Payments
  /\ notified \subseteq Payments

Init ==
  /\ TheBank!Init
  /\ at = [h \in Hops |-> [p \in Payments |-> "idle"]]
  /\ score = [p \in Payments |-> NoScore]
  /\ recent = {}
  /\ counter = [a \in Accounts |-> 0]
  /\ ledger = {}
  /\ notified = {}

-----------------------------------------------------------------------------
From(p)   == Order[p].from
Amount(p) == Order[p].amount

Total(S) == MapThenSumSet(Amount, S)

AnswerWith(h, p, result) == at' = [at EXCEPT ![h][p] = result]

\* Service h, done with its own checks, waits for the next one.
Call(h, p, wait) == at' = [at EXCEPT ![h][p] = wait, ![Callee[wait]][p] = "called"]

Submit(p) ==
  /\ at["gateway"][p] = "idle"
  /\ AnswerWith("gateway", p, "called")
  /\ UNCHANGED <<bank, score, recent, counter, ledger, notified>>

(* Blocked address, rate limit, token, role, or step-up required; Redis or *)
(* the token verifier may be down.                                         *)
TurnAway(p) ==
  /\ at["gateway"][p] = "called"
  /\ \E result \in {"refused", "failed"} : AnswerWith("gateway", p, result)
  /\ UNCHANGED <<bank, score, recent, counter, ledger, notified>>

(* _daily_cumulative_after is read only for amounts within Single.         *)
WithinLimits(p) ==
  Amount(p) <= Single /\ counter[From(p)] + Amount(p) <= Daily

\* Mutation: the daily total grows before the payment is sent on.
Forward_m(p) ==
  /\ at["gateway"][p] = "called"
  /\ p \in Strong \/ WithinLimits(p)
  /\ Call("gateway", p, "paying")
  /\ counter' = [counter EXCEPT ![From(p)] = @ + Amount(p)]
  /\ UNCHANGED <<bank, score, recent, ledger, notified>>

Forward(p) ==
  /\ at["gateway"][p] = "called"
  /\ p \in Strong \/ WithinLimits(p)
  /\ Call("gateway", p, "paying")
  /\ UNCHANGED <<bank, score, recent, counter, ledger, notified>>

CheckAmount(p) ==
  /\ at["payment"][p] = "called"
  /\ \/ Amount(p) > MaxSingle /\ AnswerWith("payment", p, "refused")
     \/ Amount(p) <= MaxSingle /\ Call("payment", p, "scoring")
  /\ UNCHANGED <<bank, score, recent, counter, ledger, notified>>

(* _velocity_score adds the payment to the account's window and counts the *)
(* window in one Redis transaction.                                        *)
\* Mutation: the window is counted before the payment is added.
CountOf_m(p) == Cardinality({q \in recent : From(q) = From(p)})

CountOf(p) == Cardinality({q \in recent \cup {p} : From(q) = From(p)})

(* POST /score.  An error may come after the payment was counted.          *)
ScorePayment(p) ==
  /\ at["fraud"][p] = "called"
  /\ \/ /\ recent' = recent \cup {p}
        /\ score' = [score EXCEPT
             ![p] = Score(CountOf(p), Amount(p), Order[p].context)]
        /\ AnswerWith("fraud", p, "completed")
     \/ /\ recent' \in {recent, recent \cup {p}}
        /\ AnswerWith("fraud", p, "failed")
        /\ UNCHANGED score
  /\ UNCHANGED <<bank, counter, ledger, notified>>

(* The window slides on over a payment.                                    *)
Slide(p) ==
  /\ p \in recent
  /\ recent' = recent \ {p}
  /\ UNCHANGED <<bank, at, score, counter, ledger, notified>>

ObeyVerdict(p) ==
  /\ at["payment"][p] = "scoring"
  /\ at["fraud"][p] = "completed"
  /\ \/ ~GatePassed(score[p]) /\ AnswerWith("payment", p, "refused")
     \/ GatePassed(score[p]) /\ Call("payment", p, "executing")
  /\ UNCHANGED <<bank, score, recent, counter, ledger, notified>>

(* The signature may be turned down: certificate expired, clocks apart.    *)
Execute(p) ==
  /\ at["core"][p] = "called"
  /\ \/ AnswerWith("core", p, "refused")
     \/ CoreAccepts(score[p]) /\ Call("core", p, "transferring")
  /\ UNCHANGED <<bank, score, recent, counter, ledger, notified>>

(* account-service: see Transfers.  A 500 may come after the COMMIT, when  *)
(* the connection to the database broke before its answer.                 *)
Transfer(p) ==
  /\ at["account"][p] = "called"
  /\ \/ TheBank!Apply(p) /\ AnswerWith("account", p, "completed")
     \/ ~TheBank!Payable(p) /\ UNCHANGED bank /\ AnswerWith("account", p, "refused")
     \/ (TheBank!Apply(p) \/ UNCHANGED bank) /\ AnswerWith("account", p, "failed")
  /\ UNCHANGED <<score, recent, counter, ledger, notified>>

-----------------------------------------------------------------------------
(* The way back.  4xx and 5xx are relayed as they are, but an error of     *)
(* fraud-detection is a 503.                                               *)
\* Mutation: success is not checked before the ledger is written.
Relay_m(p, h) ==
  /\ at[h][p] \in {"paying", "scoring", "executing", "transferring"}
  /\ at[Callee[at[h][p]]][p] \in {"refused", "failed"}
  /\ IF at[h][p] = "transferring" THEN Call("core", p, "recording")
     ELSE AnswerWith(h, p, IF at[h][p] = "scoring" THEN "failed"
                           ELSE at[Callee[at[h][p]]][p])
  /\ UNCHANGED <<bank, score, recent, counter, ledger, notified>>

Relay(p, h) ==
  /\ at[h][p] \in {"paying", "scoring", "executing", "transferring"}
  /\ at[Callee[at[h][p]]][p] \in {"refused", "failed"}
  /\ AnswerWith(h, p, IF at[h][p] = "scoring" THEN "failed"
                      ELSE at[Callee[at[h][p]]][p])
  /\ UNCHANGED <<bank, score, recent, counter, ledger, notified>>

(* The money has moved: the ledger entry and the notification are          *)
(* attempted, and their outcome is ignored.                                *)
Follow(p, h) ==
  /\ \/ /\ at[h][p] = "transferring" /\ at["account"][p] = "completed"
        /\ Call(h, p, "recording")
     \/ /\ at[h][p] = "executing" /\ at["core"][p] = "completed"
        /\ Call(h, p, "notifying")
     \/ /\ at[h][p] \in {"recording", "notifying"}
        /\ at[Callee[at[h][p]]][p] \in Answers
        /\ AnswerWith(h, p, "completed")
  /\ UNCHANGED <<bank, score, recent, counter, ledger, notified>>

(* The caller reads nothing of the answer.                                 *)
Record(p) ==
  /\ at["ledger"][p] = "called"
  /\ ledger' \in {ledger, ledger \cup {p}}
  /\ AnswerWith("ledger", p, "completed")
  /\ UNCHANGED <<bank, score, recent, counter, notified>>

Notify(p) ==
  /\ at["notification"][p] = "called"
  /\ notified' \in {notified, notified \cup {p}}
  /\ AnswerWith("notification", p, "completed")
  /\ UNCHANGED <<bank, score, recent, counter, ledger>>

(* The gateway adds to the daily total, or logs that Redis failed, and     *)
(* answers its caller.                                                     *)
Count(p) ==
  /\ at["gateway"][p] = "paying"
  /\ at["payment"][p] = "completed"
  /\ counter' \in {counter, [counter EXCEPT ![From(p)] = @ + Amount(p)]}
  /\ AnswerWith("gateway", p, "completed")
  /\ UNCHANGED <<bank, score, recent, ledger, notified>>

(* The time limit of a call is up, the connection broke or was refused.    *)
\* Mutation: a payment given up is reported as denied.
GiveUp_m(p, h) ==
  /\ at[h][p] \in Waiting
  /\ AnswerWith(h, p, IF at[h][p] \in {"recording", "notifying"} THEN "completed"
                      ELSE "refused")
  /\ UNCHANGED <<bank, score, recent, counter, ledger, notified>>

\* Mutation: no time limit on the notification.
GiveUpButNotify_m(p, h) ==
  /\ at[h][p] \in Waiting \ {"notifying"}
  /\ AnswerWith(h, p, IF at[h][p] = "recording" THEN "completed" ELSE "failed")
  /\ UNCHANGED <<bank, score, recent, counter, ledger, notified>>

GiveUp(p, h) ==
  /\ at[h][p] \in Waiting
  /\ AnswerWith(h, p, IF at[h][p] \in {"recording", "notifying"} THEN "completed"
                      ELSE "failed")
  /\ UNCHANGED <<bank, score, recent, counter, ledger, notified>>

-----------------------------------------------------------------------------
(* POST /accounts, through the same services.                              *)
OpenAccount(a, amount) ==
  /\ TheBank!Create(a, amount)
  /\ UNCHANGED <<at, score, recent, counter, ledger, notified>>

(* The key of the daily total holds the date: a new day starts at 0.       *)
\* Mutation: a missing key is no number.
NewDay_m ==
  /\ ~OneDay
  /\ counter' = [a \in Accounts |-> NoRow]
  /\ UNCHANGED <<bank, at, score, recent, ledger, notified>>

NewDay ==
  /\ ~OneDay
  /\ counter' = [a \in Accounts |-> 0]
  /\ UNCHANGED <<bank, at, score, recent, ledger, notified>>

Return(p, h) == Relay(p, h) \/ Follow(p, h) \/ GiveUp(p, h)

PaymentStep(p) == CheckAmount(p) \/ ObeyVerdict(p) \/ Return(p, "payment")
CoreStep(p)    == Execute(p) \/ Return(p, "core")

Next ==
  \/ \E p \in Payments :
       \/ Submit(p) \/ TurnAway(p) \/ Forward(p) \/ Count(p)
       \/ PaymentStep(p) \/ CoreStep(p) \/ Return(p, "gateway")
       \/ ScorePayment(p) \/ Slide(p) \/ Transfer(p) \/ Record(p) \/ Notify(p)
  \/ \E a \in Accounts, amount \in Grants : OpenAccount(a, amount)
  \/ NewDay

Spec == Init /\ [][Next]_vars

(* payment-service and core-banking wait for nothing but HTTP calls with a *)
(* time limit.  (The gateway also waits for Redis, without one.)           *)
Fairness ==
  \A p \in Payments : WF_vars(PaymentStep(p)) /\ WF_vars(CoreStep(p))

FairSpec == Spec /\ Fairness

-----------------------------------------------------------------------------
(* Whatever times out on the way, no service lies to its caller about the  *)
(* money: "completed" means it has moved, and a 4xx means it has not and   *)
(* never will.  Only a 5xx leaves it open.                                 *)
AnswersAreTrue ==
  \A p \in Payments, h \in {"gateway", "payment", "core", "account"} :
    /\ at[h][p] = "completed" => p \in applied
    /\ at[h][p] = "refused" => p \notin applied

(* The ledger and the notifications tell of no payment that did not take   *)
(* place, though they are written by calls that outlive their callers.     *)
BooksAreReal == ledger \cup notified \subseteq applied

(* The daily total never holds more than what the account has paid.        *)
CounterIsCovered ==
  \A a \in Accounts : counter[a] <= Total({p \in applied : From(p) = a})

(* Of the payments in one velocity window, no more than SoftLimit of an    *)
(* account go through at or above the critical amount, however they        *)
(* overlap.                                                                *)
BurstIsCut ==
  \A a \in Accounts :
    Cardinality({p \in applied \cap recent : From(p) = a /\ Amount(p) >= Critical})
      <= SoftLimit

(* Every call that payment-service or core-banking takes is answered.      *)
CallsEnd ==
  \A p \in Payments, h \in {"payment", "core"} :
    at[h][p] = "called" ~> at[h][p] \in Answers

(* zta_policy.rego: "xác thực mạnh khi giao dịch >10 triệu/lần HOẶC luỹ kế *)
(* >20 triệu/ngày" (strong authentication for a transaction above 10       *)
(* million or a daily total above 20 million).                             *)
WeakDailyLimit ==
  OneDay => \A a \in Accounts :
    Total({p \in applied \ Strong : From(p) = a}) <= Daily
=============================================================================
