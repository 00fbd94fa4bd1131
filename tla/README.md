# TLA+ models of the ZTLab zero-trust detection and response system

The repository runs a small bank as microservices on two Kubernetes clusters
(AWS and OpenStack) and around it a detection and response loop: services log,
Grafana and `ai-analyzer` turn logs into alerts, `soar-engine` turns alerts into
cases, decides whether a playbook may run by itself or needs an administrator,
runs it against the cluster and can roll it back. This directory holds the TLA+
models of that system, the TLC instances that check them and the theorems that
TLAPS proves about them. Every definition is translated from the Python source;
`PROJECT.json` ("map") names the lines.

## 1. Inventory

| Component | State it keeps | Operations | Talks to |
|---|---|---|---|
| `services/soar-engine` | `CASES`, `_HITL_QUEUE`, `_webhook_recent` in memory; `cases.jsonl`; Deployment annotations; NetworkPolicies; ban keys in Redis | `/alerts`, `/webhook/grafana`, approve/deny/choose (e-mail links and portal), `/cases/{id}/rollback`, `/blocked-ips`, startup | Kubernetes API, Redis, Loki, SMTP, Keycloak |
| `services/account-service` | table `accounts` | create, read, transfer | PostgreSQL |
| `services/transaction-service` | table `transactions` (ledger) | append, list | PostgreSQL |
| `services/core-banking` | none | execute a transaction: check the fraud gate's signature, transfer, write the ledger | account-service, transaction-service |
| `services/payment-service` | none | process a payment: fraud score, core-banking, notification | fraud-detection, core-banking, notification-service |
| `services/api-gateway` | Redis: rate-limit windows, daily totals, ban keys (read); JWKS in memory | payments, accounts, daily total for OPA | payment-service, Keycloak, Redis |
| `services/fraud-detection` | Redis: velocity windows | score and sign a payment | Redis |
| `services/ai-analyzer` | `PENDING_ALERTS`, hashes of batches seen, provider back-off | poll Loki, analyze, approve/dismiss, expire | LLM providers, Loki, soar-engine |
| `services/security-scorer` | Redis: event window; last score | add events, score loop | Redis |
| `services/notification-service` | none that is read back | send a mail | SMTP |
| `services/web-portal` | `_sessions`, registration attempts; Redis: known devices | login, registration, transfers, relays of soar-engine's endpoints | Keycloak, api-gateway, soar-engine |
| `shared/` | none | sign and verify with SPIFFE identities, logging, tracing | |
| `opa/policies`, `policy/`, `scripts/gen-*` | none | authorization decisions; ACLs generated from the service graph | api-gateway (daily total) |
| `k8s`, `terraform`, `ansible`, `monitoring`, `plg-stack`, `spire` | deployment configuration | | |
| `legacy`, `ml-dataset`, `docs` | not deployed, data, text | | |

How they interact: a browser reaches `web-portal`; a payment travels
web-portal, api-gateway, payment-service, (fraud-detection), core-banking,
account-service, transaction-service, each hop an HTTP call with a time limit of
its own and each caller giving up without the callee knowing. Alerts travel
Grafana or ai-analyzer, soar-engine, then the Kubernetes API and Redis; the
gateway reads the ban keys soar-engine writes. An administrator reaches
soar-engine through links in e-mails and through the portal.

What is hard here:

* Every service is one asyncio process. A handler runs alone between two
  `await`s and anything happens at one. Most of the defects worth looking for
  are "read, await, write".
* Python state (`CASES`, `_HITL_QUEUE`) is rebuilt from a file after a restart;
  playbooks that were running are not resumed but run again.
* A playbook is a list of calls that fail one by one and a rollback that has to
  undo what others may have done since.
* Time-outs add up along the payment chain, so "503" does not mean "not moved".
* Account rows are locked in request order.

What makes each component correct, beyond its types:

* soar-engine, cases: a pending case stays decidable; nothing ineligible runs;
  a decision is taken once; what a case claims has happened; a restart changes
  no decision; the webhook opens no second case inside the window but for an
  escalation; held cases reach the administrator; a case marked as notified has a
  reason to be.
* soar-engine, playbooks: a rollback restores what the case changed; what is
  contained stays contained until then; no NetworkPolicy outlives its cases.
* account-service: transfers are atomic, never overdraw, and end.
* payment chain: "completed" means moved; a 4xx means not moved; ledger and
  notifications are of payments that took place; the daily total counts nothing
  that was not paid; the velocity window cuts bursts of large payments; the
  weakly authenticated daily total stays below the limit (it does not).
* ai-analyzer: no attack the rules find is kept quiet by the language model or by
  its failure; an alert is decided once; soar-engine acts on an approved one, or
  the administrator is told that it could not be handed over; the queue drains.
* security-scorer: a flood costs no newer event while an older one is kept; the
  cached score is at most one interval old; the alarm clears.
* web-portal: one live session per user, one account per user, trust only for a
  device met before; a refresh is no reason to be turned away, a revoked user is
  cut off; registration is limited and tells the truth.
* api-gateway's door: the limit of all pods together cuts in neither late nor
  early; pods that start without Keycloak come to accept tokens.
* bans: what is in force is listed, what is lifted is lifted.
* case file: an append that is cut off costs at most one other record.

`PROJECT.json` ("hazards") lists, at its line, everything in the code that is
hard to test, with the properties that cover it or the reason none does yet.

## 2. Modules

| Module | What it is |
|---|---|
| `SoarDecision` | pure decisions of soar-engine: attack type, playbook, target, eligibility, approval, conversion of a Grafana alert |
| `SoarCases` | life of a case: intake, queue, e-mail, decisions, runs, rollback, file, restart |
| `HitlGate` | abstract approval gate: absent, held, acting, closed |
| `SoarPlaybooks` | what runs and rollbacks do to Deployments, NetworkPolicies and bans |
| `Bank` | abstract account service: atomic transfers |
| `Transfers` | account-service's transactions statement by statement |
| `FraudScore` | fraud-detection's score and the gates that read it |
| `Payments` | a payment through all services, over `Bank` |
| `AiVerdict` | ai-analyzer's rules, the reading of the model's answer, their merge |
| `AiAlerts` | ai-analyzer's jobs, pending alerts and the forward to soar-engine, over `SoarDecision` and `HitlGate` |
| `EventWindow` | security-scorer's event set, score, cache and gauge |
| `PortalLogin` | web-portal's login: account, device trust, sessions |
| `PortalTokens` | one web-portal session: refreshes, calls, logout, age |
| `Registration` | web-portal's registration at Keycloak |
| `Gateway` | api-gateway's rate limit and its keys |
| `Blocklist` | soar-engine's bans of one address in Redis, call by call |
| `CaseStore` | soar-engine's file of cases when appends are cut off |
| `MCSoarCases`, `MCSoarPlaybooks`, `MCTransfers`, `MCPayments` | small instances for TLC |
| `Services` | the eight modules `AiAlerts`, `EventWindow`, `Blocklist`, `PortalLogin`, `PortalTokens`, `Registration`, `Gateway` and `CaseStore`, one of which runs (section 3) |
| `MCServices`, `MCProgress` | instances of several modules in one run (section 3) |
| `SoarCases_proofs`, `SoarGate_proofs`, `SoarDurable_proofs` | theorems about `SoarCases` |
| `SoarPlaybooks_proofs`, `AiAlerts_proofs` | theorems about `SoarPlaybooks` and `AiAlerts` |
| `Transfers_proofs`, `Payments_proofs` | theorems about `Transfers` and `Payments` |
| `Services_proofs` | theorems about the other modules of `Services` |

### SoarDecision and SoarCases

`SoarDecision` defines what the handlers compute without an `await`: the table
of playbooks per attack type, the target of an attack, `ShouldExecute` (auto
execution on, severity and confidence high enough, playbook allowed),
`NeedsHitl` (severity at or above the threshold), and `GrafanaToAlert`.
Severities are ranks, attack types and workloads model the strings the code
compares; texts, evidence and hashes are left out.

In `SoarCases` a case's record in memory is `cases[c]`, its last record in
`cases.jsonl` is `store[c]`, the queue entry (the draft the handler will copy
from) is `queue[c]`, and `req[r]` is an administrator's request that is inside
an awaited playbook run, with the copy of the record it took. `handler[c]` says
where the intake handler stands: recorded and about to run, recorded and about
to queue, gathering evidence, sending the e-mail. One action is one stretch of
code between two awaits: `PostAlert`/`Webhook` up to the first await,
`QueueCase`, `Enrich` (evidence from Loki arrived), `EmailReturned` and
`EmailFailed` (which writes the handler's own copy of the record, as the code
does), `Approve`, `Deny`, `Choose`, `ChooseMonitorOnly`, `FinishRun`,
`Rollback`, `Restart`. `smtp` says whether this process has an account to send
e-mail with; each start may find another answer (`SmtpSettings`), and
`k8s/plg-stack/ai-soar.yaml` allows a deployment without one, in which
`_smtp_send` returns and the case is marked all the same. `runs`, `born`, `boots`,
`mailed` (cases an e-mail left for) and `unsent` (cases whose e-mail was skipped
for want of an account) are history variables that the properties read and no
guard depends on, but for the bounds.

The alerts of one webhook body are handled in one loop in the code; the model
lets them arrive one by one, which allows more interleavings than the code has.

The intake handler's poller of Loki (`poll_loki_loop`) is not started by
`startup` and is left out.

`HitlGate` is what the README of the repository describes: an item is held,
then either closed or acted upon once. `GateState` maps a case to its item, and
in `AiAlerts` an alert to its item, so that both programs with an approval are
shown to keep one promise. `GiveUp` is an expiry or a crash; `SoarCases` never
takes it.

### SoarPlaybooks

`run[r]` is one call of `_run_steps`: its case, playbook, address and progress.
`StartRun` is phase contain up to its first await (Kubernetes calls are
synchronous and so part of one step), `Ban` each awaited Redis write, `EndRun`
phase eradicate and the record. A run begins in one of three handlers: `Approve`
takes the queue entry and does not look at the status, `Choose` looks at the
status and not at the queue, and `AutoRun` is the intake handler of a case that
needs no approval. So a case may be run more than once, with one playbook or with
several: two choose-action requests overlap, or the intake handler of a held case
(`QueueCase`, `Enrich`, `EmailReturned`) writes its pending copy over a decision
and queues the case again, or a restart cuts a run off and the case is still
pending. `Enrich` may also give a case an address that its first run did not have.
`Skip` is a denial. `Rollback` is synchronous and undoes the run on record,
`last[c]`, alone.

Every call may raise; a call that raises may have had its effect when only the
answer was lost. Bans expire at any time (`Unban`), because the key has a TTL.
`noted` holds the cases whose action ends in "unblock failed"; `contained` is a
history variable, the runs whose contain phase completed. Since the code keeps
nothing of the other runs of a case, `RollbackRestores` excepts cases run more
than once, and `NoOrphanPolicy` cases run with another playbook or address
besides; `ContainmentHolds` excepts nothing.
The effect of a NetworkPolicy on traffic is not modelled, nor is the content of
Keycloak sessions: `revoke_user_sessions` leaves no state that anything reads.

### Bank and Transfers

`Transfers` has one action per SQL statement of `transfer`. `lock` holds the
row locks that `SELECT ... FOR UPDATE` takes; a statement on a locked row waits.
The two UPDATEs become visible at `Commit`. PostgreSQL's part is modelled from
what the code relies on: locks end with the transaction, a broken connection
rolls back, and a transaction in a cycle of waits is aborted (the code has no
`lock_timeout` and no retry, the request is answered 500). `PoolSize` bounds the
open transactions. `Bank` is the specification: a transfer is one step. The
refinement mapping of `Transfers` takes the committed rows as they are and the
transfers at "applied" as Bank's `applied`.

### FraudScore and Payments

`FraudScore` defines the points of a score and the two gates. `Payments` follows
a payment through seven services. `at[h][p]` is where the handler of service
`h` stands with payment `p`: not called, called, waiting for one of its callees
(`paying`, `scoring`, `executing`, `transferring`, `recording`, `notifying`), or
done with an answer (2xx, 4xx, 5xx). A handler's code between two awaits is one
action: `Forward` (step-up check with the daily total, then the call),
`CheckAmount`, `ScorePayment`, `ObeyVerdict`, `Execute`, `Transfer`, `Record`,
`Notify`, `Count`; `Relay` and `Follow` are what a caller does with a bad and a
good answer. `GiveUp` is the time limit, or a broken connection: the caller
answers its own caller while the callee goes on, now or later. A request that
never arrives is a callee that never moves. `Transfer` is `Bank`'s atomic step
with account-service's answer, which may be a 500 after the COMMIT; `Transfers`
shows that the SQL statements implement that step. `recent` holds the payments
of fraud-detection's velocity windows, which slide on in any order (`Slide`).
The signature of the score is a check that may fail (`Execute`); the address
block, the rate limit and the token are one refusal that may come at any time
(`TurnAway`). The client retries nothing: a retry is another payment.

### AiVerdict and AiAlerts

`AiVerdict` is `heuristic_analyze`, `_coerce_ai_result` and
`_merge_result_with_heuristic` on a batch reduced to what the patterns find in
it. `ATTACK_PLAYBOOKS` and the priorities are the code's; the confidence of the
rules is the least the code can compute for these findings. `AiAlerts` follows
`handle_logs` from `POST /analyze` (`Analyze`) and from the poll loop (`Poll`)
through its awaits: the language model (`ProviderAnswers`, `ProviderFails`) and
the notification (`Told`). `pending[i]` is the entry in `PENDING_ALERTS`,
`forward[i]` the POST to soar-engine, which may arrive after ai-analyzer has
given up (`SoarReceives` after `ForwardTimesOut`). `Sweep` is one pass of
`expire_pending_loop`: it deletes and expires in two rounds. What soar-engine
then does is `SoarDecision!Disposition` of the forwarded alert: the two programs
are composed at that function, because both sides of the call are stateless
there. `forgot` is a history variable. A batch is posted by the poll loop only
when its hash is not in `seen`; the trimming of the set keeps an arbitrary half,
as the order of a Python set is.

### EventWindow

The sorted set, the loop that reads it every interval, the cached score and the
gauge. Time is relative: `life[e]` is what an event has left in the window. A
read and what is done with its result are two actions, because Redis is awaited
between them; a `GET /score` before the first pass does the same on its own and
may publish late (`AskReads`, `AskAnswers`). The logarithm of the score is a
table in hundredths.

### PortalLogin, PortalTokens and Registration

`PortalLogin` is `auth_callback`: lookup of the account, creation with a new
random id when none is found (`Post`, `Insert`, `Created`, `Conflict`,
`CreateFails`), removal of the user's older sessions, device check, registration
of the device, storing of the session. The POST to account-service is on a wire
of its own and may be carried out after the portal gave up. `PortalTokens` is one
session with its access token, as ticks of ten seconds to its expiry:
`_ensure_valid_token` by several requests at once, the calls they make with the
token they hold, logout, `_cleanup_sessions`, and the end of the sign-on session
at Keycloak (which soar-engine's `revoke_user_sessions` asks for). A request is of
one of three kinds. A page calls the gateway as soon as it has its token. An admin
handler (`admin_users`, `admin_all_accounts`) first asks Keycloak for an admin
token and for every user, which takes as long as there are users, so its call may
come any time later. A scenario (`run_scenario`) takes the token of the session as
it is. `Registration` is `do_register` and `_keycloak_create_user`, each call to
Keycloak an action that may fail, be lost after it had its effect, or answer a
status the code does not look at. Names and e-mail addresses are unique at
Keycloak, and other people may have either before an attempt or take it meanwhile
(`OthersTakeName`, `OthersTakeMail`); a 409 stands for both.

### Gateway, Blocklist and CaseStore

`Gateway` is `TurnAway` of `Payments` in detail: `_check_rate_limit` of all pods
over one sorted set, and `_load_oidc_config` with its two requests, repeated by
`_jwks_refresh_loop` while there are no keys. The loader is synchronous, so a pod
serves nothing between the two. A call reads the clock (`Call`) and awaits the
transaction that drops what is a minute old by that clock, adds and counts
(`Check`, or `CheckFails`). Between the two lie at most `Lag` ticks: the wait for
Redis, which the code does not bound, and the skew of the pods' clocks. The key
has a TTL (`KeyExpires`). `Blocklist` is `redis_block_ip`,
`redis_unblock_ip` and `redis_get_blocked_ips`, each call an action, any of which
may fail having had its effect. `CaseStore` is what `SoarCases` takes for
granted: `record_case` changes memory and appends a line, and an append may leave
nothing, a part, or a record without its newline, which the next append
continues.

## 3. Runs

| Run | Instance | What it shows |
|---|---|---|
| `soar_cases` | 1 case, 2 concurrent administrator requests, 2 restarts, an SMTP account or none at each start, fairness of the queueing | `TypeOK`, `PendingIsDecidable`, `OnlyEligibleRun`, `OutcomeHasRun`, `MarkNamesItsCause`, `RestartKeepsDecisions`, `HeldBecomesDecidable` |
| `soar_gate` | 2 cases, posted or from webhooks, a window of 2 ticks, time up to 3, 2 requests, approve and deny, the administrator waits for the intake handler to end, no restart | `AtMostOneRun`, the refinement `GateSpec`, `DedupEscalates` |
| `soar_reverts` | 1 case, administrator does not wait | `DecisionIsFinal` is violated: the intake handler overwrites the decision |
| `soar_double_run` | 1 case, two choose-action requests | `AtMostOneRun` is violated: check, await, write |
| `playbooks` | 3 cases (one held, with three playbooks that may be run for it; two automatic), 1 workload, 1 address, 3 runs, every call may fail, 1 restart | `TypeOK`, `RollbackRestores`, `ContainmentHolds`, `NoOrphanPolicy` |
| `playbooks_double` | 2 cases on one workload, no failures | `RollbackRestores` is violated: the second run notes 0 replicas |
| `playbooks_claim` | 2 cases on one address, no failures | `ExecutedIsContained` is violated: an existing NetworkPolicy cannot be updated |
| `services` | one small instance of each of `AiAlerts`, `EventWindow`, `Blocklist`, `PortalLogin`, `PortalTokens`, `Registration`, `Gateway`, `CaseStore` | the invariants and step properties of these modules (table below), and `GateSpec`: ai-analyzer implements `HitlGate` |
| `progress` | 3 accounts (one without a row), 3 transfers, 2 connections that may break; 1 payment within and 1 above the limit; 2 pods; 2 pending alerts; 2 events; all with fairness | `TypeOK`, `NoOverdraft`, `BankSpec`, `TransfersEnd`; `CallsEnd`, `DoorOpens`, `QueueDrains`, `AlarmClears` |
| `transfers_self` | 1 transfer from an account to itself | `BankSpec` is violated: the account gains the amount |
| `payments` | 3 payments from one account (two of the critical amount, one above what payment-service accepts), velocity limit 1, an account that may be opened meanwhile, midnights | `TypeOK`, `BooksAreReal`, `AnswersAreTrue`, `CounterIsCovered`, `BurstIsCut` |
| `payments_limit` | 2 weakly authenticated payments | `WeakDailyLimit` is violated: both pass on the same old total |

`services` and `progress` hold several components in one state space without
multiplying them: `Init` chooses the `component` that runs, and the others stay in
their initial states. No property of either run relates two components; where
components interact, a module of its own composes them (`Payments` over `Bank`,
`AiAlerts` over `SoarDecision`). The module `Services` does this for the run and
for the theorems alike: its parameters are those of its modules, and
`ServicesAssumption` collects their assumptions. The properties of `services` are
conjunctions of named parts:

| Property | Its parts | Instance |
|---|---|---|
| `AttacksAreRaised` | `ProviderCannotSuppress`, `DuplicatesHaveACause` | 2 jobs, 2 batches (two attacks; none), a model that says "normal" and one that is unsure of two attacks the rules do not know, 1 restart |
| `ApprovalIsKept` | `ApprovedIsActedOn`, `ApprovalIsAccountedFor` | the same |
| `ScoreIsFresh` | `NewestKept`, `CountedInTime` | 3 events, of which the set keeps 2, a window of 2 ticks, 1 outage or restart |
| `BansAgree` | `UnlistedBanHasACause`, `UnblockedIsFree` | 2 bans, 1 unblocking, 1 listing |
| `StoreIsSound` | `FileIsMemory`, `DamageIsBounded` | 4 records of 2 cases, 2 cut appends, 1 restart |
| `LoginIsSound` | `OneSessionPerUser`, `TrustIsEarned` | 2 logins of one user from one browser, each with a plain or a suspicious agent, 2 free account ids and one that somebody else has, 1 restart |
| `AccountsAreSound` | `SecondAccountHasACause`, `ShownAccountIsOwn` | the same |
| `SessionIsSound` | `OnlyFailedRefreshIsRejected`, `OldSessionsGo`, `RevokedIsCutOff` | 2 requests, a page and an admin handler or a page and a scenario; a token of 4 ticks with a margin of 3, sessions of 3 ticks |
| `RegistrationIsSound` | `HourlyLimit`, `AnswerIsHonest`, `HalfMadeHasACause` | 2 attempts at one name with addresses of their own, other people at Keycloak, 1 an hour |
| `RateLimitIsFair` | `MinuteLimit`, `LimitIsEarned` | 2 pods, a call to each, 1 a minute of 2 ticks, a lag of 1, 1 fault, 1 rotation |

`UnlistedBanHasACause`, `SecondAccountHasACause`, `DuplicatesHaveACause` and
`HalfMadeHasACause` do not say that these things never happen: the code lets them
happen, and the properties say from which overlaps and failures alone. The ban
that is in force and not listed, for one, needs an unblocking or a listing that
overlaps a ban, or a ban that failed half way. In the same way
`OnlyFailedRefreshIsRejected` promises nothing to a scenario, and to an admin
handler only as long as its answer comes within the margin after it had its token:
the code turns the others away for a token that ran out on the way. The limits of
`RateLimitIsFair` are a minute less the lag for what passes, and a minute and the
lag for what is refused; with no lag both are a minute, open at one end, since
`zremrangebyscore` removes an entry that is exactly a minute old.

`DoorOpens` says that every pod gets keys, and, for a Keycloak that publishes the
built-in issuer and does not rotate its keys, that every pod comes to accept
tokens. The proviso is not idle: a pod whose request for the discovery document
failed while the request for the keys succeeded keeps the built-in issuer for
good, and a pod that has keys never asks for newer ones
(`src/services/api-gateway/main.py:237-250`). `k8s/keycloak/deployment.yaml` sets
the host name from which the built-in issuer follows.

Why the bounds are enough. In `SoarCases` two cases meet only in the
deduplication registry, which `soar_gate` covers: a second alert inside the
window, at its end and after it. Elsewhere one case and two requests give every
interleaving of a case with the handlers that touch it, and the second restart
finds a file that a restarted process has written to.
The safety properties are proved for any number of them. In `playbooks` no two
cases scale one workload (that is `playbooks_double`). Two cases share the
address, one from its alert and one from its evidence, and the third has neither
workload nor address. Three runs let one case be run three times, with each of its
playbooks, or twice beside another's. In
`Transfers` two transfers in opposite directions deadlock, and the third
competes for the money and for a row that is created while it runs. In
`Payments` two payments from one account meet in the balance, the velocity
window and the daily total; the third is there for the amount limit. Amounts are
a few units, chosen so that a critical payment passes the fraud gate alone and
not as the second of a window.
In `services` two handlers of a kind meet in every order, and a limit of one is
reached and exceeded; two bans are needed with one unblocking so that one lies
before it and one overlaps it; four records with two cut appends give a damaged
line that goes on over a good record, twice, before and after a restart; three
events over a set of two make the trim choose. The tokens' times keep the
proportions the code relies on: the margin covers a page's call, and a new token
outlives a refresh and the margin (`Parameters`).

`CHECK_DEADLOCK FALSE` stands in every configuration: all cases decided, or all
transfers answered, is an end the system may rest in.

Fairness. In `SoarCases` weak fairness is assumed of `QueueCase` alone: what it
waits for is the push to Loki in `record_case`, by httpx with a time limit.
Nothing is assumed of playbook runs, which await Redis through a client without a
socket time-out (`src/services/soar-engine/main.py:1317`) and call Kubernetes
without a request time-out, so that one may hang for ever; nothing of the e-mail:
`smtplib.SMTP` is called without a time limit; nothing of administrators or
alerts. In `Transfers` every statement that is not waiting for
a lock is answered, and the deadlock detector runs (PostgreSQL's
`deadlock_timeout`); connections may break but need not. In `Payments` fairness is
assumed of payment-service's and core-banking's own steps, `GiveUp` included,
because all they await are httpx calls with a `timeout`; not of the gateway,
whose Redis calls have none. `DoorOpens` needs the refresh loop to go on and
Keycloak to come back; both requests of the loader have a `timeout`.
`QueueDrains` needs the expiry loop and time to pass, nothing of the
administrator. `AlarmClears` needs the score loop, time, and Redis to come back
and to answer: a failed pass is caught and the loop sleeps on, but a Redis that
keeps the connection and never answers would hold it, since the client
(`src/services/security-scorer/main.py:133`) has no socket time-out.

Each property of a passing run has a mutant in `PROJECT.json`, and a property with
several parts has more than one: a definition with a plausible defect (a dropped
guard, an unrestored queue, a lock not taken) under which TLC finds the property violated.

## 4. Proofs

The theorems hold for every value of the constants that satisfies the modules'
named assumptions (finite or not: any set of cases and requests, any alert
table, any number of restarts).

* `SoarCases_proofs`: `Typing`, then the inductive invariant `IInv` behind
  `PendingStaysDecidable`, `OnlyEligibleCasesRun` and `OutcomesAreReal`. The
  three properties are not inductive by themselves: they speak of records in
  memory, while the next record may come from the queue, from the file, or from
  the copy a request or a handler holds. The strengthening says the same of
  every copy.
* `SoarGate_proofs`: under the assumptions of the run `soar_gate` (decisions by
  approve and deny, taken after the intake handler ended, no restart), every
  step of `SoarCases` is a step of `HitlGate` or a stutter; `AtMostOneRun`
  follows from the count of runs that the gate's position allows.
* `SoarDurable_proofs`: `RestartIsNeutral` from "file and memory agree on the
  status of every case"; `WindowLetsEscalationsThrough` from an invariant that
  ties each registry entry to the case that made it and orders the cases of a
  stream; `MarksAreExplained` from the same statement about every copy of a
  record, for every sequence of starts with and without an SMTP account.

* `SoarPlaybooks_proofs`: `Typing`; `NoPolicyIsOrphaned` from `PolicyInv`, which
  names the run that answers for an address and shows that it goes on doing so
  until the rollback of its case removes the policy, or finds another run on
  record; `ContainmentLasts`; `RollbackUndoes` from `RestoresInv`, which relates a
  Deployment's replicas to its annotation and to the runs that scaled it, as long
  as no case about it is run twice. None of them limits how often a case is run or
  how its runs overlap; what a repeated run breaks is excepted in the properties
  and named there. `RunInv` says that
  every run has its case and that the outcome on record is that of a run of the
  case that has ended. The last two theorems have hypotheses. `WorkloadsApart` says
  that no two cases scale one workload; `playbooks_double` shows that they need it.
  `DefaultIsRight` says that the one replica that a rollback assumes when
  the annotation is missing (`src/services/soar-engine/main.py:602`) is the number
  the Deployment had, or that the annotation cannot be lost.

* `AiAlerts_proofs`: `Typing`, `NoAttackIsLost`, `AlertsImplementGate` and
  `ApprovalsAreKept` from `IInv`. Its centre is `Covers`: whatever a language
  model answers, the merged verdict is no weaker than that of the rules. The
  lemmas above it are about the operators of `AiVerdict` (least and greatest of a
  list, the confidence and the severity of the rules, of what is read, and of the
  merge). `EntryInv` ties an entry's status to the POST and to the answer the
  administrator got, `PollInv` the hashes seen to the batches posted.
  `ApprovalsAreKept` has the hypothesis `ThresholdsAgree`: soar-engine's
  thresholds are no stricter than what every approved alert shows. The deployment
  sets them so (medium and 0.50, `src/scripts/deploy-app.sh:667-668`,
  `src/k8s/plg-stack/ai-soar.yaml:99-104`), as the run does. The defaults of the
  code (high and 0.70, `src/services/soar-engine/main.py:36,189`) do not satisfy
  it, so with them the theorem says nothing.

* `Transfers_proofs`: `Typing`; `NobodyOverdraws` and `TransfersImplementBank`
  from the inductive invariant `IInv`: a transfer past its SELECTs holds the
  locks of both rows, no two transfers hold one lock, and what a transfer has
  read is what the row still holds. Without it a debit could be computed from a
  balance that has changed. The refinement assumes that no transfer goes from an
  account to itself, which `transfers_self` shows to be necessary.

* `Payments_proofs`: `Typing`, then `NobodyLies` and `BooksTellTheTruth` from
  `IInv`. `AnswersAreTrue` alone is not inductive: a gateway that answers 4xx
  relays payment-service, which relays core-banking, which relays
  account-service. `NothingBeyond` says of each pair of neighbours that a service
  which has not called yet, or has refused, has nothing but refusals beyond it,
  and `TookPlace` that whoever has begun to tell of a payment has seen the money
  move. `BurstsAreCut` adds that fraud-detection scores a payment once and that a
  payment of the critical amount passes the gate only while its account has no
  more than `SoftLimit` payments in the window (`CriticalPass`, which is
  arithmetic over the points); the invariant then counts approved payments in the
  window, not those that moved money, because the approval comes first.
  `CountersAreCovered` adds that the total is at most the sum of the payments the
  gateway has called completed, and needs sums: `SumsExist` shows that the fold
  of the library is a function on the finite sets, `TotalIsSum` and `TotalMore`
  that one more payment adds its amount.

* `Services_proofs`: for each module of `Services` an inductive invariant and the
  properties that follow from it, over `ServicesSpec` and under
  `ServicesAssumption` alone; `ServicesTyping` collects the types.
  - `ListAndKeysAgree` (`BansInv`): a handler about to remove the address from the
    list has seen no key, or a ban came in between; an unblocking all of whose
    bans were over has deleted the key.
  - `LoginsAreSound`, `NoAccountWithoutACause` (`LoginInv`): what a login has
    looked up, sent and inserted at each of its awaits, and that after it ended
    the older sessions none of them comes back.
  - `SessionsAreSound` (`TokensInv`): the token that a page or an admin handler
    was given without a failed refresh lasts for the margin from then, so that who
    is turned away has waited longer; no token outlives the sign-on session by
    more than its lifetime.
  - `RegistrationsAreSound` (`RegisterInv`): every attempt of the last hour has an
    entry of its own in the bucket, so that their number is at most its length;
    the user of a name that an attempt made is the one it asked for.
    It is a matching and not a count, since pruning and appending move entries.
  - `RateLimitsAreFair` (`DoorInv`): the entry of a call that passed stays in the
    sorted set of all pods for a minute, and a call that waits for Redis read its
    clock at most `Lag` ago; so every window of a minute less the lag lay in the
    set, whole, when its last call was counted.
  - `ScoresAreFresh` (`ScoreInv`): what the cached score misses is younger than
    the time since the loop read, and an event the trim dropped has, while it
    lives, a full set of events as recent; `FoldType` and `ScoreType` bound the score.
  - `StoresAreSound` (`StoreInv`): no two lines begin with one record, a line of
    several pieces begins with one that was cut off, and a record that was
    reported stored ends a line; `LostBehindCuts` maps each lost record to the
    cut append it lies behind, injectively.

What stays with TLC: liveness (`HeldBecomesDecidable`, `TransfersEnd`,
`CallsEnd`, `DoorOpens`, `QueueDrains`, `AlarmClears`), which tlapm does not prove.
Every invariant and step property of a passing run is a theorem. The theorems
about `AiAlerts` are about its own `Spec`, which `Services` runs as one of its
components, and those about `Transfers` are checked in the run `progress`. The
properties of `AiAlerts` and `SoarPlaybooks` that have hypotheses are checked by
runs whose constants satisfy them.

## 5. Not modelled

* web-portal beyond login, sessions, tokens and registration: its pages relay one
  call each to api-gateway, ai-analyzer or soar-engine and keep nothing (the token
  they carry is in `PortalTokens`); the demo scenarios post canned log lines.
* Authorization policies (`opa/policies`, `policy/service-graph.yaml`,
  `scripts/gen-rego-acl.py`): decision functions without state, evaluated beside
  the services. Their step-up rule is quoted by the finding of `payments_limit`.
* `shared/`: logging, and the signature of a request, whose outcome is a choice in
  `Payments`.
* Deployment (`k8s`, `terraform`, `ansible`, `monitoring`, `plg-stack`, `spire`):
  configuration, read for environment variables and replica counts only.
* Inside the modelled components: mail templates, log and metric formats, prompts,
  how patterns match lines, the traffic semantics of NetworkPolicies, token
  cryptography, the contents of a Keycloak session. An alert that ai-analyzer
  forwards names no user, so `revoke_user_sessions` of soar-engine
  (`src/services/soar-engine/main.py:1010`) finds nobody to sign out for it; the
  models have the playbook's outcome and not its addressee.
* The poller of Loki in soar-engine, which `startup` does not start; `legacy`,
  `ml-dataset` and `docs`.

Hazards without a property, with the reason, are in `PROJECT.json`.

## 6. Plan

1. An abstract specification of a payment (asked, moved or not, told) and the
   proof that `Payments` implements it, as `Transfers` implements `Bank`.
2. Theorems about `SoarDecision` of their own: that what is held is what the
   threshold says, for every table of playbooks.
3. The step-up rule of OPA beside the gateway's, should the policies change.
