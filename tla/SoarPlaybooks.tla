--------------------------- MODULE SoarPlaybooks ---------------------------
(***************************************************************************)
(* What playbook runs and rollbacks do to the cluster and to the gateway's *)
(* blocklist: _run_steps (contain, investigate, eradicate) and             *)
(* rollback_playbook, with the calls that may fail.                        *)
(*                                                                         *)
(* Calls of the Kubernetes client are synchronous: they block the event    *)
(* loop, so a phase is one step, but each call in it may raise.  A call    *)
(* that raises may have had its effect all the same, when only the answer  *)
(* was lost.  The runs await the Redis writes and the query of Loki; other *)
(* requests and restarts come in between.                                  *)
(*                                                                         *)
(* A case may be run more than once, with one playbook or with several:    *)
(* two choose-action requests both find it pending while a run is awaited, *)
(* an approval takes the queue entry that the intake handler puts there    *)
(* after a decision, and a run that a restart cut off is started again.    *)
(***************************************************************************)
EXTENDS Integers

CONSTANTS
  Cases, Workloads, Ips,
  Runs,         \* runs of playbooks; each is started at most once (bound)
  WorkloadOf,   \* target workload of a case's alert, or NoTarget
  AlertIp,      \* source address of a case's alert, or NoTarget
  FoundIp,      \* address in the evidence that Loki has, or NoTarget
  Proposed,     \* playbook that was selected for the alert
  Choices,      \* Choices[c]: playbooks an administrator may choose for c
  Automatic,    \* cases that need no approval
  Initial,      \* replicas of every Deployment
  K8sMayFail,   \* may a call of the Kubernetes API raise?
  RedisMayFail, \* may a write to Redis raise?
  ManualIps,    \* addresses an administrator may ban by hand
  MaxRestarts   \* bound: restarts of soar-engine

NoTarget == "none"   \* a field of the alert that is None

ScalePlaybooks == {"isolate_workload", "restrict_egress", "quarantine_workload"}
Playbooks      == ScalePlaybooks \cup {"block_source_ip", "revoke_user_sessions"}

ASSUME PlaybooksAssumption ==
  /\ WorkloadOf \in [Cases -> Workloads \cup {NoTarget}]
  /\ AlertIp \in [Cases -> Ips \cup {NoTarget}]
  /\ FoundIp \in [Cases -> Ips \cup {NoTarget}]
  /\ Proposed \in [Cases -> Playbooks]
  /\ Choices \in [Cases -> SUBSET Playbooks]
  /\ Automatic \subseteq Cases
  /\ NoTarget \notin Workloads /\ NoTarget \notin Ips
  /\ NoTarget \notin Cases /\ NoTarget \notin Runs
  /\ Initial \in Nat \ {0}
  /\ K8sMayFail \in BOOLEAN /\ RedisMayFail \in BOOLEAN
  /\ ManualIps \subseteq Ips
  /\ MaxRestarts \in Nat

VARIABLES
  replicas,   \* replicas[w]: spec.replicas of Deployment w
  saved,      \* saved[w]: annotation original-replicas, NoReplicas if absent
  policy,     \* ips with a NetworkPolicy soar-block-<hash>
  banned,     \* ips with a live key ztlab:blocked_ip:<ip> in Redis
  run,        \* run[r]: case, playbook, address and progress of a run
  status,     \* status[c]: status of the record of case c
  last,       \* last[c]: the run whose outcome the record holds
  noted,      \* cases whose action ends in "unblock failed"
  queued,     \* cases in _HITL_QUEUE
  handler,    \* handler[c]: where the intake handler of case c stands
  found,      \* cases whose record got its address from the evidence
  contained,  \* runs whose contain phase completed, no rollback since (history)
  boots       \* restarts so far

caseVars == <<status, last, noted, queued, handler, found>>
vars == <<replicas, saved, policy, banned, run, caseVars, contained, boots>>

NoReplicas == -1
NoRun      == [case |-> NoTarget, playbook |-> NoTarget, ip |-> NoTarget, at |-> "unused"]
Running    == {"banning_twice", "banning", "investigating"}
Stages     == Running \cup {"unused", "ended", "lost"}
Statuses   == {"none", "pending", "skipped", "executed", "rolled_back", "rollback_failed"}

TypeOK ==
  /\ replicas \in [Workloads -> Nat]
  /\ saved \in [Workloads -> Nat \cup {NoReplicas}]
  /\ policy \subseteq Ips
  /\ banned \subseteq Ips
  /\ run \in [Runs -> [case : Cases \cup {NoTarget}, playbook : Playbooks \cup {NoTarget},
                      ip : Ips \cup {NoTarget}, at : Stages]]
  /\ status \in [Cases -> Statuses]
  /\ last \in [Cases -> Runs \cup {NoTarget}]
  /\ noted \subseteq Cases
  /\ queued \subseteq Cases
  /\ handler \in [Cases -> {"new", "recorded", "queued", "done"}]
  /\ found \subseteq Cases
  /\ contained \subseteq Runs
  /\ boots \in 0..MaxRestarts

(* The alerts are in: a case that needs approval is on record as pending.  *)
Init ==
  /\ replicas = [w \in Workloads |-> Initial]
  /\ saved = [w \in Workloads |-> NoReplicas]
  /\ policy = {}
  /\ banned = {}
  /\ run = [r \in Runs |-> NoRun]
  /\ status = [c \in Cases |-> IF c \in Automatic THEN "none" ELSE "pending"]
  /\ last = [c \in Cases |-> NoTarget]
  /\ noted = {}
  /\ queued = {}
  /\ handler = [c \in Cases |-> IF c \in Automatic THEN "new" ELSE "recorded"]
  /\ found = {}
  /\ contained = {}
  /\ boots = 0

-----------------------------------------------------------------------------
(* _scale_deployment: note the replicas in an annotation, then scale to 0. *)
(* A raise leaves nothing behind, or the annotation, or both.              *)
\* Mutation: the Deployment is scaled before its replicas are noted.
Scaled_m(w, ok) ==
  \/ /\ ok
     /\ replicas' = [replicas EXCEPT ![w] = 0]
     /\ saved' = [saved EXCEPT ![w] = 0]
  \/ /\ ~ok /\ K8sMayFail
     /\ UNCHANGED <<replicas, saved>>

\* Mutation: a failure of the scaling itself goes unnoticed.
ScaledQuietly_m(w, ok) ==
  /\ ok
  /\ saved' = [saved EXCEPT ![w] = replicas[w]]
  /\ replicas' \in {replicas, [replicas EXCEPT ![w] = 0]}

Scaled(w, ok) ==
  \/ /\ ok
     /\ saved' = [saved EXCEPT ![w] = replicas[w]]
     /\ replicas' = [replicas EXCEPT ![w] = 0]
  \/ /\ ~ok /\ K8sMayFail
     /\ \/ UNCHANGED <<replicas, saved>>
        \/ /\ saved' = [saved EXCEPT ![w] = replicas[w]]
           /\ replicas' \in {replicas, [replicas EXCEPT ![w] = 0]}

(* _block_source_ip: create the policy, or update the one that is there.   *)
(* The update indexes a model object of the client like a dict, which      *)
(* raises a TypeError, so it never succeeds.                               *)
Blocked(ip, ok) ==
  \/ ok /\ ip \notin policy /\ policy' = policy \cup {ip}
  \/ ~ok /\ ip \in policy /\ UNCHANGED policy
  \/ ~ok /\ K8sMayFail /\ policy' \in {policy, policy \cup {ip}}

(* _restore_deployment: scale to the annotated number, or to 1, then       *)
(* annotate.  The annotation original-replicas stays.                      *)
\* Mutation: no default for a missing annotation.
RestoredReplicas_m(w) == saved[w]

RestoredReplicas(w) == IF saved[w] = NoReplicas THEN 1 ELSE saved[w]

Restored(w, ok) ==
  \/ ok /\ replicas' = [replicas EXCEPT ![w] = RestoredReplicas(w)]
  \/ /\ ~ok /\ K8sMayFail
     /\ replicas' \in {replicas, [replicas EXCEPT ![w] = RestoredReplicas(w)]}

(* _unblock_source_ip: a missing policy is a success.                      *)
\* Mutation: the policy is looked up under another name.
Unblocked_m(ip, ok) == ok /\ UNCHANGED policy

Unblocked(ip, ok) ==
  \/ ok /\ policy' = policy \ {ip}
  \/ ~ok /\ K8sMayFail /\ policy' \in {policy, policy \ {ip}}

-----------------------------------------------------------------------------
(* A run begins: phase contain up to its first await.  An exception skips  *)
(* the rest of the phase, the Redis writes included, and the run goes on.  *)
StartRun(r, c, p) ==
  LET w == WorkloadOf[c]
      i == IF c \in found THEN FoundIp[c] ELSE AlertIp[c]
      ban == IF i = NoTarget THEN "investigating" ELSE "banning"
      Contain(ok, next) ==
        /\ run' = [run EXCEPT ![r] =
                     [case |-> c, playbook |-> p, ip |-> i,
                      at |-> IF ok THEN next ELSE "investigating"]]
        /\ contained' = IF ok THEN contained \cup {r} ELSE contained
  IN  /\ run[r] = NoRun
      /\ \E ok \in BOOLEAN :
           \/ /\ p \in ScalePlaybooks /\ w # NoTarget
              /\ Scaled(w, ok)
              /\ Contain(ok, ban)
              /\ UNCHANGED policy
           \/ /\ p \in ScalePlaybooks /\ w = NoTarget
              /\ Contain(TRUE, ban)
              /\ UNCHANGED <<replicas, saved, policy>>
           \/ /\ p = "block_source_ip" /\ i # NoTarget
              /\ Blocked(i, ok)
              /\ Contain(ok, "banning_twice")
              /\ UNCHANGED <<replicas, saved>>
           \/ /\ p = "block_source_ip" /\ i = NoTarget
              /\ Contain(TRUE, "investigating")
              /\ UNCHANGED <<replicas, saved, policy>>
           \/ /\ p = "revoke_user_sessions"
              /\ Contain(ok, "investigating")
              /\ UNCHANGED <<replicas, saved, policy>>
      /\ UNCHANGED <<banned, status, last, noted, found, boots>>

(* GET and POST approve: the queue entry is what counts, not the status.   *)
Approve(r, c) ==
  /\ c \in queued
  /\ queued' = queued \ {c}
  /\ StartRun(r, c, Proposed[c])
  /\ UNCHANGED handler

(* choose-action and execute-playbook: the status is what counts; whether  *)
(* there was a queue entry does not matter.                                *)
Choose(r, c, p) ==
  /\ status[c] = "pending"
  /\ p \in Choices[c]
  /\ queued' = queued \ {c}
  /\ StartRun(r, c, p)
  /\ UNCHANGED handler

(* An alert below the threshold of approval is run by the intake handler.  *)
AutoRun(r, c) ==
  /\ handler[c] = "new"
  /\ handler' = [handler EXCEPT ![c] = "done"]
  /\ StartRun(r, c, Proposed[c])
  /\ UNCHANGED queued

(* redis_block_ip returned; its exceptions are logged and forgotten.  The  *)
(* playbook block_source_ip calls it twice.                                *)
Ban(r) ==
  /\ run[r].at \in {"banning_twice", "banning"}
  /\ run' = [run EXCEPT ![r].at = IF @ = "banning_twice" THEN "banning"
                                  ELSE "investigating"]
  /\ \/ banned' = banned \cup {run[r].ip}
     \/ RedisMayFail /\ UNCHANGED banned
  /\ UNCHANGED <<replicas, saved, policy, caseVars, contained, boots>>

(* Loki answered: phase eradicate, and the case is recorded as executed    *)
(* whatever became of the phases, and whatever was recorded meanwhile.     *)
EndRun(r) ==
  LET c == run[r].case
      i == run[r].ip
  IN  /\ run[r].at = "investigating"
      /\ run' = [run EXCEPT ![r].at = "ended"]
      /\ status' = [status EXCEPT ![c] = "executed"]
      /\ last' = [last EXCEPT ![c] = r]
      /\ noted' = noted \ {c}
      /\ \/ /\ run[r].playbook \in ScalePlaybooks /\ i # NoTarget
            /\ \E ok \in BOOLEAN : Blocked(i, ok)
         \/ /\ run[r].playbook \notin ScalePlaybooks \/ i = NoTarget
            /\ UNCHANGED policy
      /\ UNCHANGED <<replicas, saved, banned, queued, handler, found, contained, boots>>

(* POST /cases/{id}/rollback undoes the run that is on record.  A failure  *)
(* to unblock the address after the Deployment was restored is noted in    *)
(* the action and otherwise ignored.                                       *)
Rollback(c) ==
  /\ status[c] \in {"executed", "rollback_failed"}
  /\ LET p == run[last[c]].playbook
         w == WorkloadOf[c]
         i == run[last[c]].ip
         Outcome(ok) == status' = [status EXCEPT ![c] = IF ok THEN "rolled_back"
                                                        ELSE "rollback_failed"]
     IN  \E ok \in BOOLEAN :
           \/ /\ p \in ScalePlaybooks /\ w # NoTarget
              /\ Restored(w, ok)
              /\ IF ok /\ i # NoTarget
                 THEN \E unblocked \in BOOLEAN :
                        /\ Unblocked(i, unblocked)
                        /\ noted' = IF unblocked THEN noted ELSE noted \cup {c}
                 ELSE UNCHANGED <<policy, noted>>
              /\ Outcome(ok)
           \/ /\ p \in ScalePlaybooks /\ w = NoTarget
              /\ Outcome(FALSE)
              /\ UNCHANGED <<replicas, policy, noted>>
           \/ /\ p = "block_source_ip" /\ i # NoTarget
              /\ Unblocked(i, ok)
              /\ Outcome(ok)
              /\ UNCHANGED <<replicas, noted>>
           \/ /\ p = "block_source_ip" /\ i = NoTarget
              /\ Outcome(FALSE)
              /\ UNCHANGED <<replicas, policy, noted>>
           \/ /\ p = "revoke_user_sessions"
              /\ Outcome(TRUE)
              /\ UNCHANGED <<replicas, policy, noted>>
  /\ contained' = {r \in contained : run[r].case # c}
  /\ UNCHANGED <<saved, banned, run, last, queued, handler, found, boots>>

-----------------------------------------------------------------------------
(* The intake handler of a held case: it queues the case, adds an address  *)
(* it finds in the evidence, and marks the e-mail as sent.  The last two   *)
(* write its own pending copy over whatever was recorded meanwhile.        *)
QueueCase(c) ==
  /\ handler[c] = "recorded"
  /\ handler' = [handler EXCEPT ![c] = "queued"]
  /\ queued' = queued \cup {c}
  /\ UNCHANGED <<replicas, saved, policy, banned, run, status, last, noted, found,
                 contained, boots>>

RecordPending(c) ==
  /\ handler[c] = "queued"
  /\ status' = [status EXCEPT ![c] = "pending"]
  /\ noted' = noted \ {c}
  /\ queued' = queued \cup {c}
  /\ UNCHANGED <<replicas, saved, policy, banned, run, last, contained, boots>>

Enrich(c) ==
  /\ AlertIp[c] = NoTarget /\ FoundIp[c] # NoTarget /\ c \notin found
  /\ found' = found \cup {c}
  /\ RecordPending(c)
  /\ UNCHANGED handler

EmailReturned(c) ==
  /\ handler' = [handler EXCEPT ![c] = "done"]
  /\ RecordPending(c)
  /\ UNCHANGED found

(* Deny takes the queue entry, the choice of monitor_only the status.      *)
Skip(c) ==
  /\ c \in queued \/ status[c] = "pending"
  /\ status' = [status EXCEPT ![c] = "skipped"]
  /\ noted' = noted \ {c}
  /\ queued' = queued \ {c}
  /\ UNCHANGED <<replicas, saved, policy, banned, run, last, handler, found, contained,
                 boots>>

(* DELETE and POST /blocked-ips/{ip}, and the TTL of the key.              *)
Unban(ip) ==
  /\ ip \in banned
  /\ banned' = banned \ {ip}
  /\ UNCHANGED <<replicas, saved, policy, run, caseVars, contained, boots>>

ManualBan(ip) ==
  /\ ip \in ManualIps \ banned
  /\ banned' = banned \cup {ip}
  /\ UNCHANGED <<replicas, saved, policy, run, caseVars, contained, boots>>

(* The process dies.  Runs and handlers under way are lost and the cases   *)
(* on record as pending are queued again; cluster and Redis keep what was  *)
(* done to them.                                                           *)
Restart ==
  /\ boots < MaxRestarts
  /\ boots' = boots + 1
  /\ run' = [r \in Runs |-> IF run[r].at \in Running THEN [run[r] EXCEPT !.at = "lost"]
                            ELSE run[r]]
  /\ queued' = {c \in Cases : status[c] = "pending"}
  /\ handler' = [c \in Cases |-> "done"]
  /\ UNCHANGED <<replicas, saved, policy, banned, status, last, noted, found, contained>>

Next ==
  \/ \E c \in Cases :
       \/ \E r \in Runs :
            \/ Approve(r, c) \/ AutoRun(r, c)
            \/ \E p \in Playbooks : Choose(r, c, p)
       \/ QueueCase(c) \/ Enrich(c) \/ EmailReturned(c) \/ Skip(c) \/ Rollback(c)
  \/ \E r \in Runs : Ban(r) \/ EndRun(r)
  \/ \E ip \in Ips : Unban(ip) \/ ManualBan(ip)
  \/ Restart

Spec == Init /\ [][Next]_vars

-----------------------------------------------------------------------------
ScalesDown(r, w) ==
  run[r].playbook \in ScalePlaybooks /\ WorkloadOf[run[r].case] = w

(* Another run of the same case.                                           *)
Doubles(q, r) == q # r /\ run[q].case = run[r].case

(* "admin must trigger POST /cases/{case_id}/rollback to restore service": *)
(* once every case with a run that scaled a Deployment down is rolled      *)
(* back, the Deployment has the replicas it had at first, unless a case    *)
(* about it was run more than once, in overlapping requests or after a     *)
(* restart.                                                                *)
RollbackRestores ==
  \A w \in Workloads :
    /\ \A r \in Runs : ScalesDown(r, w) => status[run[r].case] = "rolled_back"
    /\ \A q, r \in Runs : ScalesDown(r, w) => ~Doubles(q, r)
    => replicas[w] = Initial

(* Recovery is manual: what a run contained stays down until its case is   *)
(* rolled back, however often it is run, and whatever else is.             *)
ContainmentHolds ==
  \A r \in contained, w \in Workloads : ScalesDown(r, w) => replicas[w] = 0

(* A NetworkPolicy against an address belongs to a case that is not rolled *)
(* back, or to a run that has not ended or was cut off, or to a case whose *)
(* action says that the address could not be unblocked, or that was run    *)
(* with another playbook or address besides.  Only so can a policy remain  *)
(* when all cases about its address are rolled back.                       *)
NoOrphanPolicy ==
  \A ip \in policy :
    \E r \in Runs :
      /\ run[r].ip = ip
      /\ \/ status[run[r].case] # "rolled_back" \/ run[r].at # "ended"
         \/ run[r].case \in noted
         \/ \E q \in Runs :
              Doubles(q, r) /\ <<run[q].playbook, run[q].ip>> # <<run[r].playbook, ip>>

(* The approval page reports "Playbook đã thực thi thành công" (executed   *)
(* successfully): then its contain phase completed.                        *)
ExecutedIsContained ==
  \A c \in Cases : status[c] = "executed" => last[c] \in contained
=============================================================================
