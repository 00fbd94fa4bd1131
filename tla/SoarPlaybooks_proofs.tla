------------------------ MODULE SoarPlaybooks_proofs ------------------------
(***************************************************************************)
(* Proofs about SoarPlaybooks, for any cases, workloads, addresses, runs   *)
(* (overlapping ones included) and restarts, with every call of a run or a *)
(* rollback free to fail: no NetworkPolicy is orphaned, and, where no two  *)
(* cases are about one workload, containment holds until the rollback,     *)
(* which restores the Deployment of a case that was run once.              *)
(***************************************************************************)
EXTENDS SoarPlaybooks, TLAPS

(* No two cases are about one workload; the run playbooks_double shows     *)
(* that the last two properties need it.                                   *)
WorkloadsApart ==
  \A c, d \in Cases :
    c # d /\ WorkloadOf[c] # NoTarget => WorkloadOf[c] # WorkloadOf[d]

(* The number of replicas that a rollback without an annotation assumes is *)
(* right, or the annotation is never missing.                              *)
DefaultIsRight == Initial = 1 \/ ~K8sMayFail

-----------------------------------------------------------------------------
(* A run belongs to a case from its start on; the outcome on record, if it *)
(* can be rolled back, is that of a run of the case that has ended.        *)
RunInv ==
  /\ \A r \in Runs :
       /\ run[r].at = "unused" <=> run[r] = NoRun
       /\ run[r] # NoRun => run[r].case \in Cases /\ run[r].playbook \in Playbooks
       /\ run[r].at \in {"banning_twice", "banning"} => run[r].ip \in Ips
  /\ \A r \in contained : run[r] # NoRun
  /\ \A c \in Cases :
       status[c] \in {"executed", "rolled_back", "rollback_failed"} =>
         last[c] \in Runs /\ run[last[c]].case = c /\ run[last[c]].at = "ended"

LEMMA InitTyped == Init => TypeOK /\ RunInv
BY PlaybooksAssumption
DEF Init, TypeOK, RunInv, NoRun, Stages, Statuses, Running, NoReplicas

LEMMA ScaledTyped ==
  ASSUME TypeOK, NEW w \in Workloads, NEW ok \in BOOLEAN, Scaled(w, ok)
  PROVE  /\ replicas' \in [Workloads -> Nat]
         /\ saved' \in [Workloads -> Nat \cup {NoReplicas}]
<1>1. replicas[w] \in Nat
  BY DEF TypeOK
<1> QED
  BY <1>1 DEF TypeOK, Scaled

LEMMA RestoredTyped ==
  ASSUME TypeOK, NEW w \in Workloads, NEW ok \in BOOLEAN, Restored(w, ok)
  PROVE  replicas' \in [Workloads -> Nat]
<1>1. RestoredReplicas(w) \in Nat
  BY DEF TypeOK, RestoredReplicas, NoReplicas
<1> QED
  BY <1>1 DEF TypeOK, Restored

(* Blocking and unblocking change the policy of one address.               *)
LEMMA PolicyTyped ==
  ASSUME TypeOK, NEW ip, NEW ok \in BOOLEAN
  PROVE  /\ ip \in Ips /\ Blocked(ip, ok) => policy' \in {policy, policy \cup {ip}}
         /\ Unblocked(ip, ok) => policy' \in {policy, policy \ {ip}}
         /\ Unblocked(ip, ok) /\ ok => policy' = policy \ {ip}
BY DEF Blocked, Unblocked

(* What a new run of c does up to its first await, when its contain phase  *)
(* ends with ok; e is the run as it is then.                               *)
StartEffect(r, c, e, ok) ==
  /\ run[r] = NoRun
  /\ e \in [case : {c}, playbook : Playbooks, ip : Ips \cup {NoTarget}, at : Running]
  /\ e.at \in {"banning_twice", "banning"} => e.ip \in Ips
  /\ run' = [run EXCEPT ![r] = e]
  /\ contained' = IF ok THEN contained \cup {r} ELSE contained
  /\ UNCHANGED <<banned, status, last, noted, found, boots>>
  /\ \/ /\ e.playbook \in ScalePlaybooks /\ WorkloadOf[c] \in Workloads
        /\ Scaled(WorkloadOf[c], ok) /\ UNCHANGED policy
     \/ /\ e.playbook = "block_source_ip" /\ e.ip \in Ips
        /\ Blocked(e.ip, ok) /\ UNCHANGED <<replicas, saved>>
     \/ /\ e.playbook \in ScalePlaybooks => WorkloadOf[c] \notin Workloads
        /\ UNCHANGED <<replicas, saved, policy>>

LEMMA StartCases ==
  ASSUME NEW r \in Runs, NEW c \in Cases, NEW p \in Playbooks, StartRun(r, c, p)
  PROVE  \E ok \in BOOLEAN : \E e : StartEffect(r, c, e, ok)
<1> DEFINE w == WorkloadOf[c]
           i == IF c \in found THEN FoundIp[c] ELSE AlertIp[c]
           ban == IF i = NoTarget THEN "investigating" ELSE "banning"
           new(at) == [case |-> c, playbook |-> p, ip |-> i, at |-> at]
           at(ok, next) == IF ok THEN next ELSE "investigating"
<1>1. w \in Workloads \cup {NoTarget} /\ i \in Ips \cup {NoTarget}
  BY PlaybooksAssumption
<1>2. NoTarget \notin Workloads /\ NoTarget \notin Ips
  BY PlaybooksAssumption
<1>3. {"block_source_ip", "revoke_user_sessions"} \cap ScalePlaybooks = {}
  BY DEF ScalePlaybooks
<1>4. \A s \in Running :
        new(s) \in [case : {c}, playbook : Playbooks, ip : Ips \cup {NoTarget},
                    at : Running]
  BY <1>1
<1>5. \A ok \in BOOLEAN : /\ at(ok, ban) \in Running
                          /\ at(ok, "banning_twice") \in Running
                          /\ at(ok, "investigating") \in Running
  BY DEF Running
<1>6. \A ok \in BOOLEAN : at(ok, ban) # "banning_twice" /\ at(ok, ban) \in Running
                          /\ (at(ok, ban) = "banning" => i # NoTarget)
  BY DEF Running
<1>7. PICK ok \in BOOLEAN, next \in {"investigating", "banning", "banning_twice"} :
        /\ run[r] = NoRun
        /\ run' = [run EXCEPT ![r] = new(at(ok, next))]
        /\ contained' = IF ok THEN contained \cup {r} ELSE contained
        /\ UNCHANGED <<banned, status, last, noted, found, boots>>
        /\ next # "investigating" => i # NoTarget
        /\ \/ /\ p \in ScalePlaybooks /\ w # NoTarget
              /\ Scaled(w, ok) /\ UNCHANGED policy
           \/ /\ p = "block_source_ip" /\ i # NoTarget
              /\ Blocked(i, ok) /\ UNCHANGED <<replicas, saved>>
           \/ /\ p \in ScalePlaybooks => w = NoTarget
              /\ UNCHANGED <<replicas, saved, policy>>
  <2>1. ban \in {"investigating", "banning", "banning_twice"}
        /\ (ban # "investigating" => i # NoTarget)
    OBVIOUS
  <2> QED
    BY <1>3, <2>1, Zenon DEF StartRun
<1>8. StartEffect(r, c, new(at(ok, next)), ok)
  <2>1. at(ok, next) \in Running /\ (at(ok, next) # "investigating" => i \in Ips)
    BY <1>1, <1>7 DEF Running
  <2>2. new(at(ok, next)).at = at(ok, next) /\ new(at(ok, next)).playbook = p
        /\ new(at(ok, next)).ip = i
    OBVIOUS
  <2> HIDE DEF new, at
  <2> QED
    BY <1>1, <1>2, <1>4, <1>7, <2>1, <2>2 DEF StartEffect
<1> QED
  BY <1>8

(* Three endpoints start a run; none touches anything else but the queue   *)
(* and the place of the intake handler.                                    *)
Starts(r, c) ==
  \/ Approve(r, c) \/ AutoRun(r, c) \/ \E p \in Playbooks : Choose(r, c, p)

LEMMA StartsCases ==
  ASSUME TypeOK, NEW r \in Runs, NEW c \in Cases, Starts(r, c)
  PROVE  /\ \E ok \in BOOLEAN : \E e : StartEffect(r, c, e, ok)
         /\ queued' \subseteq Cases
         /\ handler' \in [Cases -> {"new", "recorded", "queued", "done"}]
<1>1. \E p \in Playbooks : StartRun(r, c, p)
  BY PlaybooksAssumption DEF Starts, Approve, AutoRun, Choose
<1>2. queued' \subseteq Cases
      /\ handler' \in [Cases -> {"new", "recorded", "queued", "done"}]
  BY DEF Starts, Approve, AutoRun, Choose, TypeOK
<1> QED
  BY <1>1, <1>2, StartCases

(* What a rollback that ends with ok does.                                 *)
RollbackEffect(c, ok) ==
  /\ status[c] \in {"executed", "rollback_failed"}
  /\ status' = [status EXCEPT ![c] = IF ok THEN "rolled_back" ELSE "rollback_failed"]
  /\ contained' = {r \in contained : run[r].case # c}
  /\ UNCHANGED <<saved, banned, run, last, queued, handler, found, boots>>
  /\ \/ /\ ScalesDown(last[c], WorkloadOf[c]) /\ WorkloadOf[c] \in Workloads
        /\ Restored(WorkloadOf[c], ok)
        /\ \/ /\ ok /\ run[last[c]].ip # NoTarget
              /\ \E unblocked \in BOOLEAN :
                   /\ Unblocked(run[last[c]].ip, unblocked)
                   /\ noted' = IF unblocked THEN noted ELSE noted \cup {c}
           \/ /\ ~ok \/ run[last[c]].ip = NoTarget
              /\ UNCHANGED <<policy, noted>>
     \/ /\ run[last[c]].playbook = "block_source_ip"
        /\ Unblocked(run[last[c]].ip, ok) /\ UNCHANGED <<replicas, noted>>
     \/ /\ ok => run[last[c]].playbook = "revoke_user_sessions"
        /\ run[last[c]].playbook \in ScalePlaybooks => WorkloadOf[c] \notin Workloads
        /\ UNCHANGED <<replicas, policy, noted>>

LEMMA RollbackCases ==
  ASSUME TypeOK, RunInv, NEW c \in Cases, Rollback(c)
  PROVE  /\ last[c] \in Runs /\ run[last[c]].case = c /\ run[last[c]].at = "ended"
         /\ \E ok \in BOOLEAN : RollbackEffect(c, ok)
<1>1. status[c] \in {"executed", "rollback_failed"}
  BY DEF Rollback
<1>2. last[c] \in Runs /\ run[last[c]].case = c /\ run[last[c]].at = "ended"
  BY <1>1 DEF RunInv
<1>3. WorkloadOf[c] \in Workloads \cup {NoTarget} /\ NoTarget \notin Workloads
  BY PlaybooksAssumption
<1>4. {"block_source_ip", "revoke_user_sessions"} \cap ScalePlaybooks = {}
  BY DEF ScalePlaybooks
<1>5. run[last[c]].playbook \in ScalePlaybooks => ScalesDown(last[c], WorkloadOf[c])
  BY <1>2 DEF ScalesDown
<1>6. \E ok \in BOOLEAN : RollbackEffect(c, ok)
  BY <1>1, <1>3, <1>4, <1>5, Zenon DEF Rollback, RollbackEffect
<1> QED
  BY <1>2, <1>6

(* The steps of the intake handler, of a denial, of Redis and of time      *)
(* leave the cluster, the runs and the outcomes on record alone; they may  *)
(* make a case pending or skipped.                                         *)
Quiet ==
  /\ UNCHANGED <<replicas, saved, policy, last, contained, boots>>
  /\ \A r \in Runs : /\ run'[r].case = run[r].case
                     /\ run'[r].playbook = run[r].playbook
                     /\ run'[r].ip = run[r].ip
                     /\ run'[r].at = "ended" <=> run[r].at = "ended"
  /\ \A c \in Cases :
       \/ status'[c] = status[c] /\ (c \in noted' <=> c \in noted)
       \/ status'[c] \in {"pending", "skipped"}

QuietNext ==
  \/ \E c \in Cases : QueueCase(c) \/ Enrich(c) \/ EmailReturned(c) \/ Skip(c)
  \/ \E r \in Runs : Ban(r)
  \/ \E ip \in Ips : Unban(ip) \/ ManualBan(ip)
  \/ UNCHANGED vars

LEMMA QuietSteps == TypeOK /\ RunInv /\ QuietNext => Quiet
<1> SUFFICES ASSUME TypeOK, RunInv, QuietNext PROVE Quiet
  OBVIOUS
<1> USE DEF TypeOK
<1>1. ASSUME NEW c \in Cases, QueueCase(c) PROVE Quiet
  BY <1>1 DEF QueueCase, Quiet
<1>2. ASSUME NEW c \in Cases, Enrich(c) \/ EmailReturned(c) PROVE Quiet
  BY <1>2 DEF Enrich, EmailReturned, RecordPending, Quiet
<1>3. ASSUME NEW c \in Cases, Skip(c) PROVE Quiet
  BY <1>3 DEF Skip, Quiet
<1>4. ASSUME NEW r \in Runs, Ban(r) PROVE Quiet
  BY <1>4 DEF Ban, caseVars, Quiet
<1>5. ASSUME NEW ip \in Ips, Unban(ip) \/ ManualBan(ip) PROVE Quiet
  BY <1>5 DEF Unban, ManualBan, caseVars, Quiet
<1>6. CASE UNCHANGED vars
  BY <1>6 DEF vars, caseVars, Quiet
<1> QED
  BY <1>1, <1>2, <1>3, <1>4, <1>5, <1>6 DEF QuietNext

(* Every step is quiet, or one of these.                                   *)
LEMMA NextSteps ==
  ASSUME [Next]_vars
  PROVE  \/ \E r \in Runs, c \in Cases : Starts(r, c)
         \/ \E r \in Runs : EndRun(r)
         \/ \E c \in Cases : Rollback(c)
         \/ Restart
         \/ QuietNext
BY Zenon DEF Next, Starts, QuietNext

-----------------------------------------------------------------------------
LEMMA StepTyped == TypeOK /\ RunInv /\ [Next]_vars => TypeOK'
<1> SUFFICES ASSUME TypeOK, RunInv, [Next]_vars PROVE TypeOK'
  OBVIOUS
<1>1. ASSUME NEW r \in Runs, NEW c \in Cases, Starts(r, c) PROVE TypeOK'
  <2>1. PICK ok \in BOOLEAN : \E e : StartEffect(r, c, e, ok)
    BY <1>1, StartsCases
  <2>2. PICK e : StartEffect(r, c, e, ok)
    BY <2>1
  <2>3. /\ replicas' \in [Workloads -> Nat]
        /\ saved' \in [Workloads -> Nat \cup {NoReplicas}]
    BY <2>2, ScaledTyped DEF StartEffect, TypeOK
  <2>4. policy' \subseteq Ips
    BY <2>2, PolicyTyped DEF StartEffect, TypeOK
  <2>5. /\ queued' \subseteq Cases
        /\ handler' \in [Cases -> {"new", "recorded", "queued", "done"}]
    BY <1>1, StartsCases
  <2>6. run' \in [Runs -> [case : Cases \cup {NoTarget}, playbook : Playbooks \cup {NoTarget},
                           ip : Ips \cup {NoTarget}, at : Stages]]
    BY <2>2 DEF StartEffect, TypeOK, Stages
  <2> QED
    BY <2>2, <2>3, <2>4, <2>5, <2>6 DEF StartEffect, TypeOK
<1>2. ASSUME NEW r \in Runs, EndRun(r) PROVE TypeOK'
  <2>1. run[r].case \in Cases
    BY <1>2 DEF EndRun, RunInv, NoRun
  <2>2. policy' \subseteq Ips
    BY <1>2, PolicyTyped DEF EndRun, TypeOK
  <2> QED
    BY <1>2, <2>1, <2>2 DEF EndRun, TypeOK, Stages, Statuses
<1>3. ASSUME NEW c \in Cases, Rollback(c) PROVE TypeOK'
  <2>1. PICK ok \in BOOLEAN : RollbackEffect(c, ok)
    BY <1>3, RollbackCases
  <2>2. replicas' \in [Workloads -> Nat]
    BY <2>1, RestoredTyped DEF RollbackEffect, TypeOK
  <2>3. policy' \subseteq Ips
    BY <2>1, PolicyTyped DEF RollbackEffect, TypeOK
  <2>4. noted' \subseteq Cases
    BY <2>1 DEF RollbackEffect, TypeOK
  <2> QED
    BY <2>1, <2>2, <2>3, <2>4 DEF RollbackEffect, TypeOK, Statuses
<1>4. CASE Restart
  <2>1. run' \in [Runs -> [case : Cases \cup {NoTarget}, playbook : Playbooks \cup {NoTarget},
                          ip : Ips \cup {NoTarget}, at : Stages]]
    BY <1>4 DEF Restart, TypeOK, Stages
  <2> QED
    BY <1>4, <2>1, PlaybooksAssumption DEF Restart, TypeOK
<1>5. ASSUME NEW c \in Cases, QueueCase(c) PROVE TypeOK'
  BY <1>5 DEF QueueCase, TypeOK
<1>6. ASSUME NEW c \in Cases, Enrich(c) \/ EmailReturned(c) PROVE TypeOK'
  BY <1>6 DEF Enrich, EmailReturned, RecordPending, TypeOK, Statuses
<1>7. ASSUME NEW c \in Cases, Skip(c) PROVE TypeOK'
  BY <1>7 DEF Skip, TypeOK, Statuses
<1>8. ASSUME NEW r \in Runs, Ban(r) PROVE TypeOK'
  <2>1. run[r].ip \in Ips
    BY <1>8 DEF Ban, RunInv
  <2> QED
    BY <1>8, <2>1 DEF Ban, caseVars, TypeOK, Stages, Running
<1>9. ASSUME NEW ip \in Ips, Unban(ip) \/ ManualBan(ip) PROVE TypeOK'
  BY <1>9 DEF Unban, ManualBan, caseVars, TypeOK
<1>10. CASE UNCHANGED vars
  BY <1>10 DEF vars, caseVars, TypeOK
<1> QED
  BY <1>1, <1>2, <1>3, <1>4, <1>5, <1>6, <1>7, <1>8, <1>9, <1>10, NextSteps
  DEF QuietNext

LEMMA StepRuns == TypeOK /\ RunInv /\ [Next]_vars => RunInv'
<1> SUFFICES ASSUME TypeOK, RunInv, [Next]_vars PROVE RunInv'
  OBVIOUS
<1> USE DEF TypeOK
<1>1. ASSUME NEW r \in Runs, NEW c \in Cases, Starts(r, c) PROVE RunInv'
  <2>1. PICK ok \in BOOLEAN : \E e : StartEffect(r, c, e, ok)
    BY <1>1, StartsCases
  <2>2. PICK e : StartEffect(r, c, e, ok)
    BY <2>1
  <2>3. e # NoRun /\ e.at \notin {"unused", "ended"}
    BY <2>2 DEF StartEffect, NoRun, Running
  <2>4. run'[r] = e /\ \A q \in Runs \ {r} : run'[q] = run[q]
    BY <2>2 DEF StartEffect
  <2>5. run[r].at # "ended"
    BY <2>2 DEF StartEffect, NoRun
  <2>6. e.case = c /\ e.playbook \in Playbooks
        /\ (e.at \in {"banning_twice", "banning"} => e.ip \in Ips)
    BY <2>2 DEF StartEffect
  <2>7. status' = status /\ last' = last /\ contained' \subseteq contained \cup {r}
    BY <2>2 DEF StartEffect
  <2> QED
    BY <2>3, <2>4, <2>5, <2>6, <2>7 DEF RunInv
<1>2. ASSUME NEW r \in Runs, EndRun(r) PROVE RunInv'
  <2>1. run[r].at = "investigating" /\ run[r] # NoRun /\ run[r].case \in Cases
    BY <1>2 DEF EndRun, RunInv, NoRun
  <2>2. /\ run'[r] = [run[r] EXCEPT !.at = "ended"]
        /\ \A q \in Runs \ {r} : run'[q] = run[q]
        /\ run'[r] # NoRun /\ run'[r].case = run[r].case
        /\ run'[r].playbook = run[r].playbook /\ run'[r].at = "ended"
    BY <1>2 DEF EndRun, NoRun
  <2>3. /\ status' = [status EXCEPT ![run[r].case] = "executed"]
        /\ last' = [last EXCEPT ![run[r].case] = r]
        /\ contained' = contained
    BY <1>2 DEF EndRun
  <2> QED
    BY <2>1, <2>2, <2>3 DEF RunInv
<1>3. ASSUME NEW c \in Cases, Rollback(c) PROVE RunInv'
  <2>1. PICK ok \in BOOLEAN : RollbackEffect(c, ok)
    BY <1>3, RollbackCases
  <2> QED
    BY <1>3, <2>1, RollbackCases DEF RollbackEffect, RunInv
<1>4. CASE Restart
  <2>1. \A q \in Runs : \/ run'[q] = run[q]
                        \/ /\ run[q].at \in Running /\ run'[q].at = "lost"
                           /\ run'[q].case = run[q].case
                           /\ run'[q].playbook = run[q].playbook
    BY <1>4 DEF Restart
  <2>2. \A q \in Runs : /\ run[q].at \in Running => run[q] # NoRun
                        /\ run'[q].at = "lost" => run'[q] # NoRun
    BY DEF NoRun, Running
  <2>3. UNCHANGED <<status, last, contained>>
    BY <1>4 DEF Restart
  <2> QED
    BY <2>1, <2>2, <2>3 DEF RunInv, Running
<1>5. ASSUME NEW r \in Runs, Ban(r) PROVE RunInv'
  <2>1. /\ run[r].at \in {"banning_twice", "banning"}
        /\ UNCHANGED <<status, last, contained>>
    BY <1>5 DEF Ban, caseVars
  <2>2. /\ run'[r].case = run[r].case /\ run'[r].playbook = run[r].playbook
        /\ run'[r].ip = run[r].ip /\ run'[r].at \in {"banning", "investigating"}
        /\ \A q \in Runs \ {r} : run'[q] = run[q]
    BY <1>5 DEF Ban
  <2>3. run'[r] # NoRun
    BY <2>2 DEF NoRun
  <2> QED
    BY <2>1, <2>2, <2>3 DEF RunInv, NoRun
<1>6. ASSUME NEW c \in Cases, QueueCase(c) \/ Enrich(c) \/ EmailReturned(c) \/ Skip(c)
      PROVE  RunInv'
  BY <1>6 DEF QueueCase, Enrich, EmailReturned, RecordPending, Skip, RunInv
<1>7. ASSUME NEW ip \in Ips, Unban(ip) \/ ManualBan(ip) PROVE RunInv'
  BY <1>7 DEF Unban, ManualBan, caseVars, RunInv
<1>8. CASE UNCHANGED vars
  BY <1>8 DEF vars, caseVars, RunInv
<1> QED
  BY <1>1, <1>2, <1>3, <1>4, <1>5, <1>6, <1>7, <1>8, NextSteps DEF QuietNext

(* Deployments, policies, runs and cases keep their types.                 *)
THEOREM Typing == Spec => []TypeOK
<1> QED
  BY InitTyped, StepTyped, StepRuns, PTL DEF Spec

-----------------------------------------------------------------------------
(* A run that may have blocked its address, and whether its case has been  *)
(* run in another way as well.                                             *)
Blocks(r) == run[r].playbook \in ScalePlaybooks \cup {"block_source_ip"}

Varied(r) ==
  \E q \in Runs :
    Doubles(q, r) /\ <<run[q].playbook, run[q].ip>> # <<run[r].playbook, run[r].ip>>

(* NoOrphanPolicy is not inductive: a run that never blocked its address   *)
(* may be the one that accounts for a policy, and the rollback of its case *)
(* leaves the policy where it is.                                          *)
Accounts(r, ip) ==
  /\ run[r].ip = ip /\ Blocks(r)
  /\ \/ status[run[r].case] # "rolled_back" \/ run[r].at # "ended"
     \/ run[r].case \in noted \/ Varied(r)

PolicyInv == \A ip \in policy : \E r \in Runs : Accounts(r, ip)

(* A run that has begun keeps its case, its playbook and its address, and  *)
(* so what can be said of it and of its doubles.                           *)
Kept(r) ==
  /\ run'[r].case = run[r].case /\ run'[r].playbook = run[r].playbook
  /\ run'[r].ip = run[r].ip

LEMMA RunsKept ==
  ASSUME TypeOK, RunInv, [Next]_vars, NEW r \in Runs, run[r] # NoRun
  PROVE  Kept(r)
<1>1. ASSUME NEW q \in Runs, NEW c \in Cases, Starts(q, c) PROVE Kept(r)
  BY <1>1, StartsCases DEF StartEffect, Kept, TypeOK
<1>2. ASSUME NEW q \in Runs, EndRun(q) PROVE Kept(r)
  BY <1>2 DEF EndRun, Kept, TypeOK
<1>3. ASSUME NEW c \in Cases, Rollback(c) PROVE Kept(r)
  BY <1>3 DEF Rollback, Kept
<1>4. CASE Restart
  BY <1>4 DEF Restart, Kept
<1>5. CASE QuietNext
  BY <1>5, QuietSteps DEF Quiet, Kept
<1> QED
  BY <1>1, <1>2, <1>3, <1>4, <1>5, NextSteps

LEMMA DoublesKept ==
  ASSUME TypeOK, RunInv, [Next]_vars, NEW r \in Runs, run[r] # NoRun
  PROVE  /\ \A q \in Runs : Doubles(q, r) => Doubles(q, r)'
         /\ Varied(r) => Varied(r)'
<1>1. ASSUME NEW q \in Runs, Doubles(q, r) PROVE Doubles(q, r)' /\ Kept(q)
  <2>1. run[q] # NoRun
    BY <1>1, PlaybooksAssumption DEF RunInv, Doubles, NoRun
  <2> QED
    BY <1>1, <2>1, RunsKept DEF Kept, Doubles
<1>2. ASSUME NEW q \in Runs, Doubles(q, r),
             <<run[q].playbook, run[q].ip>> # <<run[r].playbook, run[r].ip>>
      PROVE  Varied(r)'
  BY <1>1, <1>2, RunsKept DEF Kept, Varied
<1> QED
  BY <1>1, <1>2 DEF Varied

(* A run that accounts for an address goes on doing so, unless the         *)
(* rollback of its case has just removed the policy.                       *)
LEMMA StepOwned == TypeOK /\ RunInv /\ PolicyInv /\ [Next]_vars => PolicyInv'
<1> SUFFICES ASSUME TypeOK, RunInv, PolicyInv, [Next]_vars, NEW ip \in policy'
             PROVE  \E r \in Runs : Accounts(r, ip)'
  BY DEF PolicyInv
<1>1. ASSUME NEW r \in Runs, Blocks(r) PROVE run[r] # NoRun
  <2>1. NoTarget \notin ScalePlaybooks \cup {"block_source_ip"}
    BY DEF NoTarget, ScalePlaybooks
  <2> QED
    BY <1>1, <2>1 DEF Blocks, NoRun
<1>2. ASSUME NEW r \in Runs, Accounts(r, ip),
             \/ status[run[r].case] # "rolled_back" =>
                  status'[run[r].case] # "rolled_back"
             \/ Varied(r),
             run[r].at # "ended" => \/ run'[r].at # "ended"
                                    \/ status'[run[r].case] # "rolled_back",
             run[r].case \in noted => \/ run[r].case \in noted'
                                      \/ status'[run[r].case] # "rolled_back"
      PROVE  Accounts(r, ip)'
  <2>1. run[r] # NoRun
    BY <1>1, <1>2 DEF Accounts
  <2> QED
    BY <1>2, <2>1, RunsKept, DoublesKept DEF Accounts, Blocks, Kept
<1>3. ASSUME NEW r \in Runs, NEW c \in Cases, Starts(r, c)
      PROVE  \E d \in Runs : Accounts(d, ip)'
  <2>1. PICK ok \in BOOLEAN : \E e : StartEffect(r, c, e, ok)
    BY <1>3, StartsCases
  <2>2. PICK e : StartEffect(r, c, e, ok)
    BY <2>1
  <2>3. CASE ip \in policy
    <3>1. PICK d \in Runs : Accounts(d, ip)
      BY <2>3 DEF PolicyInv
    <3>2. d # r
      BY <1>1, <2>2, <3>1 DEF StartEffect, Accounts
    <3>3. run'[d] = run[d] /\ status' = status /\ noted' = noted
      BY <2>2, <3>2 DEF StartEffect, TypeOK
    <3> QED
      BY <1>2, <3>1, <3>3
  <2>4. CASE ip \notin policy
    <3>1. e.playbook = "block_source_ip" /\ e.ip = ip
      BY <2>2, <2>4, PolicyTyped DEF StartEffect
    <3>2. run'[r] = e /\ e.at # "ended"
      BY <2>2 DEF StartEffect, TypeOK, Running
    <3> QED
      BY <3>1, <3>2 DEF Accounts, Blocks
  <2> QED
    BY <2>3, <2>4
<1>4. ASSUME NEW r \in Runs, EndRun(r) PROVE \E d \in Runs : Accounts(d, ip)'
  <2>1. run[r].case \in Cases /\ run[r] # NoRun
    BY <1>4 DEF EndRun, RunInv, NoRun
  <2>2. /\ status' = [status EXCEPT ![run[r].case] = "executed"]
        /\ noted' = noted \ {run[r].case}
        /\ \A d \in Runs \ {r} : run'[d] = run[d]
    BY <1>4 DEF EndRun, TypeOK
  <2>3. CASE ip \in policy
    <3>1. PICK d \in Runs : Accounts(d, ip)
      BY <2>3 DEF PolicyInv
    <3>2. run[d].case \in Cases
      BY <1>1, <3>1 DEF Accounts, RunInv
    <3>3. status'[run[r].case] = "executed"
          /\ (run[d].case # run[r].case =>
                status'[run[d].case] = status[run[d].case])
      BY <2>1, <2>2, <3>2 DEF TypeOK
    <3>4. CASE run[d].case = run[r].case
      <4>1. status'[run[d].case] # "rolled_back"
        BY <3>3, <3>4
      <4> QED
        BY <1>2, <3>1, <4>1
    <3>5. CASE run[d].case # run[r].case
      <4>1. run'[d] = run[d] /\ status'[run[d].case] = status[run[d].case]
            /\ (run[d].case \in noted => run[d].case \in noted')
        BY <2>2, <3>3, <3>5
      <4> QED
        BY <1>2, <3>1, <4>1
    <3> QED
      BY <3>4, <3>5
  <2>4. CASE ip \notin policy
    <3>1. run[r].playbook \in ScalePlaybooks /\ run[r].ip = ip
      <4>1. \/ policy' = policy
            \/ /\ run[r].playbook \in ScalePlaybooks
               /\ \E ok \in BOOLEAN : Blocked(run[r].ip, ok)
        BY <1>4, Zenon DEF EndRun
      <4>2. policy' # policy /\ ip \in policy'
        BY <2>4
      <4> QED
        BY <2>4, <4>1, <4>2 DEF Blocked
    <3>2. Kept(r) /\ status'[run[r].case] # "rolled_back"
      BY <2>1, <2>2, RunsKept DEF TypeOK
    <3> QED
      BY <3>1, <3>2 DEF Accounts, Blocks, Kept
  <2> QED
    BY <2>3, <2>4
<1>5. ASSUME NEW c \in Cases, Rollback(c) PROVE \E d \in Runs : Accounts(d, ip)'
  <2>1. PICK ok \in BOOLEAN : RollbackEffect(c, ok)
    BY <1>5, RollbackCases
  <2>2. last[c] \in Runs /\ run[last[c]].case = c
    BY <1>5, RollbackCases
  <2>3. ip \in policy
    BY <2>1, PolicyTyped DEF RollbackEffect
  <2>4. PICK d \in Runs : Accounts(d, ip)
    BY <2>3 DEF PolicyInv
  <2>5. run' = run /\ noted \subseteq noted'
        /\ (~ok => status'[c] # "rolled_back")
        /\ \A e \in Cases \ {c} : status'[e] = status[e]
    BY <2>1 DEF RollbackEffect, TypeOK
  <2>6. run[d].case \in Cases
    BY <1>1, <2>4 DEF Accounts, RunInv
  <2>7. CASE run[d].case # c \/ Varied(d) \/ ~ok
    BY <1>2, <2>4, <2>5, <2>6, <2>7
  <2>8. CASE run[d].case = c /\ ~Varied(d) /\ ok
    <3>1. run[last[c]].playbook = run[d].playbook /\ run[last[c]].ip = ip
      BY <2>2, <2>4, <2>8 DEF Accounts, Varied, Doubles
    <3>2. ip # NoTarget
      BY <2>3, PlaybooksAssumption DEF TypeOK
    <3>3. Blocks(last[c]) /\ run[last[c]].playbook # "revoke_user_sessions"
      BY <2>4, <3>1 DEF Accounts, Blocks, ScalePlaybooks
    <3>4. c \in noted'
      BY <2>1, <2>8, <3>1, <3>2, <3>3, PolicyTyped DEF RollbackEffect
    <3> QED
      BY <2>4, <2>5, <2>8, <3>4 DEF Accounts, Blocks
  <2> QED
    BY <2>7, <2>8
<1>6. CASE Restart
  <2>1. PICK d \in Runs : Accounts(d, ip)
    BY <1>6 DEF PolicyInv, Restart
  <2>2. status' = status /\ noted' = noted
        /\ (run[d].at # "ended" => run'[d].at # "ended")
    BY <1>6 DEF Restart
  <2> QED
    BY <1>2, <2>1, <2>2
<1>7. CASE QuietNext
  <2>1. PICK d \in Runs : Accounts(d, ip)
    BY <1>7, QuietSteps DEF PolicyInv, Quiet
  <2>2. run[d].case \in Cases
    BY <1>1, <2>1 DEF Accounts, RunInv
  <2> QED
    BY <1>2, <1>7, <2>1, <2>2, QuietSteps DEF Quiet
<1> QED
  BY <1>3, <1>4, <1>5, <1>6, <1>7, NextSteps

(* Whatever fails, overlaps, is cut off, run again or rolled back, a       *)
(* NetworkPolicy is left behind only for the reasons that NoOrphanPolicy   *)
(* names.                                                                  *)
THEOREM NoPolicyIsOrphaned == Spec => []NoOrphanPolicy
<1>1. Init => PolicyInv
  BY DEF Init, PolicyInv
<1>2. PolicyInv => NoOrphanPolicy
  BY DEF PolicyInv, NoOrphanPolicy, Accounts, Varied
<1> QED
  BY <1>1, <1>2, InitTyped, StepTyped, StepRuns, StepOwned, PTL DEF Spec

-----------------------------------------------------------------------------
LEMMA ScalersRun ==
  ASSUME RunInv, NEW r \in Runs, NEW w, ScalesDown(r, w)
  PROVE  run[r] # NoRun /\ run[r].case \in Cases /\ WorkloadOf[run[r].case] = w
<1>1. NoTarget \notin ScalePlaybooks
  BY DEF NoTarget, ScalePlaybooks
<1> QED
  BY <1>1 DEF ScalesDown, RunInv, NoRun

LEMMA ScalersKept ==
  ASSUME TypeOK, RunInv, [Next]_vars, NEW r \in Runs, run[r] # NoRun, NEW w
  PROVE  ScalesDown(r, w)' <=> ScalesDown(r, w)
BY RunsKept DEF Kept, ScalesDown

LEMMA StepContained ==
  WorkloadsApart /\ TypeOK /\ RunInv /\ ContainmentHolds /\ [Next]_vars
    => ContainmentHolds'
<1> SUFFICES ASSUME WorkloadsApart, TypeOK, RunInv, ContainmentHolds, [Next]_vars,
                    NEW r \in contained', NEW w \in Workloads, ScalesDown(r, w)'
             PROVE  replicas'[w] = 0
  BY DEF ContainmentHolds
<1> USE DEF TypeOK
<1>1. ASSUME r \in contained PROVE replicas[w] = 0 /\ ScalesDown(r, w)
  BY <1>1, ScalersKept DEF ContainmentHolds, RunInv
<1>2. ASSUME NEW q \in Runs, NEW c \in Cases, Starts(q, c) PROVE replicas'[w] = 0
  <2>1. PICK ok \in BOOLEAN : \E e : StartEffect(q, c, e, ok)
    BY <1>2, StartsCases
  <2>2. PICK e : StartEffect(q, c, e, ok)
    BY <2>1
  <2>3. CASE r \in contained
    BY <1>1, <2>2, <2>3 DEF StartEffect, Scaled
  <2>4. CASE r \notin contained
    <3>1. ok /\ r = q /\ run'[r] = e
      BY <2>2, <2>4 DEF StartEffect
    <3>2. e.playbook \in ScalePlaybooks /\ WorkloadOf[c] = w
      BY <2>2, <3>1 DEF StartEffect, ScalesDown
    <3>3. Scaled(w, ok)
      BY <2>2, <3>2 DEF StartEffect, ScalePlaybooks
    <3> QED
      BY <3>1, <3>3 DEF Scaled
  <2> QED
    BY <2>3, <2>4
<1>3. ASSUME NEW q \in Runs, EndRun(q) PROVE replicas'[w] = 0
  BY <1>1, <1>3 DEF EndRun
<1>4. ASSUME NEW c \in Cases, Rollback(c) PROVE replicas'[w] = 0
  <2>1. PICK ok \in BOOLEAN : RollbackEffect(c, ok)
    BY <1>4, RollbackCases
  <2>2. r \in contained /\ run[r].case # c
    BY <2>1 DEF RollbackEffect
  <2>3. run[r].case \in Cases /\ WorkloadOf[run[r].case] = w /\ w # NoTarget
    BY <1>1, <2>2, ScalersRun, PlaybooksAssumption
  <2>4. WorkloadOf[c] # w
    BY <2>2, <2>3 DEF WorkloadsApart
  <2> QED
    BY <1>1, <2>1, <2>2, <2>4 DEF RollbackEffect, Restored
<1>5. CASE Restart
  BY <1>1, <1>5 DEF Restart
<1>6. CASE QuietNext
  BY <1>1, <1>6, QuietSteps DEF Quiet
<1> QED
  BY <1>2, <1>3, <1>4, <1>5, <1>6, NextSteps

(* What a run contained stays down until its case is rolled back.          *)
THEOREM ContainmentLasts == ASSUME WorkloadsApart PROVE Spec => []ContainmentHolds
<1>1. Init => ContainmentHolds
  BY DEF Init, ContainmentHolds
<1>2. TypeOK /\ RunInv /\ ContainmentHolds /\ [Next]_vars => ContainmentHolds'
  BY StepContained
<1> QED
  BY <1>1, <1>2, InitTyped, StepTyped, StepRuns, PTL DEF Spec

-----------------------------------------------------------------------------
(* A case that scales w was run more than once.                            *)
Repeated(w) == \E q, r \in Runs : ScalesDown(r, w) /\ Doubles(q, r)

(* Elsewhere a Deployment is at its number or at 0, its annotation is      *)
(* missing or right, and if either has changed there is a run that scaled  *)
(* it, of a case not rolled back if the Deployment is not at its number.   *)
RestoreInv(w) ==
  /\ saved[w] \in {NoReplicas, Initial}
  /\ saved[w] = NoReplicas => replicas[w] = Initial
  /\ replicas[w] # Initial =>
       \E r \in Runs : ScalesDown(r, w) /\ status[run[r].case] # "rolled_back"
  /\ saved[w] # NoReplicas => \E r \in Runs : ScalesDown(r, w)
  /\ ~K8sMayFail => \A r \in Runs : ScalesDown(r, w) => saved[w] = Initial

RestoresInv == \A w \in Workloads : ~Repeated(w) => RestoreInv(w)

(* A step that leaves the Deployment alone, begins no run and rolls back   *)
(* no case that scaled it.                                                 *)
LEMMA RestoreKept ==
  ASSUME TypeOK, RunInv, [Next]_vars, NEW w \in Workloads, RestoreInv(w),
         replicas'[w] = replicas[w], saved'[w] = saved[w],
         \A r \in Runs : run[r] = NoRun => run'[r] = NoRun \/ ~ScalesDown(r, w)',
         \A r \in Runs : ScalesDown(r, w) /\ status[run[r].case] # "rolled_back" =>
           status'[run[r].case] # "rolled_back"
  PROVE  RestoreInv(w)'
<1>1. \A r \in Runs : ScalesDown(r, w)' <=> ScalesDown(r, w)
  <2>1. NoTarget \notin ScalePlaybooks
    BY DEF NoTarget, ScalePlaybooks
  <2> QED
    BY <2>1, ScalersKept DEF ScalesDown, NoRun
<1>2. \A r \in Runs : ScalesDown(r, w) => run'[r].case = run[r].case
  BY RunsKept, ScalersRun DEF Kept
<1> QED
  BY <1>1, <1>2 DEF RestoreInv

LEMMA StepRestores ==
  WorkloadsApart /\ DefaultIsRight /\ TypeOK /\ RunInv /\ RestoresInv /\ [Next]_vars
    => RestoresInv'
<1> SUFFICES ASSUME WorkloadsApart, DefaultIsRight, TypeOK, RunInv, RestoresInv,
                    [Next]_vars, NEW w \in Workloads, ~Repeated(w)'
             PROVE  RestoreInv(w)'
  BY DEF RestoresInv
<1> USE DEF TypeOK
<1>1. ~Repeated(w)
  BY ScalersRun, ScalersKept, DoublesKept DEF Repeated
<1>2. RestoreInv(w)
  BY <1>1 DEF RestoresInv
<1>3. ASSUME NEW q \in Runs, NEW c \in Cases, Starts(q, c) PROVE RestoreInv(w)'
  <2>1. PICK ok \in BOOLEAN : \E e : StartEffect(q, c, e, ok)
    BY <1>3, StartsCases
  <2>2. PICK e : StartEffect(q, c, e, ok)
    BY <2>1
  <2>3. /\ run[q] = NoRun /\ run'[q] = e /\ e.case = c /\ status' = status
        /\ \A r \in Runs \ {q} : run'[r] = run[r]
    BY <2>2 DEF StartEffect
  <2>4. CASE e.playbook \in ScalePlaybooks /\ WorkloadOf[c] = w
    <3>1. ScalesDown(q, w)'
      BY <2>3, <2>4 DEF ScalesDown
    <3>2. \A r \in Runs \ {q} : run[r].case # c
      BY <2>3, <3>1 DEF Repeated, Doubles
    <3>3. \A r \in Runs : ~ScalesDown(r, w)
      <4>1. SUFFICES ASSUME NEW r \in Runs, ScalesDown(r, w) PROVE FALSE
        OBVIOUS
      <4>2. r # q /\ run[r].case \in Cases /\ WorkloadOf[run[r].case] = w
        BY <2>3, <4>1, ScalersRun
      <4> QED
        BY <2>4, <3>2, <4>2, PlaybooksAssumption DEF WorkloadsApart
    <3>4. saved[w] = NoReplicas /\ replicas[w] = Initial
      BY <1>2, <3>3 DEF RestoreInv
    <3>5. Scaled(w, ok)
      BY <2>2, <2>4 DEF StartEffect, ScalePlaybooks
    <3>6. /\ saved'[w] \in {NoReplicas, Initial}
          /\ saved'[w] = NoReplicas => replicas'[w] = Initial
          /\ ~K8sMayFail => saved'[w] = Initial
      BY <3>4, <3>5, PlaybooksAssumption DEF Scaled, NoReplicas
    <3>7. status'[run'[q].case] # "rolled_back"
      <4>1. SUFFICES ASSUME status[c] = "rolled_back" PROVE FALSE
        BY <2>3
      <4>2. last[c] \in Runs /\ run[last[c]].case = c /\ run[last[c]].at = "ended"
        BY <4>1 DEF RunInv
      <4> QED
        BY <2>3, <3>2, <4>2 DEF NoRun
    <3> QED
      BY <3>1, <3>6, <3>7 DEF RestoreInv
  <2>5. CASE e.playbook \notin ScalePlaybooks \/ WorkloadOf[c] # w
    <3>1. replicas'[w] = replicas[w] /\ saved'[w] = saved[w]
      BY <2>2, <2>5 DEF StartEffect, Scaled
    <3>2. ~ScalesDown(q, w)'
      BY <2>3, <2>5 DEF ScalesDown
    <3> QED
      BY <1>2, <2>3, <3>1, <3>2, RestoreKept
  <2> QED
    BY <2>4, <2>5
<1>4. ASSUME NEW r \in Runs, EndRun(r) PROVE RestoreInv(w)'
  <2>1. run[r] # NoRun /\ run[r].case \in Cases
    BY <1>4 DEF EndRun, RunInv, NoRun
  <2>2. /\ UNCHANGED <<replicas, saved>>
        /\ status' = [status EXCEPT ![run[r].case] = "executed"]
        /\ \A q \in Runs \ {r} : run'[q] = run[q]
    BY <1>4 DEF EndRun
  <2>3. \A q \in Runs : ScalesDown(q, w) => run[q].case \in Cases
    BY ScalersRun
  <2> QED
    BY <1>2, <2>1, <2>2, <2>3, RestoreKept
<1>5. ASSUME NEW c \in Cases, Rollback(c) PROVE RestoreInv(w)'
  <2>1. PICK ok \in BOOLEAN : RollbackEffect(c, ok)
    BY <1>5, RollbackCases
  <2>2. last[c] \in Runs /\ run[last[c]].case = c
    BY <1>5, RollbackCases
  <2>3. /\ run' = run /\ saved' = saved
        /\ ~ok => status'[c] # "rolled_back"
        /\ \A d \in Cases \ {c} : status'[d] = status[d]
    BY <2>1 DEF RollbackEffect
  <2>4. CASE ScalesDown(last[c], w)
    <3>1. WorkloadOf[c] = w
      BY <2>2, <2>4 DEF ScalesDown
    <3>2. Restored(w, ok)
      BY <2>1, <2>4, <3>1 DEF RollbackEffect, ScalesDown, ScalePlaybooks
    <3>3. RestoredReplicas(w) = Initial
      <4>1. saved[w] = NoReplicas => Initial = 1
        <5>1. ~K8sMayFail => saved[w] = Initial
          BY <1>2, <2>2, <2>4 DEF RestoreInv
        <5>2. Initial # NoReplicas
          BY PlaybooksAssumption DEF NoReplicas
        <5> QED
          BY <5>1, <5>2, Zenon DEF DefaultIsRight
      <4>2. saved[w] \in {NoReplicas, Initial}
        BY <1>2 DEF RestoreInv
      <4> QED
        BY <4>1, <4>2 DEF RestoredReplicas
    <3>4. replicas'[w] \in {replicas[w], Initial} /\ (ok => replicas'[w] = Initial)
      BY <3>2, <3>3 DEF Restored
    <3>5. \A r \in Runs : ScalesDown(r, w)' <=> ScalesDown(r, w)
      BY <2>3 DEF ScalesDown
    <3>6. \A r \in Runs : ScalesDown(r, w) => run[r].case \in Cases
      BY ScalersRun
    <3> QED
      BY <1>2, <2>2, <2>3, <2>4, <3>4, <3>5, <3>6 DEF RestoreInv
  <2>5. CASE ~ScalesDown(last[c], w)
    <3>1. \A r \in Runs : ScalesDown(r, w) => run[r].case \in Cases \ {c}
      BY <1>1, <2>2, <2>5, ScalersRun DEF Repeated, Doubles
    <3>2. replicas'[w] = replicas[w]
      BY <2>1, <2>5 DEF RollbackEffect, Restored
    <3> QED
      BY <1>2, <2>3, <3>1, <3>2, RestoreKept
  <2> QED
    BY <2>4, <2>5
<1>6. CASE Restart
  <2>1. UNCHANGED <<replicas, saved, status>>
        /\ \A r \in Runs : run[r] = NoRun => run'[r] = run[r]
    BY <1>6 DEF Restart, NoRun, Running
  <2> QED
    BY <1>2, <2>1, RestoreKept
<1>7. CASE QuietNext
  <2>1. Quiet
    BY <1>7, QuietSteps
  <2>2. \A r \in Runs : run[r] = NoRun => ~ScalesDown(r, w)'
    <3>1. NoTarget \notin ScalePlaybooks
      BY DEF NoTarget, ScalePlaybooks
    <3> QED
      BY <2>1, <3>1 DEF Quiet, ScalesDown, NoRun
  <2>3. \A r \in Runs : ScalesDown(r, w) => run[r].case \in Cases
    BY ScalersRun
  <2> QED
    BY <1>2, <2>1, <2>2, <2>3, RestoreKept DEF Quiet
<1> QED
  BY <1>3, <1>4, <1>5, <1>6, <1>7, NextSteps

(* Once every case that scaled a Deployment down is rolled back, and none  *)
(* of them was run more than once, the Deployment has the replicas it had. *)
THEOREM RollbackUndoes ==
  ASSUME WorkloadsApart, DefaultIsRight PROVE Spec => []RollbackRestores
<1>1. Init => RestoresInv
  <2>1. NoTarget \notin ScalePlaybooks
    BY DEF NoTarget, ScalePlaybooks
  <2> QED
    BY <2>1 DEF Init, RestoresInv, RestoreInv, ScalesDown, NoRun
<1>2. RestoresInv => RollbackRestores
  BY DEF RestoresInv, RestoreInv, RollbackRestores, Repeated
<1>3. TypeOK /\ RunInv /\ RestoresInv /\ [Next]_vars => RestoresInv'
  BY StepRestores
<1> QED
  BY <1>1, <1>2, <1>3, InitTyped, StepTyped, StepRuns, PTL DEF Spec
=============================================================================
