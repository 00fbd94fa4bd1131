----------------------------- MODULE Blocklist -----------------------------
(***************************************************************************)
(* The bans soar-engine keeps in Redis for one address: a key that expires *)
(* (the gateway looks at it alone) and a member of a set (the list the     *)
(* administrator sees).  Blocking, unblocking and listing are each several *)
(* calls to Redis, and an error ends any of them with a line in the log:   *)
(* redis_block_ip, redis_unblock_ip, redis_get_blocked_ips.                *)
(***************************************************************************)
EXTENDS FiniteSets

CONSTANTS
  Blocks,    \* calls that ban the address: playbooks and the manual ban
  Unblocks,  \* calls of DELETE /blocked-ips/{ip}
  Lists      \* calls of GET /blocked-ips

Parameters == Unblocks \cap (Blocks \cup Lists) = {}

VARIABLES
  stage,   \* stage[h]: the call to Redis handler h is at
  banned,  \* ztlab:blocked_ip:<ip> exists
  listed,  \* the address is in the set of the banned
  failed,  \* history: handlers a call of which failed
  before   \* history: before[h], the handlers over when h started

vars == <<stage, banned, listed, failed, before>>

Handlers == Blocks \cup Unblocks \cup Lists

TypeOK ==
  /\ stage \in [Handlers -> {"idle", "first", "get", "second", "over"}]
  /\ banned \in BOOLEAN /\ listed \in BOOLEAN
  /\ failed \subseteq Handlers
  /\ before \in [Handlers -> SUBSET Handlers]

Init ==
  /\ stage = [h \in Handlers |-> "idle"]
  /\ banned = FALSE
  /\ listed = FALSE
  /\ failed = {}
  /\ before = [h \in Handlers |-> {}]

UnderWay == {h \in Handlers : stage[h] \notin {"idle", "over"}}

-----------------------------------------------------------------------------
Start(h) ==
  /\ stage[h] = "idle"
  /\ stage' = [stage EXCEPT ![h] = "first"]
  /\ before' = [before EXCEPT ![h] = {g \in Handlers : stage[g] = "over"}]
  /\ UNCHANGED <<banned, listed, failed>>

Step(h, from, to) ==
  /\ stage[h] = from
  /\ stage' = [stage EXCEPT ![h] = to]
  /\ UNCHANGED <<failed, before>>

(* Redis does not answer; whether it did what it was asked is open, so the *)
(* steps below may come before this one.                                   *)
Fails(h) ==
  /\ h \in UnderWay
  /\ stage' = [stage EXCEPT ![h] = "over"]
  /\ failed' = failed \cup {h}
  /\ UNCHANGED <<banned, listed, before>>

(* redis_block_ip: setex, sadd.                                            *)
SetKey(h) ==
  /\ h \in Blocks /\ Step(h, "first", "second")
  /\ banned' = TRUE
  /\ UNCHANGED listed

\* Mutation: the member is forgotten.
AddMember_m(h) ==
  /\ h \in Blocks /\ Step(h, "second", "over")
  /\ UNCHANGED <<banned, listed>>

AddMember(h) ==
  /\ h \in Blocks /\ Step(h, "second", "over")
  /\ listed' = TRUE
  /\ UNCHANGED banned

(* redis_unblock_ip: delete, srem.                                         *)
\* Mutation: the key is left to expire.
DeleteKey_m(h) ==
  /\ h \in Unblocks /\ Step(h, "first", "second")
  /\ UNCHANGED <<banned, listed>>

DeleteKey(h) ==
  /\ h \in Unblocks /\ Step(h, "first", "second")
  /\ banned' = FALSE
  /\ UNCHANGED listed

(* redis_get_blocked_ips: smembers, get, and srem of a member with no key. *)
ReadMembers(h) ==
  /\ h \in Lists /\ Step(h, "first", IF listed THEN "get" ELSE "over")
  /\ UNCHANGED <<banned, listed>>

ReadKey(h) ==
  /\ h \in Lists /\ Step(h, "get", IF banned THEN "over" ELSE "second")
  /\ UNCHANGED <<banned, listed>>

RemoveMember(h) ==
  /\ h \in Unblocks \cup Lists /\ Step(h, "second", "over")
  /\ listed' = FALSE
  /\ UNCHANGED banned

KeyExpires ==
  /\ banned
  /\ banned' = FALSE
  /\ UNCHANGED <<stage, listed, failed, before>>

Next ==
  \/ \E h \in Handlers :
       \/ Start(h) \/ Fails(h)
       \/ SetKey(h) \/ AddMember(h)
       \/ DeleteKey(h)
       \/ ReadMembers(h) \/ ReadKey(h) \/ RemoveMember(h)
  \/ KeyExpires

Spec == Init /\ [][Next]_vars

-----------------------------------------------------------------------------
Overlap(g, h) ==
  /\ stage[g] # "idle" /\ stage[h] # "idle"
  /\ g \notin before[h] /\ h \notin before[g]

(* A ban in force that the list does not show comes from a block that      *)
(* failed half way or is not over, or from an unblocking or a listing that *)
(* overlapped a block and removed the member after the block had added it  *)
(* (redis_block_ip, redis_unblock_ip, redis_get_blocked_ips).              *)
UnlistedBanHasACause ==
  banned /\ ~listed =>
    \E b \in Blocks : \/ stage[b] = "second" \/ b \in failed
                      \/ \E h \in Unblocks \cup Lists : Overlap(b, h)

(* An unblocking whose calls all went through lifts the ban: when every    *)
(* block so far was over before it started, the gateway lets the address   *)
(* in again and the list does not show it (redis_unblock_ip).              *)
UnblockedIsFree ==
  \A u \in Unblocks :
    /\ stage[u] = "over" /\ u \notin failed
    /\ \A b \in Blocks : stage[b] = "idle" \/ b \in before[u]
    => ~banned /\ ~listed

(* The list and the keys agree, up to the cases above, and an unblocking   *)
(* does what it is for (redis_block_ip, redis_unblock_ip,                  *)
(* redis_get_blocked_ips).                                                 *)
BansAgree == UnlistedBanHasACause /\ UnblockedIsFree
=============================================================================
