-------------------------- MODULE MCSoarPlaybooks --------------------------
(***************************************************************************)
(* Small instances of SoarPlaybooks.  Every Deployment has one replica, as *)
(* in k8s/financial.                                                       *)
(***************************************************************************)
EXTENDS SoarPlaybooks, TLC

CONSTANTS c1, c2, c3, w1, i1

AnyRun == Permutations(Runs)

\* The first case is held and names no address, but its evidence does; an
\* administrator may choose another playbook for it.  The others are run at once:
\* one blocks the same address, one has no workload to isolate.
ApartWorkloads == c1 :> w1 @@ c2 :> NoTarget @@ c3 :> NoTarget
ApartIps       == c1 :> NoTarget @@ c2 :> i1 @@ c3 :> NoTarget
ApartFound     == c1 :> i1 @@ c2 :> NoTarget @@ c3 :> NoTarget
ApartProposed  == c1 :> "isolate_workload" @@ c2 :> "block_source_ip"
                  @@ c3 :> "restrict_egress"
ApartChoices   == c1 :> {"block_source_ip", "revoke_user_sessions"}
                  @@ c2 :> {} @@ c3 :> {}

\* Two cases of one kind, about the same workload or the same address.
SameWorkload == c1 :> w1 @@ c2 :> w1
SameIp       == c1 :> i1 @@ c2 :> i1
NoWorkload   == c1 :> NoTarget @@ c2 :> NoTarget
NoIp         == c1 :> NoTarget @@ c2 :> NoTarget
Isolate      == c1 :> "isolate_workload" @@ c2 :> "isolate_workload"
Block        == c1 :> "block_source_ip" @@ c2 :> "block_source_ip"
NoChoices    == c1 :> {} @@ c2 :> {}
=============================================================================
