------------------------------ MODULE HitlGate ------------------------------
(***************************************************************************)
(* What a human-in-the-loop gate promises: an item that needs approval is  *)
(* held until it is approved or rejected, the decision is taken once, and  *)
(* an item is acted on at most once.  Items may be given up at any time,   *)
(* several at once: by an expiry or a crash.                               *)
(* Implemented by soar-engine (SoarCases) and ai-analyzer (AiAlerts).      *)
(***************************************************************************)
CONSTANT Items
VARIABLE gate

States == {"absent", "held", "acting", "closed"}

TypeOK == gate \in [Items -> States]

Init == gate = [i \in Items |-> "absent"]

Move(i, from, to) ==
  /\ gate[i] = from
  /\ gate' = [gate EXCEPT ![i] = to]

Dismiss(i)  == Move(i, "absent", "closed")
Hold(i)     == Move(i, "absent", "held")
ActAtOnce(i) == Move(i, "absent", "acting")
Approve(i)  == Move(i, "held", "acting")
Reject(i)   == Move(i, "held", "closed")
Complete(i) == Move(i, "acting", "closed")

GiveUp(S) == gate' = [i \in Items |-> IF i \in S THEN "closed" ELSE gate[i]]

Next ==
  \/ \E i \in Items :
       Dismiss(i) \/ Hold(i) \/ ActAtOnce(i) \/ Approve(i) \/ Reject(i) \/ Complete(i)
  \/ \E S \in SUBSET Items : GiveUp(S)

Spec == Init /\ [][Next]_gate
=============================================================================
