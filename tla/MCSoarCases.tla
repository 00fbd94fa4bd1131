---------------------------- MODULE MCSoarCases ----------------------------
(***************************************************************************)
(* Small instances of SoarCases.  The thresholds are the deployed ones:    *)
(* SOAR_MIN_SEVERITY=medium, SOAR_HITL_SEVERITY=high.                      *)
(***************************************************************************)
EXTENDS SoarCases, TLC

Body(severity, verdict, preApproved) ==
  [ tokens |-> <<"lateral_movement">>, recommended |-> None, service |-> None,
    mentionsOpenstack |-> FALSE, verdict |-> verdict, severity |-> severity,
    confident |-> TRUE, preApproved |-> preApproved ]

Item(status, severity) ==
  [ status |-> status, category |-> None, severity |-> severity,
    attackLabel |-> "lateral_movement", words |-> {}, gap1 |-> FALSE,
    mentionsOpenstack |-> FALSE ]

\* One alert per disposition: turned away, held, run at once.
AlertsOfEachKind ==
  { Body("critical", "normal", FALSE), Body("high", "malicious", FALSE),
    Body("critical", "malicious", TRUE) }

HeldAlert == {Body("high", "malicious", FALSE)}

\* An escalation of one attack, and a resolved alert.
EscalatingItems ==
  {Item("firing", "warning"), Item("firing", "high"), Item("firing", "critical"),
   Item("resolved", "high")}

NoBodies == {}
=============================================================================
