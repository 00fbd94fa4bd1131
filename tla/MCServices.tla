----------------------------- MODULE MCServices -----------------------------
(***************************************************************************)
(* A small instance of every service, for TLC.                             *)
(***************************************************************************)
EXTENDS Services, TLC

CONSTANTS b1, b2

\* ai-analyzer: a batch in which the rules find two attacks, and one in
\* which they find nothing.
TwoFindings == b1 :> <<"port_scan", "impair_defenses">> @@ b2 :> <<>>

Raw(verdict, severity, confidence, attack, playbook) ==
  [verdict |-> verdict, severity |-> severity, confidence |-> confidence,
   attack |-> attack, playbook |-> playbook]

\* A model that sees nothing, and one that sees what the rules do not know
\* and is unsure; each leaves out what code has to put in.
TwoAnswers ==
  { Raw("normal", Unreadable, <<>>, <<>>, None),
    Raw(Unreadable, "critical", <<35>>, <<"supply_chain", "exploit_probe">>, None) }

\* What the three events match.
ThreeMatches == ("e1" :> {"lateral_movement"}) @@ ("e2" :> {"access_denied"})
                @@ ("e3" :> {"access_denied"})

\* Two logins of one user from one browser.
TwoIds == ("l1" :> "u") @@ ("l2" :> "u")
OneBrowser == ("l1" :> "d") @@ ("l2" :> "d")

\* A page beside an admin handler, and beside a scenario.
TwoMixes == {("q1" :> "page") @@ ("q2" :> "admin"), ("q1" :> "page") @@ ("q2" :> "scenario")}

\* Two attempts at one name, with addresses of their own.
OneName == ("r1" :> "n") @@ ("r2" :> "n")
TwoMails == ("r1" :> "m") @@ ("r2" :> "k")

\* Two calls, each to a pod of its own.
Routed == ("c1" :> "g1") @@ ("c2" :> "g2")

\* Four records of two cases.
FourRecords == ("w1" :> "x") @@ ("w2" :> "y") @@ ("w3" :> "x") @@ ("w4" :> "y")
=============================================================================
