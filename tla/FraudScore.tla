----------------------------- MODULE FraudScore -----------------------------
(***************************************************************************)
(* fraud-detection's score of a payment and the gates that read it:        *)
(* fraud-detection's own verdict, core-banking's bound on the score, and   *)
(* the rule of the authorization policy.                                   *)
(***************************************************************************)
EXTENDS Integers

CONSTANTS
  SoftLimit,   \* FRAUD_VELOCITY_SOFT_LIMIT
  High,        \* FRAUD_HIGH_AMOUNT_VND
  Critical     \* FRAUD_CRITICAL_AMOUNT_VND

ASSUME FraudAssumption ==
  SoftLimit \in Nat \ {0} /\ High \in Nat /\ Critical \in Nat /\ High <= Critical

Devices == {"trusted", "unknown", "new_device", "suspicious"}

\* What the score reads of a request, but for its amount.
Contexts == [riskyChannel : BOOLEAN, unusualCountry : BOOLEAN, device : Devices]

LowTier == IF SoftLimit \div 2 > 3 THEN SoftLimit \div 2 ELSE 3

VelocityPoints(count) ==
  IF count > 3 * SoftLimit THEN 40
  ELSE IF count > SoftLimit THEN 25
  ELSE IF count > LowTier THEN 10
  ELSE 0

AmountPoints(amount) ==
  IF amount >= Critical THEN 55 ELSE IF amount >= High THEN 30 ELSE 0

DevicePoints == [trusted |-> 0, unknown |-> 0, new_device |-> 10, suspicious |-> 20]

ContextPoints(context) ==
  (IF context.riskyChannel THEN 15 ELSE 0)
  + (IF context.unusualCountry THEN 10 ELSE 0)
  + DevicePoints[context.device]

RawScore(count, amount, context) ==
  5 + VelocityPoints(count) + AmountPoints(amount) + ContextPoints(context)

Score(count, amount, context) ==
  IF RawScore(count, amount, context) > 100 THEN 100
  ELSE RawScore(count, amount, context)

-----------------------------------------------------------------------------
\* The gate of the verdict, which payment-service obeys.
GatePassed(score) == score < 75

\* What core-banking demands (MAX_ALLOWED_FRAUD_SCORE), whoever called it.
MaxFraudScore == 74
CoreAccepts(score) == score <= MaxFraudScore
=============================================================================
