-------------------------- MODULE Payments_proofs --------------------------
(***************************************************************************)
(* Theorems about Payments: types, that no answer, no book and no daily    *)
(* total is wrong about the money, whatever times out, and that the        *)
(* velocity window cuts bursts, for any number of payments and accounts.   *)
(***************************************************************************)
EXTENDS Payments, FiniteSetTheorems, WellFoundedInduction, TLAPS

USE PaymentsAssumption, FraudAssumption

-----------------------------------------------------------------------------
(* What a step does to at.                                                 *)

LEMMA CalleeType == \A w \in Waiting : Callee[w] \in Hops
BY DEF Callee, Waiting, Hops

LEMMA AnswerEffect ==
  ASSUME TypeOK, NEW h \in Hops, NEW p \in Payments, NEW r, AnswerWith(h, p, r)
  PROVE  \A g \in Hops, q \in Payments :
           at'[g][q] = IF g = h /\ q = p THEN r ELSE at[g][q]
BY DEF TypeOK, AnswerWith

LEMMA CallEffect ==
  ASSUME TypeOK, NEW h \in Hops, NEW p \in Payments, NEW w \in Waiting,
         Call(h, p, w), Callee[w] # h
  PROVE  \A g \in Hops, q \in Payments :
           at'[g][q] = IF q = p /\ g = h THEN w
                       ELSE IF q = p /\ g = Callee[w] THEN "called"
                       ELSE at[g][q]
BY CalleeType DEF TypeOK, Call

LEMMA PlacesOfAnswer ==
  ASSUME TypeOK, NEW h \in Hops, NEW p \in Payments,
         NEW r \in {"idle", "called"} \cup Waiting \cup Answers, AnswerWith(h, p, r)
  PROVE  at' \in [Hops -> [Payments -> {"idle", "called"} \cup Waiting \cup Answers]]
BY DEF TypeOK, AnswerWith

LEMMA PlacesOfCall ==
  ASSUME TypeOK, NEW h \in Hops, NEW p \in Payments, NEW w \in Waiting, Call(h, p, w)
  PROVE  at' \in [Hops -> [Payments -> {"idle", "called"} \cup Waiting \cup Answers]]
BY CalleeType DEF TypeOK, Call

LEMMA WaitingNames ==
  Waiting = {"paying", "scoring", "executing", "notifying", "transferring", "recording"}
BY DEF Waiting, Callee

\* The score of fraud-detection is a number from 5 to 100 whatever it counts.
LEMMA ScoreBounds ==
  \A p \in Payments : \A count : Score(count, Amount(p), Order[p].context) \in 0..100
<1> SUFFICES ASSUME NEW p \in Payments, NEW count
             PROVE  Score(count, Amount(p), Order[p].context) \in 0..100
  OBVIOUS
<1> DEFINE context == Order[p].context
<1>1. context \in Contexts
  OBVIOUS
<1>2. VelocityPoints(count) \in {0, 10, 25, 40}
  BY DEF VelocityPoints
<1>3. AmountPoints(Amount(p)) \in {0, 30, 55}
  BY DEF AmountPoints
<1>4. DevicePoints[context.device] \in {0, 10, 20}
  BY <1>1 DEF DevicePoints, Contexts, Devices
<1>5. ContextPoints(context) \in 0..45
  <2>1. (IF context.riskyChannel THEN 15 ELSE 0) \in {0, 15}
    OBVIOUS
  <2>2. (IF context.unusualCountry THEN 10 ELSE 0) \in {0, 10}
    OBVIOUS
  <2> QED
    BY <2>1, <2>2, <1>4 DEF ContextPoints
<1>6. RawScore(count, Amount(p), context) \in 0..145
  BY <1>2, <1>3, <1>5 DEF RawScore
<1> QED
  BY <1>6 DEF Score

-----------------------------------------------------------------------------
(* Types.                                                                  *)

LEMMA TypeInit == Init => TypeOK
<1> SUFFICES ASSUME Init PROVE TypeOK
  OBVIOUS
<1>1. balance \in [Accounts -> Int \cup {NoRow}] /\ applied \subseteq Payments
  BY DEF Init, TheBank!Init
<1> QED
  BY <1>1 DEF Init, TypeOK, NoScore

LEMMA BankTypes ==
  ASSUME TypeOK, NEW p \in Payments, TheBank!Apply(p)
  PROVE  balance' \in [Accounts -> Int \cup {NoRow}] /\ applied' = applied \cup {p}
<1>1. Order[p].from \in Accounts /\ Order[p].to \in Accounts /\ Order[p].amount \in Int
  OBVIOUS
<1>2. balance[Order[p].from] \in Int /\ balance[Order[p].to] \in Int
  BY <1>1 DEF TypeOK, TheBank!Apply, TheBank!Payable
<1>3. balance' = [balance EXCEPT ![Order[p].from] = @ - Order[p].amount,
                                 ![Order[p].to] = @ + Order[p].amount]
      /\ applied' = applied \cup {p}
  BY DEF TheBank!Apply
<1>4. \A a \in Accounts : balance'[a] \in Int \cup {NoRow}
  BY <1>1, <1>2, <1>3 DEF TypeOK
<1>5. balance' = [a \in Accounts |-> balance'[a]]
  BY <1>1, <1>3 DEF TypeOK
<1> QED
  BY <1>3, <1>4, <1>5

LEMMA TypeStep == TypeOK /\ [Next]_vars => TypeOK'
<1> SUFFICES ASSUME TypeOK, [Next]_vars PROVE TypeOK'
  OBVIOUS
<1> DEFINE States == {"idle", "called"} \cup Waiting \cup Answers
<1> USE DEF Hops
<1> USE WaitingNames
<1>1. ASSUME NEW p \in Payments, Submit(p) PROVE TypeOK'
  <2>1. at' \in [Hops -> [Payments -> States]]
    BY <1>1, PlacesOfAnswer DEF Submit
  <2> QED
    BY <1>1, <2>1 DEF Submit, TypeOK, bank
<1>2. ASSUME NEW p \in Payments, TurnAway(p) PROVE TypeOK'
  <2>1. at' \in [Hops -> [Payments -> States]]
    BY <1>2, PlacesOfAnswer DEF TurnAway, Answers
  <2> QED
    BY <1>2, <2>1 DEF TurnAway, TypeOK, bank
<1>3. ASSUME NEW p \in Payments, Forward(p) PROVE TypeOK'
  <2>1. at' \in [Hops -> [Payments -> States]]
    BY <1>3, PlacesOfCall DEF Forward
  <2> QED
    BY <1>3, <2>1 DEF Forward, TypeOK, bank
<1>4. ASSUME NEW p \in Payments, Count(p) PROVE TypeOK'
  <2>1. at' \in [Hops -> [Payments -> States]]
    BY <1>4, PlacesOfAnswer DEF Count, Answers
  <2>2. counter' \in [Accounts -> Nat]
    BY <1>4 DEF Count, TypeOK, From, Amount
  <2> QED
    BY <1>4, <2>1, <2>2 DEF Count, TypeOK, bank
<1>5. ASSUME NEW p \in Payments, CheckAmount(p) PROVE TypeOK'
  <2>1. at' \in [Hops -> [Payments -> States]]
    BY <1>5, PlacesOfAnswer, PlacesOfCall DEF CheckAmount, Answers
  <2> QED
    BY <1>5, <2>1 DEF CheckAmount, TypeOK, bank
<1>6. ASSUME NEW p \in Payments, ObeyVerdict(p) PROVE TypeOK'
  <2>1. at' \in [Hops -> [Payments -> States]]
    BY <1>6, PlacesOfAnswer, PlacesOfCall DEF ObeyVerdict, Answers
  <2> QED
    BY <1>6, <2>1 DEF ObeyVerdict, TypeOK, bank
<1>7. ASSUME NEW p \in Payments, Execute(p) PROVE TypeOK'
  <2>1. at' \in [Hops -> [Payments -> States]]
    BY <1>7, PlacesOfAnswer, PlacesOfCall DEF Execute, Answers
  <2> QED
    BY <1>7, <2>1 DEF Execute, TypeOK, bank
<1>8. ASSUME NEW p \in Payments, NEW h \in Hops, Relay(p, h) PROVE TypeOK'
  <2>1. at[Callee[at[h][p]]][p] \in Answers
    BY <1>8 DEF Relay, Answers
  <2>2. at' \in [Hops -> [Payments -> States]]
    <3>1. (IF at[h][p] = "scoring" THEN "failed" ELSE at[Callee[at[h][p]]][p]) \in States
      BY <2>1 DEF Answers
    <3> QED
      BY <1>8, <3>1, PlacesOfAnswer DEF Relay
  <2> QED
    BY <1>8, <2>2 DEF Relay, TypeOK, bank
<1>9. ASSUME NEW p \in Payments, NEW h \in Hops, Follow(p, h) PROVE TypeOK'
  <2>1. at' \in [Hops -> [Payments -> States]]
    BY <1>9, PlacesOfAnswer, PlacesOfCall DEF Follow, Answers
  <2> QED
    BY <1>9, <2>1 DEF Follow, TypeOK, bank
<1>10. ASSUME NEW p \in Payments, NEW h \in Hops, GiveUp(p, h) PROVE TypeOK'
  <2>1. (IF at[h][p] \in {"recording", "notifying"} THEN "completed" ELSE "failed") \in States
    BY DEF Answers
  <2>2. at' \in [Hops -> [Payments -> States]]
    BY <1>10, <2>1, PlacesOfAnswer DEF GiveUp
  <2> QED
    BY <1>10, <2>2 DEF GiveUp, TypeOK, bank
<1>11. ASSUME NEW p \in Payments, ScorePayment(p) PROVE TypeOK'
  <2>1. at' \in [Hops -> [Payments -> States]]
    BY <1>11, PlacesOfAnswer DEF ScorePayment, Answers
  <2>2. score' \in [Payments -> {NoScore} \cup 0..100]
    <3>1. Score(CountOf(p), Amount(p), Order[p].context) \in 0..100
      BY ScoreBounds
    <3> QED
      BY <1>11, <3>1 DEF ScorePayment, TypeOK
  <2> QED
    BY <1>11, <2>1, <2>2 DEF ScorePayment, TypeOK, bank
<1>12. ASSUME NEW p \in Payments, Slide(p) PROVE TypeOK'
  BY <1>12 DEF Slide, TypeOK, bank
<1>13. ASSUME NEW p \in Payments, Transfer(p) PROVE TypeOK'
  <2>1. at' \in [Hops -> [Payments -> States]]
    BY <1>13, PlacesOfAnswer DEF Transfer, Answers
  <2>2. balance' \in [Accounts -> Int \cup {NoRow}] /\ applied' \subseteq Payments
    BY <1>13, BankTypes DEF Transfer, TypeOK, bank
  <2> QED
    BY <1>13, <2>1, <2>2 DEF Transfer, TypeOK
<1>14. ASSUME NEW p \in Payments, Record(p) PROVE TypeOK'
  <2>1. at' \in [Hops -> [Payments -> States]]
    BY <1>14, PlacesOfAnswer DEF Record, Answers
  <2> QED
    BY <1>14, <2>1 DEF Record, TypeOK, bank
<1>15. ASSUME NEW p \in Payments, Notify(p) PROVE TypeOK'
  <2>1. at' \in [Hops -> [Payments -> States]]
    BY <1>15, PlacesOfAnswer DEF Notify, Answers
  <2> QED
    BY <1>15, <2>1 DEF Notify, TypeOK, bank
<1>16. ASSUME NEW a \in Accounts, NEW amount \in Grants, OpenAccount(a, amount)
       PROVE  TypeOK'
  <2>1. balance' = [balance EXCEPT ![a] = amount] /\ applied' = applied
    BY <1>16 DEF OpenAccount, TheBank!Create
  <2> QED
    BY <1>16, <2>1 DEF OpenAccount, TypeOK
<1>17. CASE NewDay
  BY <1>17 DEF NewDay, TypeOK, bank
<1>18. CASE UNCHANGED vars
  BY <1>18 DEF vars, TypeOK
<1> QED
  BY <1>1, <1>2, <1>3, <1>4, <1>5, <1>6, <1>7, <1>8, <1>9, <1>10, <1>11, <1>12,
     <1>13, <1>14, <1>15, <1>16, <1>17, <1>18
     DEF Next, PaymentStep, CoreStep, Return

\* In every reachable state rows, places, scores, totals and books have
\* their types: any number of payments and accounts.
THEOREM Typing == Spec => []TypeOK
BY TypeInit, TypeStep, PTL DEF Spec

-----------------------------------------------------------------------------
(* The inductive invariant.                                                *)

\* Each service is in one of its own places.
InPlace(p) ==
  /\ at["gateway"][p] \in {"idle", "called", "paying"} \cup Answers
  /\ at["payment"][p] \in {"idle", "called", "scoring", "executing", "notifying"}
                            \cup Answers
  /\ at["core"][p] \in {"idle", "called", "transferring", "recording"} \cup Answers
  /\ at["account"][p] \in {"idle", "called"} \cup Answers

\* A service that has not yet called the next one, or has refused, has set
\* nothing in motion beyond a refusal.
NothingBeyond(p) ==
  /\ at["gateway"][p] \in {"idle", "called", "refused"} =>
       at["payment"][p] \in {"idle", "refused"}
  /\ at["payment"][p] \in {"idle", "called", "scoring", "refused"} =>
       at["core"][p] \in {"idle", "refused"}
  /\ at["core"][p] \in {"idle", "called", "refused"} =>
       at["account"][p] \in {"idle", "refused"}
  /\ at["account"][p] \in {"idle", "called", "refused"} => p \notin applied

\* A service that has begun to tell of the payment has seen it take place.
TookPlace(p) ==
  \/ at["gateway"][p] = "completed"
  \/ at["payment"][p] \in {"notifying", "completed"}
  \/ at["core"][p] \in {"recording", "completed"}
  \/ at["account"][p] = "completed"
  \/ at["ledger"][p] # "idle"
  \/ at["notification"][p] # "idle"
  \/ p \in ledger \cup notified

PInv(p) == InPlace(p) /\ NothingBeyond(p) /\ (TookPlace(p) => p \in applied)

IInv == TypeOK /\ \A p \in Payments : PInv(p)

LEMMA InvInit == Init => IInv
<1> SUFFICES ASSUME Init PROVE IInv
  OBVIOUS
<1>1. TypeOK
  BY TypeInit
<1>2. ASSUME NEW p \in Payments PROVE PInv(p)
  BY DEF Init, TheBank!Init, PInv, InPlace, NothingBeyond, TookPlace, Hops
<1> QED
  BY <1>1, <1>2 DEF IInv

\* One step of the induction.  Each action is about one payment p, of which
\* it changes the places of one service, or of two when it calls.
LEMMA InvStep == IInv /\ [Next]_vars => IInv'
<1> SUFFICES ASSUME IInv, [Next]_vars PROVE IInv'
  OBVIOUS
<1>t. TypeOK /\ TypeOK'
  BY TypeStep DEF IInv
<1> SUFFICES ASSUME NEW q \in Payments PROVE PInv(q)'
  BY <1>t DEF IInv
<1>q. PInv(q)
  BY DEF IInv
<1> USE WaitingNames
<1> DEFINE Kept == /\ \A h \in Hops : at'[h][q] = at[h][q]
                   /\ q \in applied' <=> q \in applied
                   /\ q \in ledger' <=> q \in ledger
                   /\ q \in notified' <=> q \in notified
\* A step that changes nothing about q keeps what is known of it.
<1>k. ASSUME Kept PROVE PInv(q)'
  BY <1>k, <1>q DEF PInv, InPlace, NothingBeyond, TookPlace, Hops
<1> HIDE DEF Kept
\* An answer of service h about p changes at[h][p] only.
<1>a. ASSUME NEW h \in Hops, NEW p \in Payments, NEW r, AnswerWith(h, p, r)
      PROVE  \A g \in Hops : at'[g][q] = IF g = h /\ q = p THEN r ELSE at[g][q]
  BY <1>a, <1>t, AnswerEffect
<1>c. ASSUME NEW h \in Hops, NEW p \in Payments, NEW w \in Waiting, Call(h, p, w),
             Callee[w] # h
      PROVE  \A g \in Hops : at'[g][q] = IF q = p /\ g = h THEN w
                               ELSE IF q = p /\ g = Callee[w] THEN "called"
                               ELSE at[g][q]
  BY <1>c, <1>t, CallEffect
<1>1. ASSUME NEW p \in Payments, Submit(p) PROVE PInv(q)'
  <2>1. CASE q # p
    BY <1>1, <2>1, <1>a, <1>k DEF Submit, Kept, bank, Hops
  <2>2. CASE q = p
    BY <1>1, <2>2, <1>a, <1>q
       DEF Submit, bank, Hops, PInv, InPlace, NothingBeyond, TookPlace
  <2> QED
    BY <2>1, <2>2
<1>2. ASSUME NEW p \in Payments, TurnAway(p) PROVE PInv(q)'
  <2>1. CASE q # p
    BY <1>2, <2>1, <1>a, <1>k DEF TurnAway, Kept, bank, Hops
  <2>2. CASE q = p
    BY <1>2, <2>2, <1>a, <1>q
       DEF TurnAway, bank, Hops, PInv, InPlace, NothingBeyond, TookPlace, Answers
  <2> QED
    BY <2>1, <2>2
<1>3. ASSUME NEW p \in Payments, Forward(p) PROVE PInv(q)'
  <2>1. \A g \in Hops : at'[g][q] = IF q = p /\ g = "gateway" THEN "paying"
                          ELSE IF q = p /\ g = "payment" THEN "called" ELSE at[g][q]
    BY <1>3, <1>c, SMTT(30) DEF Forward, Hops, Callee
  <2>2. CASE q # p
    BY <1>3, <2>1, <2>2, <1>k DEF Forward, Kept, bank
  <2>3. CASE q = p
    BY <1>3, <2>1, <2>3, <1>q
       DEF Forward, bank, Hops, PInv, InPlace, NothingBeyond, TookPlace
  <2> QED
    BY <2>2, <2>3
<1>4. ASSUME NEW p \in Payments, Count(p) PROVE PInv(q)'
  <2>1. CASE q # p
    BY <1>4, <2>1, <1>a, <1>k DEF Count, Kept, bank, Hops
  <2>2. CASE q = p
    BY <1>4, <2>2, <1>a, <1>q
       DEF Count, bank, Hops, PInv, InPlace, NothingBeyond, TookPlace, Answers
  <2> QED
    BY <2>1, <2>2
<1>5. ASSUME NEW p \in Payments, CheckAmount(p) PROVE PInv(q)'
  <2>1. CASE AnswerWith("payment", p, "refused")
    <3>1. \A g \in Hops : at'[g][q] = IF g = "payment" /\ q = p THEN "refused"
                                      ELSE at[g][q]
      BY <2>1, <1>a DEF Hops
    <3>2. CASE q # p
      BY <1>5, <3>1, <3>2, <1>k DEF CheckAmount, Kept, bank
    <3>3. CASE q = p
      BY <1>5, <3>1, <3>3, <1>q
         DEF CheckAmount, bank, Hops, PInv, InPlace, NothingBeyond, TookPlace, Answers
    <3> QED
      BY <3>2, <3>3
  <2>2. CASE Call("payment", p, "scoring")
    <3>1. \A g \in Hops : at'[g][q] = IF q = p /\ g = "payment" THEN "scoring"
                            ELSE IF q = p /\ g = "fraud" THEN "called" ELSE at[g][q]
      BY <2>2, <1>c DEF Hops, Callee
    <3>2. CASE q # p
      BY <1>5, <3>1, <3>2, <1>k DEF CheckAmount, Kept, bank
    <3>3. CASE q = p
      BY <1>5, <3>1, <3>3, <1>q
         DEF CheckAmount, bank, Hops, PInv, InPlace, NothingBeyond, TookPlace
    <3> QED
      BY <3>2, <3>3
  <2> QED
    BY <1>5, <2>1, <2>2 DEF CheckAmount
<1>6. ASSUME NEW p \in Payments, ObeyVerdict(p) PROVE PInv(q)'
  <2>1. CASE AnswerWith("payment", p, "refused")
    <3>1. \A g \in Hops : at'[g][q] = IF g = "payment" /\ q = p THEN "refused"
                                      ELSE at[g][q]
      BY <2>1, <1>a DEF Hops
    <3>2. CASE q # p
      BY <1>6, <3>1, <3>2, <1>k DEF ObeyVerdict, Kept, bank
    <3>3. CASE q = p
      BY <1>6, <3>1, <3>3, <1>q
         DEF ObeyVerdict, bank, Hops, PInv, InPlace, NothingBeyond, TookPlace, Answers
    <3> QED
      BY <3>2, <3>3
  <2>2. CASE Call("payment", p, "executing")
    <3>1. \A g \in Hops : at'[g][q] = IF q = p /\ g = "payment" THEN "executing"
                            ELSE IF q = p /\ g = "core" THEN "called" ELSE at[g][q]
      BY <2>2, <1>c DEF Hops, Callee
    <3>2. CASE q # p
      BY <1>6, <3>1, <3>2, <1>k DEF ObeyVerdict, Kept, bank
    <3>3. CASE q = p
      BY <1>6, <3>1, <3>3, <1>q
         DEF ObeyVerdict, bank, Hops, PInv, InPlace, NothingBeyond, TookPlace
    <3> QED
      BY <3>2, <3>3
  <2> QED
    BY <1>6, <2>1, <2>2 DEF ObeyVerdict
<1>7. ASSUME NEW p \in Payments, Execute(p) PROVE PInv(q)'
  <2>1. CASE AnswerWith("core", p, "refused")
    <3>1. \A g \in Hops : at'[g][q] = IF g = "core" /\ q = p THEN "refused"
                                      ELSE at[g][q]
      BY <2>1, <1>a DEF Hops
    <3>2. CASE q # p
      BY <1>7, <3>1, <3>2, <1>k DEF Execute, Kept, bank
    <3>3. CASE q = p
      BY <1>7, <3>1, <3>3, <1>q
         DEF Execute, bank, Hops, PInv, InPlace, NothingBeyond, TookPlace, Answers
    <3> QED
      BY <3>2, <3>3
  <2>2. CASE Call("core", p, "transferring")
    <3>1. \A g \in Hops : at'[g][q] = IF q = p /\ g = "core" THEN "transferring"
                            ELSE IF q = p /\ g = "account" THEN "called" ELSE at[g][q]
      BY <2>2, <1>c DEF Hops, Callee
    <3>2. CASE q # p
      BY <1>7, <3>1, <3>2, <1>k DEF Execute, Kept, bank
    <3>3. CASE q = p
      BY <1>7, <3>1, <3>3, <1>q
         DEF Execute, bank, Hops, PInv, InPlace, NothingBeyond, TookPlace
    <3> QED
      BY <3>2, <3>3
  <2> QED
    BY <1>7, <2>1, <2>2 DEF Execute
<1>8. ASSUME NEW p \in Payments, NEW h \in {"gateway", "payment", "core"}, Relay(p, h)
      PROVE  PInv(q)'
  <2> DEFINE result == IF at[h][p] = "scoring" THEN "failed"
                       ELSE at[Callee[at[h][p]]][p]
  <2>1. \A g \in Hops : at'[g][q] = IF g = h /\ q = p THEN result ELSE at[g][q]
    BY <1>8, <1>a DEF Relay, Hops
  <2>2. CASE q # p
    BY <1>8, <2>1, <2>2, <1>k, SMTT(30) DEF Relay, Kept, bank
  <2>3. CASE q = p
    <3>1. CASE h = "gateway"
      <4>1. at[h][p] = "paying" /\ result = at["payment"][p]
        BY <1>8, <2>3, <3>1, <1>q DEF Relay, PInv, InPlace, Callee, Answers
      <4> QED
        BY <1>8, <2>1, <2>3, <3>1, <4>1, <1>q
           DEF Relay, bank, Hops, Callee, PInv, InPlace, NothingBeyond, TookPlace, Answers
    <3>2. CASE h = "payment"
      <4>1. \/ at[h][p] = "scoring" /\ result = "failed"
            \/ at[h][p] = "executing" /\ result = at["core"][p]
        <5>1. at[h][p] \in {"scoring", "executing"}
          BY <1>8, <2>3, <3>2, <1>q DEF Relay, PInv, InPlace, Answers
        <5> QED
          BY <5>1 DEF Callee
      <4>2. result \in {"refused", "failed"} /\ UNCHANGED <<bank, ledger, notified>>
        BY <1>8, <4>1 DEF Relay, Callee
      <4>3. /\ at'["payment"][q] = result
            /\ \A g \in Hops \ {"payment"} : at'[g][q] = at[g][q]
        BY <2>1, <2>3, <3>2 DEF Hops
      <4>4. result = "refused" => at["core"][q] = "refused"
        BY <2>3, <4>1
      <4>5. InPlace(q)' /\ NothingBeyond(q)'
        BY <2>3, <3>2, <4>1, <4>2, <4>3, <4>4, <1>q
           DEF bank, Hops, PInv, InPlace, NothingBeyond, Answers
      <4>6. TookPlace(q)' => TookPlace(q)
        BY <4>2, <4>3 DEF Hops, TookPlace
      <4> QED
        BY <4>2, <4>5, <4>6, <1>q DEF bank, PInv
    <3>3. CASE h = "core"
      <4>1. at[h][p] = "transferring" /\ result = at["account"][p]
        BY <1>8, <2>3, <3>3, <1>q DEF Relay, PInv, InPlace, Callee, Answers
      <4> QED
        BY <1>8, <2>1, <2>3, <3>3, <4>1, <1>q
           DEF Relay, bank, Hops, Callee, PInv, InPlace, NothingBeyond, TookPlace, Answers
    <3> QED
      BY <3>1, <3>2, <3>3
  <2> QED
    BY <2>2, <2>3
<1>9. ASSUME NEW p \in Payments, NEW h \in {"gateway", "payment", "core"}, Follow(p, h)
      PROVE  PInv(q)'
  <2>1. CASE at[h][p] = "transferring" /\ at["account"][p] = "completed"
             /\ Call(h, p, "recording")
    <3>1. \A g \in Hops : at'[g][q] = IF q = p /\ g = h THEN "recording"
                            ELSE IF q = p /\ g = "ledger" THEN "called" ELSE at[g][q]
      BY <2>1, <1>c DEF Hops, Callee
    <3>2. CASE q # p
      BY <1>9, <3>1, <3>2, <1>k DEF Follow, Kept, bank
    <3>3. CASE q = p
      <4>1. h = "core"
        BY <2>1, <3>3, <1>q DEF PInv, InPlace, Answers
      <4> QED
        BY <1>9, <2>1, <3>1, <3>3, <4>1, <1>q
           DEF Follow, bank, Hops, PInv, InPlace, NothingBeyond, TookPlace
    <3> QED
      BY <3>2, <3>3
  <2>2. CASE at[h][p] = "executing" /\ at["core"][p] = "completed"
             /\ Call(h, p, "notifying")
    <3>1. \A g \in Hops : at'[g][q] = IF q = p /\ g = h THEN "notifying"
                            ELSE IF q = p /\ g = "notification" THEN "called"
                            ELSE at[g][q]
      BY <2>2, <1>c DEF Hops, Callee
    <3>2. CASE q # p
      BY <1>9, <3>1, <3>2, <1>k DEF Follow, Kept, bank
    <3>3. CASE q = p
      <4>1. h = "payment"
        BY <2>2, <3>3, <1>q DEF PInv, InPlace, Answers
      <4> QED
        BY <1>9, <2>2, <3>1, <3>3, <4>1, <1>q
           DEF Follow, bank, Hops, PInv, InPlace, NothingBeyond, TookPlace
    <3> QED
      BY <3>2, <3>3
  <2>3. CASE at[h][p] \in {"recording", "notifying"} /\ AnswerWith(h, p, "completed")
    <3>1. \A g \in Hops : at'[g][q] = IF g = h /\ q = p THEN "completed" ELSE at[g][q]
      BY <2>3, <1>a DEF Hops
    <3>2. CASE q # p
      BY <1>9, <3>1, <3>2, <1>k DEF Follow, Kept, bank
    <3>3. CASE q = p
      BY <1>9, <2>3, <3>1, <3>3, <1>q
         DEF Follow, bank, Hops, PInv, InPlace, NothingBeyond, TookPlace, Answers
    <3> QED
      BY <3>2, <3>3
  <2> QED
    BY <1>9, <2>1, <2>2, <2>3 DEF Follow
<1>10. ASSUME NEW p \in Payments, NEW h \in {"gateway", "payment", "core"}, GiveUp(p, h)
       PROVE  PInv(q)'
  <2> DEFINE result == IF at[h][p] \in {"recording", "notifying"} THEN "completed"
                       ELSE "failed"
  <2>1. \A g \in Hops : at'[g][q] = IF g = h /\ q = p THEN result ELSE at[g][q]
    BY <1>10, <1>a DEF GiveUp, Hops
  <2>2. CASE q # p
    BY <1>10, <2>1, <2>2, <1>k DEF GiveUp, Kept, bank
  <2>3. CASE q = p
    BY <1>10, <2>1, <2>3, <1>q
       DEF GiveUp, bank, Hops, PInv, InPlace, NothingBeyond, TookPlace, Answers
  <2> QED
    BY <2>2, <2>3
<1>11. ASSUME NEW p \in Payments, ScorePayment(p) PROVE PInv(q)'
  <2>1. PICK result \in {"completed", "failed"} : AnswerWith("fraud", p, result)
    BY <1>11 DEF ScorePayment
  <2>2. \A g \in Hops : at'[g][q] = IF g = "fraud" /\ q = p THEN result ELSE at[g][q]
    BY <2>1, <1>a DEF Hops
  <2> QED
    BY <1>11, <2>2, <1>q
       DEF ScorePayment, bank, Hops, PInv, InPlace, NothingBeyond, TookPlace
<1>12. ASSUME NEW p \in Payments, Slide(p) PROVE PInv(q)'
  BY <1>12, <1>k DEF Slide, Kept, bank
<1>13. ASSUME NEW p \in Payments, Transfer(p) PROVE PInv(q)'
  <2>1. PICK result \in Answers : AnswerWith("account", p, result)
    BY <1>13 DEF Transfer, Answers
  <2>2. \A g \in Hops : at'[g][q] = IF g = "account" /\ q = p THEN result ELSE at[g][q]
    BY <2>1, <1>a DEF Hops
  <2>3. CASE TheBank!Apply(p)
    <3>1. applied' = applied \cup {p}
      BY <2>3 DEF TheBank!Apply
    <3>2. CASE q # p
      BY <1>13, <2>2, <3>1, <3>2, <1>k DEF Transfer, Kept
    <3>3. CASE q = p
      <4>1. at["account"][p] = "called" /\ at'["account"][p] # "refused"
        <5>1. AnswerWith("account", p, "completed") \/ AnswerWith("account", p, "failed")
          BY <1>13, <2>3 DEF Transfer, TheBank!Apply
        <5> QED
          BY <1>13, <5>1, <3>3, <1>a DEF Transfer, Hops
      <4> QED
        BY <1>13, <2>2, <3>1, <3>3, <4>1, <1>q
           DEF Transfer, Hops, PInv, InPlace, NothingBeyond, TookPlace, Answers
    <3> QED
      BY <3>2, <3>3
  <2>4. CASE ~TheBank!Apply(p)
    <3>1. applied' = applied /\ at["account"][p] = "called"
          /\ (AnswerWith("account", p, "refused") \/ AnswerWith("account", p, "failed"))
      BY <1>13, <2>4 DEF Transfer, bank
    <3>2. CASE q # p
      BY <1>13, <2>2, <3>1, <3>2, <1>k DEF Transfer, Kept
    <3>3. CASE q = p
      <4>1. at'["account"][p] \in {"refused", "failed"}
        BY <3>1, <3>3, <1>a DEF Hops
      <4> QED
        BY <1>13, <2>2, <3>1, <3>3, <4>1, <1>q
           DEF Transfer, Hops, PInv, InPlace, NothingBeyond, TookPlace, Answers
    <3> QED
      BY <3>2, <3>3
  <2> QED
    BY <2>3, <2>4
<1>14. ASSUME NEW p \in Payments, Record(p) PROVE PInv(q)'
  <2>1. \A g \in Hops : at'[g][q] = IF g = "ledger" /\ q = p THEN "completed"
                                    ELSE at[g][q]
    BY <1>14, <1>a DEF Record, Hops
  <2> QED
    BY <1>14, <2>1, <1>q
       DEF Record, bank, Hops, PInv, InPlace, NothingBeyond, TookPlace
<1>15. ASSUME NEW p \in Payments, Notify(p) PROVE PInv(q)'
  <2>1. \A g \in Hops : at'[g][q] = IF g = "notification" /\ q = p THEN "completed"
                                    ELSE at[g][q]
    BY <1>15, <1>a DEF Notify, Hops
  <2> QED
    BY <1>15, <2>1, <1>q
       DEF Notify, bank, Hops, PInv, InPlace, NothingBeyond, TookPlace
<1>16. ASSUME NEW a \in Accounts, NEW amount \in Grants, OpenAccount(a, amount)
       PROVE  PInv(q)'
  BY <1>16, <1>k DEF OpenAccount, TheBank!Create, Kept
<1>17. CASE NewDay
  BY <1>17, <1>k DEF NewDay, Kept, bank
<1>18. CASE UNCHANGED vars
  BY <1>18, <1>k DEF vars, Kept
<1> QED
  BY <1>1, <1>2, <1>3, <1>4, <1>5, <1>6, <1>7, <1>8, <1>9, <1>10, <1>11, <1>12,
     <1>13, <1>14, <1>15, <1>16, <1>17, <1>18
     DEF Next, PaymentStep, CoreStep, Return

-----------------------------------------------------------------------------
(* The theorems.                                                           *)

\* "completed" at the gateway, at payment-service, at core-banking and at
\* account-service means that the money has moved, and a 4xx that it has not
\* and never will, whatever the time limits cut off.
THEOREM NobodyLies == Spec => []AnswersAreTrue
<1>1. IInv => AnswersAreTrue
  BY DEF IInv, PInv, InPlace, NothingBeyond, TookPlace, AnswersAreTrue
<1> QED
  BY InvInit, InvStep, <1>1, PTL DEF Spec

\* Ledger entries and notifications are of payments that took place.
THEOREM BooksTellTheTruth == Spec => []BooksAreReal
<1>1. IInv => BooksAreReal
  BY DEF IInv, PInv, TookPlace, BooksAreReal, TypeOK
<1> QED
  BY InvInit, InvStep, <1>1, PTL DEF Spec

-----------------------------------------------------------------------------
(* The velocity window.                                                    *)

\* fraud-detection scores a payment once, and who is told to move the money
\* has a score that passes the gate.
Approved(p) == score[p] \in 0..MaxFraudScore

ScoredOnce(p) ==
  /\ at["gateway"][p] \in {"idle", "called"} => at["payment"][p] = "idle"
  /\ at["payment"][p] \in {"idle", "called"} => at["fraud"][p] = "idle"
  /\ at["fraud"][p] \in {"idle", "called"} => score[p] = NoScore
  /\ at["fraud"][p] = "completed" => score[p] \in 0..100
  /\ at["core"][p] # "idle" \/ at["account"][p] # "idle" \/ p \in applied => Approved(p)

LEMMA ScoredInit == Init => \A p \in Payments : ScoredOnce(p)
BY DEF Init, TheBank!Init, ScoredOnce, Hops

LEMMA ScoredStep ==
  ASSUME IInv, NEW q \in Payments, ScoredOnce(q), [Next]_vars PROVE ScoredOnce(q)'
<1>t. TypeOK
  BY DEF IInv
<1>n. \A p \in Payments : PInv(p)
  BY DEF IInv
<1> USE WaitingNames
<1> DEFINE Quiet == /\ at'["fraud"][q] = at["fraud"][q] /\ score'[q] = score[q]
                    /\ at'["core"][q] # "idle" => at["core"][q] # "idle"
                    /\ at'["account"][q] # "idle" => at["account"][q] # "idle"
                    /\ q \in applied' <=> q \in applied
                    /\ at'["gateway"][q] \in {"idle", "called"} =>
                         /\ at["gateway"][q] \in {"idle", "called"}
                         /\ at'["payment"][q] = at["payment"][q]
                    /\ at'["payment"][q] \in {"idle", "called"} =>
                         at["payment"][q] \in {"idle", "called"}
\* Most steps leave what fraud-detection and account-service did alone, and
\* do not go back.
<1>k. ASSUME Quiet PROVE ScoredOnce(q)'
  BY <1>k DEF ScoredOnce, Approved
<1> HIDE DEF Quiet
<1>s. ASSUME \A h \in Hops : at'[h][q] = at[h][q], score'[q] = score[q],
             q \in applied' <=> q \in applied
      PROVE  ScoredOnce(q)'
  BY <1>s, <1>k DEF Quiet, Hops
<1>a. ASSUME NEW h \in Hops, NEW p \in Payments, NEW r, AnswerWith(h, p, r)
      PROVE  \A g \in Hops : at'[g][q] = IF g = h /\ q = p THEN r ELSE at[g][q]
  BY <1>a, <1>t, AnswerEffect
<1>c. ASSUME NEW h \in Hops, NEW p \in Payments, NEW w \in Waiting, Call(h, p, w),
             Callee[w] # h
      PROVE  \A g \in Hops : at'[g][q] = IF q = p /\ g = h THEN w
                               ELSE IF q = p /\ g = Callee[w] THEN "called"
                               ELSE at[g][q]
  BY <1>c, <1>t, CallEffect
\* An answer other than fraud-detection's is quiet.
<1>r. ASSUME NEW h \in {"gateway", "payment", "core", "ledger", "notification"},
             NEW p \in Payments, NEW r \in Answers, AnswerWith(h, p, r),
             at[h][p] # "idle", UNCHANGED <<score, applied>>
      PROVE  ScoredOnce(q)'
  <2>1. \A g \in Hops : at'[g][q] = IF g = h /\ q = p THEN r ELSE at[g][q]
    BY <1>r, <1>a DEF Hops
  <2> QED
    BY <2>1, <1>r, <1>k DEF Quiet, Hops, Answers, ScoredOnce
<1>1. ASSUME NEW p \in Payments, Submit(p) PROVE ScoredOnce(q)'
  <2>1. \A g \in Hops : at'[g][q] = IF g = "gateway" /\ q = p THEN "called" ELSE at[g][q]
    BY <1>1, <1>a DEF Submit, Hops
  <2> QED
    BY <1>1, <2>1, <1>k DEF Submit, bank, Quiet, Hops
<1>2. ASSUME NEW p \in Payments, TurnAway(p) \/ Count(p) \/ Record(p) \/ Notify(p)
      PROVE  ScoredOnce(q)'
  <2>1. CASE TurnAway(p)
    BY <2>1, <1>r DEF TurnAway, bank, Answers
  <2>2. CASE Count(p)
    BY <2>2, <1>r DEF Count, bank, Answers
  <2>3. CASE Record(p) \/ Notify(p)
    BY <2>3, <1>r DEF Record, Notify, bank, Answers
  <2> QED
    BY <1>2, <2>1, <2>2, <2>3
<1>3. ASSUME NEW p \in Payments, Forward(p) PROVE ScoredOnce(q)'
  <2>1. \A g \in Hops : at'[g][q] = IF q = p /\ g = "gateway" THEN "paying"
                          ELSE IF q = p /\ g = "payment" THEN "called" ELSE at[g][q]
    BY <1>3, <1>c, SMTT(30) DEF Forward, Hops, Callee
  <2>2. CASE q # p
    BY <1>3, <2>1, <2>2, <1>s DEF Forward, bank
  <2>3. CASE q = p
    <3>1. at["fraud"][q] = "idle"
      BY <1>3, <2>3 DEF Forward, ScoredOnce
    <3> QED
      BY <1>3, <2>1, <2>3, <3>1 DEF Forward, bank, Hops, ScoredOnce, Approved
  <2> QED
    BY <2>2, <2>3
<1>4. ASSUME NEW p \in Payments, CheckAmount(p) PROVE ScoredOnce(q)'
  <2>1. CASE AnswerWith("payment", p, "refused")
    BY <1>4, <2>1, <1>r DEF CheckAmount, bank, Answers
  <2>2. CASE Call("payment", p, "scoring")
    <3>1. \A g \in Hops : at'[g][q] = IF q = p /\ g = "payment" THEN "scoring"
                            ELSE IF q = p /\ g = "fraud" THEN "called" ELSE at[g][q]
      BY <2>2, <1>c DEF Hops, Callee
    <3>2. CASE q # p
      BY <1>4, <3>1, <3>2, <1>s DEF CheckAmount, bank
    <3>3. CASE q = p
      <4>1. score[q] = NoScore /\ at["gateway"][q] \notin {"idle", "called"}
        BY <1>4, <3>3 DEF CheckAmount, ScoredOnce
      <4> QED
        BY <1>4, <3>1, <3>3, <4>1 DEF CheckAmount, bank, Hops, ScoredOnce, Approved
    <3> QED
      BY <3>2, <3>3
  <2> QED
    BY <1>4, <2>1, <2>2 DEF CheckAmount
<1>5. ASSUME NEW p \in Payments, ObeyVerdict(p) PROVE ScoredOnce(q)'
  <2>1. CASE AnswerWith("payment", p, "refused")
    BY <1>5, <2>1, <1>r DEF ObeyVerdict, bank, Answers
  <2>2. CASE GatePassed(score[p]) /\ Call("payment", p, "executing")
    <3>1. \A g \in Hops : at'[g][q] = IF q = p /\ g = "payment" THEN "executing"
                            ELSE IF q = p /\ g = "core" THEN "called" ELSE at[g][q]
      BY <2>2, <1>c DEF Hops, Callee
    <3>2. CASE q # p
      BY <1>5, <3>1, <3>2, <1>s DEF ObeyVerdict, bank
    <3>3. CASE q = p
      <4>1. score[q] \in 0..MaxFraudScore /\ at["gateway"][q] \notin {"idle", "called"}
        BY <1>5, <2>2, <3>3 DEF ObeyVerdict, ScoredOnce, GatePassed, MaxFraudScore
      <4> QED
        BY <1>5, <3>1, <3>3, <4>1 DEF ObeyVerdict, bank, Hops, ScoredOnce, Approved
    <3> QED
      BY <3>2, <3>3
  <2> QED
    BY <1>5, <2>1, <2>2 DEF ObeyVerdict
<1>6. ASSUME NEW p \in Payments, Execute(p) PROVE ScoredOnce(q)'
  <2>1. CASE AnswerWith("core", p, "refused")
    BY <1>6, <2>1, <1>r DEF Execute, bank, Answers
  <2>2. CASE Call("core", p, "transferring")
    <3>1. \A g \in Hops : at'[g][q] = IF q = p /\ g = "core" THEN "transferring"
                            ELSE IF q = p /\ g = "account" THEN "called" ELSE at[g][q]
      BY <2>2, <1>c DEF Hops, Callee
    <3>2. CASE q # p
      BY <1>6, <3>1, <3>2, <1>s DEF Execute, bank
    <3>3. CASE q = p
      <4>1. Approved(q)
        BY <1>6, <3>3 DEF Execute, ScoredOnce
      <4> QED
        BY <1>6, <3>1, <3>3, <4>1 DEF Execute, bank, Hops, ScoredOnce, Approved
    <3> QED
      BY <3>2, <3>3
  <2> QED
    BY <1>6, <2>1, <2>2 DEF Execute
<1>7. ASSUME NEW p \in Payments, ScorePayment(p) PROVE ScoredOnce(q)'
  <2>1. CASE q # p
    <3>1. \A g \in Hops : at'[g][q] = at[g][q]
      BY <1>7, <2>1, <1>a DEF ScorePayment, Hops
    <3>2. score'[q] = score[q]
      BY <1>7, <2>1, <1>t DEF ScorePayment, TypeOK
    <3> QED
      BY <1>7, <3>1, <3>2, <1>s DEF ScorePayment, bank
  <2>2. CASE q = p
    <3>1. score[q] = NoScore /\ ~Approved(q)
      BY <1>7, <2>2 DEF ScorePayment, ScoredOnce, Approved, NoScore
    <3>2. at["core"][q] = "idle" /\ at["account"][q] = "idle" /\ q \notin applied
      BY <3>1 DEF ScoredOnce
    <3>3. at["payment"][q] \notin {"idle", "called"} /\ at["gateway"][q] \notin {"idle", "called"}
      BY <1>7, <2>2 DEF ScorePayment, ScoredOnce
    <3>4. \/ at'["fraud"][q] = "completed" /\ score'[q] \in 0..100
          \/ at'["fraud"][q] = "failed" /\ score'[q] = score[q]
      <4>1. CASE /\ score' = [score EXCEPT ![p] = Score(CountOf(p), Amount(p), Order[p].context)]
                 /\ AnswerWith("fraud", p, "completed")
        <5>1. score'[q] \in 0..100
          BY <2>2, <4>1, <1>t, ScoreBounds DEF TypeOK
        <5> QED
          BY <2>2, <4>1, <5>1, <1>a DEF Hops
      <4>2. CASE AnswerWith("fraud", p, "failed") /\ UNCHANGED score
        BY <2>2, <4>2, <1>a DEF Hops
      <4> QED
        BY <1>7, <4>1, <4>2 DEF ScorePayment
    <3>5. \A g \in Hops \ {"fraud"} : at'[g][q] = at[g][q]
      BY <1>7, <2>2, <1>a DEF ScorePayment, Hops
    <3> QED
      BY <1>7, <3>2, <3>3, <3>4, <3>5 DEF ScorePayment, bank, ScoredOnce, Hops
  <2> QED
    BY <2>1, <2>2
<1>8. ASSUME NEW p \in Payments, Slide(p) PROVE ScoredOnce(q)'
  BY <1>8, <1>s DEF Slide, bank
<1>9. ASSUME NEW p \in Payments, Transfer(p) PROVE ScoredOnce(q)'
  <2>1. PICK r \in Answers : AnswerWith("account", p, r)
    BY <1>9 DEF Transfer, Answers
  <2>2. \A g \in Hops : at'[g][q] = IF g = "account" /\ q = p THEN r ELSE at[g][q]
    BY <2>1, <1>a DEF Hops
  <2>3. applied' = applied \/ applied' = applied \cup {p}
    BY <1>9 DEF Transfer, TheBank!Apply, bank
  <2>4. CASE q # p
    BY <1>9, <2>2, <2>3, <2>4, <1>s DEF Transfer
  <2>5. CASE q = p
    <3>1. Approved(q)
      BY <1>9, <2>5 DEF Transfer, ScoredOnce
    <3> QED
      BY <1>9, <2>2, <2>3, <2>5, <3>1 DEF Transfer, Hops, ScoredOnce, Approved
  <2> QED
    BY <2>4, <2>5
<1>10. ASSUME NEW p \in Payments, NEW h \in {"gateway", "payment", "core"},
              Relay(p, h) \/ GiveUp(p, h)
       PROVE  ScoredOnce(q)'
  <2>1. PICK r \in Answers : AnswerWith(h, p, r)
    BY <1>10 DEF Relay, GiveUp, Answers
  <2>2. at[h][p] # "idle" /\ UNCHANGED <<score, applied>>
    BY <1>10 DEF Relay, GiveUp, bank
  <2> QED
    BY <2>1, <2>2, <1>r
<1>11. ASSUME NEW p \in Payments, NEW h \in {"gateway", "payment", "core"}, Follow(p, h)
       PROVE  ScoredOnce(q)'
  <2>1. CASE AnswerWith(h, p, "completed") /\ at[h][p] # "idle"
    BY <1>11, <2>1, <1>r DEF Follow, bank, Answers
  <2>2. CASE at[h][p] = "transferring" /\ Call(h, p, "recording")
    <3>1. \A g \in Hops : at'[g][q] = IF q = p /\ g = h THEN "recording"
                            ELSE IF q = p /\ g = "ledger" THEN "called" ELSE at[g][q]
      BY <2>2, <1>c DEF Hops, Callee
    <3>2. q = p => h = "core"
      BY <2>2, <1>n DEF PInv, InPlace, Answers
    <3> QED
      BY <1>11, <2>2, <3>1, <3>2, <1>k DEF Follow, bank, Quiet, Hops
  <2>3. CASE at[h][p] = "executing" /\ Call(h, p, "notifying")
    <3>1. \A g \in Hops : at'[g][q] = IF q = p /\ g = h THEN "notifying"
                            ELSE IF q = p /\ g = "notification" THEN "called"
                            ELSE at[g][q]
      BY <2>3, <1>c DEF Hops, Callee
    <3>2. q = p => h = "payment" /\ at["gateway"][q] \notin {"idle", "called"}
      BY <2>3, <1>n DEF PInv, InPlace, Answers, ScoredOnce
    <3> QED
      BY <1>11, <2>3, <3>1, <3>2, <1>k DEF Follow, bank, Quiet, Hops
  <2> QED
    BY <1>11, <2>1, <2>2, <2>3 DEF Follow
<1>12. ASSUME NEW a \in Accounts, NEW amount \in Grants, OpenAccount(a, amount)
       PROVE  ScoredOnce(q)'
  BY <1>12, <1>s DEF OpenAccount, TheBank!Create
<1>13. CASE NewDay \/ UNCHANGED vars
  BY <1>13, <1>s DEF NewDay, bank, vars
<1> QED
  BY <1>1, <1>2, <1>3, <1>4, <1>5, <1>6, <1>7, <1>8, <1>9, <1>10, <1>11, <1>12, <1>13
     DEF Next, PaymentStep, CoreStep, Return

\* What a window holds of approved payments of the critical amount.
Burst(a) == {p \in recent : From(p) = a /\ Amount(p) >= Critical /\ Approved(p)}

WindowInv ==
  /\ IInv /\ \A p \in Payments : ScoredOnce(p)
  /\ IsFiniteSet(recent)
  /\ \A a \in Accounts : Cardinality(Burst(a)) <= SoftLimit

\* A payment of the critical amount passes only if its account has no more
\* than SoftLimit payments in the window.
LEMMA CriticalPass ==
  ASSUME NEW p \in Payments, Amount(p) >= Critical, NEW count \in Nat,
         Score(count, Amount(p), Order[p].context) \in 0..MaxFraudScore
  PROVE  count <= SoftLimit
<1> DEFINE context == Order[p].context
<1>1. DevicePoints[context.device] \in {0, 10, 20}
  BY DEF DevicePoints, Contexts, Devices
<1>2. ContextPoints(context) \in 0..45
  <2>1. (IF context.riskyChannel THEN 15 ELSE 0) \in {0, 15}
    OBVIOUS
  <2>2. (IF context.unusualCountry THEN 10 ELSE 0) \in {0, 10}
    OBVIOUS
  <2> QED
    BY <2>1, <2>2, <1>1 DEF ContextPoints
<1>3. count > SoftLimit => VelocityPoints(count) \in {25, 40}
  BY DEF VelocityPoints
<1>4. AmountPoints(Amount(p)) = 55
  BY DEF AmountPoints
<1>5. count > SoftLimit => RawScore(count, Amount(p), context) \in 85..145
  BY <1>2, <1>3, <1>4 DEF RawScore
<1> QED
  BY <1>5 DEF Score, MaxFraudScore

LEMMA WindowInit == Init => WindowInv
<1> SUFFICES ASSUME Init PROVE WindowInv
  OBVIOUS
<1>1. \A a \in Accounts : Burst(a) = {}
  BY DEF Init, Burst
<1>2. IsFiniteSet(recent) /\ \A a \in Accounts : Cardinality(Burst(a)) = 0
  BY <1>1, FS_EmptySet DEF Init
<1>3. IInv /\ \A p \in Payments : ScoredOnce(p)
  BY InvInit, ScoredInit
<1> QED
  BY <1>2, <1>3 DEF WindowInv

LEMMA WindowStep == WindowInv /\ [Next]_vars => WindowInv'
<1> SUFFICES ASSUME WindowInv, [Next]_vars PROVE WindowInv'
  OBVIOUS
<1> USE DEF WindowInv
<1>1. IInv' /\ (\A p \in Payments : ScoredOnce(p))'
  BY InvStep, ScoredStep
<1>t. TypeOK
  BY DEF IInv
\* A window that loses payments, or gains one without a score.
<1>2. ASSUME NEW a \in Accounts, IsFiniteSet(recent'), Burst(a)' \subseteq Burst(a)
      PROVE  Cardinality(Burst(a)') <= SoftLimit
  <2>1. IsFiniteSet(Burst(a))
    BY FS_Subset DEF Burst
  <2>2. /\ Cardinality(Burst(a)') <= Cardinality(Burst(a))
        /\ Cardinality(Burst(a)) \in Nat /\ Cardinality(Burst(a)') \in Nat
    BY <1>2, <2>1, FS_Subset, FS_CardinalityType
  <2> QED
    BY <2>2
<1>3. ASSUME NEW p \in Payments, ScorePayment(p) PROVE WindowInv'
  <2>1. recent' = recent \/ recent' = recent \cup {p}
    BY <1>3 DEF ScorePayment
  <2>2. IsFiniteSet(recent') /\ IsFiniteSet(recent \cup {p})
    BY <2>1, FS_AddElement
  <2>3. ~Approved(p)
    BY <1>3 DEF ScorePayment, ScoredOnce, Approved, NoScore
  <2>4. \A q \in Payments : q # p => score'[q] = score[q]
    BY <1>3, <1>t DEF ScorePayment, TypeOK
  <2>5. ASSUME NEW a \in Accounts PROVE Cardinality(Burst(a)') <= SoftLimit
    <3>1. CASE ~Approved(p)' \/ From(p) # a \/ ~(Amount(p) >= Critical)
      <4>1. Burst(a)' \subseteq Burst(a)
        BY <2>1, <2>4, <3>1, <1>t DEF Burst, Approved, TypeOK
      <4> QED
        BY <4>1, <2>2, <1>2
    <3>2. CASE Approved(p)' /\ From(p) = a /\ Amount(p) >= Critical
      <4> DEFINE counted == {q \in recent \cup {p} : From(q) = From(p)}
      <4>1. score' # score
        BY <3>2, <2>3 DEF Approved
      <4>2. score'[p] = Score(CountOf(p), Amount(p), Order[p].context)
            /\ recent' = recent \cup {p}
        BY <1>3, <4>1, <1>t DEF ScorePayment, TypeOK
      <4>3. IsFiniteSet(counted)
        BY <2>2, FS_Subset
      <4>4. Cardinality(counted) \in Nat /\ CountOf(p) = Cardinality(counted)
        BY <4>3, FS_CardinalityType DEF CountOf
      <4>5. Cardinality(counted) <= SoftLimit
        BY <3>2, <4>2, <4>4, CriticalPass DEF Approved
      <4>6. Burst(a)' \subseteq counted
        BY <3>2, <4>2 DEF Burst
      <4>7. Cardinality(Burst(a)') <= Cardinality(counted) /\ Cardinality(Burst(a)') \in Nat
        BY <4>3, <4>6, FS_Subset, FS_CardinalityType
      <4> QED
        BY <4>4, <4>5, <4>7
    <3> QED
      BY <3>1, <3>2
  <2> QED
    BY <1>1, <2>2, <2>5
<1>4. ASSUME recent' \subseteq recent, score' = score PROVE WindowInv'
  <2>1. IsFiniteSet(recent')
    BY <1>4, FS_Subset
  <2>2. \A a \in Accounts : Burst(a)' \subseteq Burst(a)
    BY <1>4 DEF Burst, Approved
  <2> QED
    BY <1>1, <1>2, <2>1, <2>2
<1>5. ASSUME \A p \in Payments : ~ScorePayment(p) PROVE recent' \subseteq recent /\ score' = score
  BY <1>5 DEF Next, Submit, TurnAway, Forward, Count, PaymentStep, CoreStep, Return, CheckAmount,
     ObeyVerdict, Execute, Relay, Follow, GiveUp, Slide, Transfer, Record, Notify, OpenAccount,
     NewDay, vars
<1> QED
  BY <1>3, <1>4, <1>5

\* However the payments of one account overlap, no more than SoftLimit of the
\* critical amount that are in one velocity window take place.
THEOREM BurstsAreCut == Spec => []BurstIsCut
<1>1. ASSUME WindowInv PROVE BurstIsCut
  <2> SUFFICES ASSUME NEW a \in Accounts
               PROVE  Cardinality({p \in applied \cap recent :
                                     From(p) = a /\ Amount(p) >= Critical}) <= SoftLimit
    BY DEF BurstIsCut
  <2> DEFINE through == {p \in applied \cap recent : From(p) = a /\ Amount(p) >= Critical}
  <2>1. through \subseteq Burst(a)
    BY <1>1 DEF WindowInv, IInv, TypeOK, ScoredOnce, Burst
  <2>2. IsFiniteSet(Burst(a))
    BY <1>1, FS_Subset DEF Burst, WindowInv
  <2>3. Cardinality(through) <= Cardinality(Burst(a)) /\ Cardinality(through) \in Nat
        /\ Cardinality(Burst(a)) \in Nat
    BY <2>1, <2>2, FS_Subset, FS_CardinalityType
  <2> QED
    BY <1>1, <2>3 DEF WindowInv
<1> QED
  BY WindowInit, WindowStep, <1>1, PTL DEF Spec

-----------------------------------------------------------------------------
(* Sums.  Total is a fold, which takes the payments in an order of its own *)
(* choosing; that the order does not matter is shown here.                 *)

\* Induction over the numbers that have a property, as a set.
LEMMA Numbers ==
  ASSUME NEW P, 0 \in P, \A n \in Nat : n \in P => n + 1 \in P PROVE Nat \subseteq P
<1> DEFINE rest == Nat \ P
<1> SUFFICES ASSUME rest # {} PROVE FALSE
  OBVIOUS
<1>1. PICK m \in rest : \A n \in rest : <<n, m>> \notin OpToRel(<, Nat)
  BY WFMin, NatLessThanWellFounded
<1>2. \A n \in rest : ~(n < m)
  BY <1>1 DEF OpToRel
<1>3. m - 1 \in Nat /\ m - 1 \notin rest
  BY <1>2
<1> QED
  BY <1>3

Pick(S) == CHOOSE x \in S : TRUE

\* g[s] is the sum of the amounts of s, for every set s of D.
Sums(g, D) ==
  \A s \in D : g[s] = IF s = {} THEN 0 ELSE Amount(Pick(s)) + g[s \ {Pick(s)}]

LEMMA PickIn == ASSUME NEW S, S # {} PROVE Pick(S) \in S
BY DEF Pick

LEMMA OneLess ==
  ASSUME NEW S, IsFiniteSet(S), NEW x \in S
  PROVE  /\ IsFiniteSet(S \ {x}) /\ Cardinality(S \ {x}) = Cardinality(S) - 1
         /\ Cardinality(S) \in Nat \ {0}
<1>1. Cardinality(S) \in Nat /\ Cardinality(S) # 0
  BY FS_CardinalityType, FS_EmptySet
<1> QED
  BY <1>1, FS_RemoveElement

LEMMA SumsExist ==
  ASSUME NEW S \in SUBSET Payments, IsFiniteSet(S)
  PROVE  \E g \in [SUBSET S -> Nat] : Sums(g, SUBSET S)
<1> DEFINE UpTo(n) == {s \in SUBSET S : Cardinality(s) <= n}
           P == {n \in Nat : \E g \in [UpTo(n) -> Nat] : Sums(g, UpTo(n))}
<1>f. \A s \in SUBSET S : IsFiniteSet(s) /\ Cardinality(s) \in Nat
  BY FS_Subset, FS_CardinalityType
<1>1. 0 \in P
  <2> DEFINE g == [s \in UpTo(0) |-> 0]
  <2>1. \A s \in UpTo(0) : s = {}
    BY <1>f, FS_EmptySet
  <2>2. g \in [UpTo(0) -> Nat] /\ Sums(g, UpTo(0))
    BY <2>1 DEF Sums
  <2> QED
    BY <2>2
<1>2. ASSUME NEW n \in Nat, n \in P PROVE n + 1 \in P
  <2>1. PICK g \in [UpTo(n) -> Nat] : Sums(g, UpTo(n))
    BY <1>2
  <2> DEFINE h == [s \in UpTo(n + 1) |->
                     IF s = {} THEN 0 ELSE Amount(Pick(s)) + g[s \ {Pick(s)}]]
  <2>2. \A s \in UpTo(n) : s \in UpTo(n + 1) /\ h[s] = g[s]
    <3>1. \A s \in UpTo(n) : s \in UpTo(n + 1)
      BY <1>f
    <3> QED
      BY <2>1, <3>1 DEF Sums
  <2>3. ASSUME NEW s \in UpTo(n + 1), s # {}
        PROVE  Pick(s) \in Payments /\ s \ {Pick(s)} \in UpTo(n)
    <3>1. Pick(s) \in s
      BY <2>3, PickIn
    <3>2. IsFiniteSet(s) /\ Cardinality(s) \in Nat /\ Cardinality(s) <= n + 1
      BY <1>f
    <3>3. Cardinality(s \ {Pick(s)}) = Cardinality(s) - 1
      BY <3>1, <3>2, OneLess
    <3> QED
      BY <3>1, <3>2, <3>3
  <2>4. ASSUME NEW s \in UpTo(n + 1)
        PROVE  h[s] \in Nat /\ h[s] = IF s = {} THEN 0 ELSE Amount(Pick(s)) + h[s \ {Pick(s)}]
    <3>1. CASE s = {}
      BY <3>1
    <3>2. CASE s # {}
      <4>1. Amount(Pick(s)) \in Nat
        BY <2>3, <3>2 DEF Amount
      <4>2. g[s \ {Pick(s)}] \in Nat /\ h[s \ {Pick(s)}] = g[s \ {Pick(s)}]
        BY <2>1, <2>2, <2>3, <3>2
      <4>3. h[s] = Amount(Pick(s)) + g[s \ {Pick(s)}]
        BY <3>2
      <4> HIDE DEF h
      <4> QED
        BY <3>2, <4>1, <4>2, <4>3
    <3> QED
      BY <3>1, <3>2
  <2>5. h \in [UpTo(n + 1) -> Nat] /\ Sums(h, UpTo(n + 1))
    <3>1. h = [s \in UpTo(n + 1) |-> h[s]]
      OBVIOUS
    <3> HIDE DEF h
    <3> QED
      BY <2>4, <3>1 DEF Sums
  <2> HIDE DEF h, UpTo
  <2>6. \E k \in [UpTo(n + 1) -> Nat] : Sums(k, UpTo(n + 1))
    BY <2>5
  <2> QED
    BY <2>6
<1>3. Cardinality(S) \in P
  <2> HIDE DEF P
  <2> QED
    BY <1>1, <1>2, <1>f, Numbers
<1>4. UpTo(Cardinality(S)) = SUBSET S
  <2>1. ASSUME NEW s \in SUBSET S PROVE Cardinality(s) <= Cardinality(S)
    BY FS_Subset
  <2> QED
    BY <2>1
<1> HIDE DEF UpTo
<1>5. \E g \in [UpTo(Cardinality(S)) -> Nat] : Sums(g, UpTo(Cardinality(S)))
  BY <1>3
<1> QED
  BY <1>4, <1>5

LEMMA SameSums ==
  ASSUME NEW S \in SUBSET Payments, IsFiniteSet(S),
         NEW g, NEW h, Sums(g, SUBSET S), Sums(h, SUBSET S)
  PROVE  \A s \in SUBSET S : g[s] = h[s]
<1> DEFINE P == {n \in Nat : \A s \in SUBSET S : Cardinality(s) = n => g[s] = h[s]}
<1>f. \A s \in SUBSET S : IsFiniteSet(s) /\ Cardinality(s) \in Nat
  BY FS_Subset, FS_CardinalityType
<1>1. 0 \in P
  BY <1>f, FS_EmptySet DEF Sums
<1>2. ASSUME NEW n \in Nat, n \in P PROVE n + 1 \in P
  <2> SUFFICES ASSUME NEW s \in SUBSET S, Cardinality(s) = n + 1 PROVE g[s] = h[s]
    OBVIOUS
  <2>1. s # {}
    <3>1. Cardinality({}) = 0 /\ n + 1 # 0
      BY FS_EmptySet
    <3> QED
      BY <3>1
  <2>2. s \ {Pick(s)} \in SUBSET S /\ Cardinality(s \ {Pick(s)}) = n
    <3>1. Pick(s) \in s /\ IsFiniteSet(s)
      BY <2>1, <1>f, PickIn
    <3>2. Cardinality(s \ {Pick(s)}) = Cardinality(s) - 1
      BY <3>1, OneLess
    <3> QED
      BY <3>2
  <2>3. g[s \ {Pick(s)}] = h[s \ {Pick(s)}]
    BY <1>2, <2>2
  <2> QED
    BY <2>1, <2>3 DEF Sums
<1>3. Nat \subseteq P
  <2> HIDE DEF P
  <2> QED
    BY <1>1, <1>2, Numbers
<1> QED
  BY <1>3, <1>f

LEMMA TotalIsSum ==
  ASSUME NEW S \in SUBSET Payments, IsFiniteSet(S)
  PROVE  \E g \in [SUBSET S -> Nat] : Sums(g, SUBSET S) /\ Total(S) = g[S]
<1> DEFINE Fold(g) == g = [s \in SUBSET S |->
                             IF s = {} THEN 0 ELSE Amount(Pick(s)) + g[s \ {Pick(s)}]]
           sum == CHOOSE g : Fold(g)
<1>1. Total(S) = sum[S]
  BY DEF Total, MapThenSumSet, MapThenFoldSet, Pick
<1>2. PICK h \in [SUBSET S -> Nat] : Sums(h, SUBSET S)
  BY SumsExist
<1>3. Fold(h)
  BY <1>2 DEF Sums
<1>4. Fold(sum)
  BY <1>3
<1>5. \A s \in SUBSET S : s # {} => s \ {Pick(s)} \in SUBSET S
  OBVIOUS
<1>6. Sums(sum, SUBSET S)
  BY <1>4 DEF Sums
<1>7. sum[S] = h[S]
  <2> HIDE DEF sum
  <2> QED
    BY <1>2, <1>6, SameSums
<1> QED
  BY <1>1, <1>2, <1>7

\* Any payment of the set may be taken first.
LEMMA AnyFirst ==
  ASSUME NEW S \in SUBSET Payments, IsFiniteSet(S),
         NEW g \in [SUBSET S -> Nat], Sums(g, SUBSET S)
  PROVE  \A s \in SUBSET S : \A x \in s : g[s] = Amount(x) + g[s \ {x}]
<1> DEFINE P == {n \in Nat : \A s \in SUBSET S : Cardinality(s) = n =>
                              \A x \in s : g[s] = Amount(x) + g[s \ {x}]}
<1>f. \A s \in SUBSET S : IsFiniteSet(s) /\ Cardinality(s) \in Nat
  BY FS_Subset, FS_CardinalityType
<1>a. \A x \in S : Amount(x) \in Nat
  BY DEF Amount
<1>1. 0 \in P
  BY <1>f, FS_EmptySet
<1>2. ASSUME NEW n \in Nat, n \in P PROVE n + 1 \in P
  <2> SUFFICES ASSUME NEW s \in SUBSET S, Cardinality(s) = n + 1, NEW x \in s
               PROVE  g[s] = Amount(x) + g[s \ {x}]
    OBVIOUS
  <2> DEFINE y == Pick(s)
  <2>1. y \in s
    BY PickIn
  <2>2. g[s] = Amount(y) + g[s \ {y}]
    BY DEF Sums
  <2>3. CASE x = y
    BY <2>2, <2>3
  <2>4. CASE x # y
    <3> HIDE DEF y
    <3>1. /\ s \ {y} \in SUBSET S /\ Cardinality(s \ {y}) = n
          /\ s \ {x} \in SUBSET S /\ Cardinality(s \ {x}) = n
      BY <2>1, <1>f, OneLess
    <3>2. x \in s \ {y} /\ y \in s \ {x}
      BY <2>1, <2>4
    <3>3. g[s \ {y}] = Amount(x) + g[(s \ {y}) \ {x}]
      BY <1>2, <3>1, <3>2
    <3>4. g[s \ {x}] = Amount(y) + g[(s \ {x}) \ {y}]
      BY <1>2, <3>1, <3>2
    <3>5. (s \ {y}) \ {x} = (s \ {x}) \ {y}
      OBVIOUS
    <3>6. Amount(x) \in Nat /\ Amount(y) \in Nat /\ g[(s \ {x}) \ {y}] \in Nat
      BY <1>a, <2>1
    <3>7. ASSUME NEW i \in Nat, NEW j \in Nat, NEW k \in Nat PROVE i + (j + k) = j + (i + k)
      BY <3>7
    <3>8. g[s] = Amount(y) + (Amount(x) + g[(s \ {x}) \ {y}])
      BY <2>2, <3>3, <3>5
    <3> QED
      BY <3>4, <3>6, <3>7, <3>8
  <2> QED
    BY <2>3, <2>4
<1>3. Nat \subseteq P
  <2> HIDE DEF P
  <2> QED
    BY <1>1, <1>2, Numbers
<1> QED
  BY <1>3, <1>f

LEMMA TotalMore ==
  ASSUME NEW S \in SUBSET Payments, IsFiniteSet(S), NEW x \in Payments, x \notin S
  PROVE  Total(S \cup {x}) = Total(S) + Amount(x) /\ Total(S) \in Nat
<1> DEFINE T == S \cup {x}
<1>1. IsFiniteSet(T) /\ T \in SUBSET Payments
  BY FS_AddElement
<1>2. PICK g \in [SUBSET S -> Nat] : Sums(g, SUBSET S) /\ Total(S) = g[S]
  BY TotalIsSum
<1>3. PICK h \in [SUBSET T -> Nat] : Sums(h, SUBSET T) /\ Total(T) = h[T]
  BY <1>1, TotalIsSum
<1>4. Sums(h, SUBSET S)
  BY <1>3 DEF Sums
<1>5. g[S] = h[S]
  BY <1>2, <1>4, SameSums
<1>6. h[T] = Amount(x) + h[S]
  <2>1. T \ {x} = S
    OBVIOUS
  <2>2. h[T] = Amount(x) + h[T \ {x}]
    <3>1. T \in SUBSET T /\ x \in T
      OBVIOUS
    <3> HIDE DEF T
    <3>2. \A s \in SUBSET T : \A y \in s : h[s] = Amount(y) + h[s \ {y}]
      <4>1. /\ T \in SUBSET Payments /\ IsFiniteSet(T)
            /\ h \in [SUBSET T -> Nat] /\ Sums(h, SUBSET T)
        BY <1>1, <1>3
      <4>2. \A k \in [SUBSET T -> Nat] :
              Sums(k, SUBSET T) =>
                \A s \in SUBSET T : \A y \in s : k[s] = Amount(y) + k[s \ {y}]
        BY <4>1, AnyFirst
      <4> QED
        BY <4>1, <4>2
    <3> QED
      BY <3>1, <3>2
  <2> QED
    BY <2>1, <2>2
<1>7. g[S] \in Nat /\ Amount(x) \in Nat
  BY <1>2 DEF Amount
<1> QED
  BY <1>2, <1>3, <1>5, <1>6, <1>7

LEMMA TotalGrows ==
  ASSUME NEW T \in SUBSET Payments, IsFiniteSet(T), NEW S \in SUBSET T
  PROVE  Total(S) <= Total(T) /\ Total(S) \in Nat /\ Total(T) \in Nat
<1> DEFINE P == {n \in Nat : \A s \in SUBSET T : Cardinality(s) = n /\ S \subseteq s =>
                              Total(S) <= Total(s)}
<1>f. \A s \in SUBSET T : IsFiniteSet(s) /\ Cardinality(s) \in Nat
  BY FS_Subset, FS_CardinalityType
<1>t. \A s \in SUBSET T : Total(s) \in Nat
  <2> SUFFICES ASSUME NEW s \in SUBSET T PROVE Total(s) \in Nat
    OBVIOUS
  <2>1. PICK g \in [SUBSET s -> Nat] : Total(s) = g[s]
    BY <1>f, TotalIsSum
  <2> QED
    BY <2>1
<1>1. 0 \in P
  <2> SUFFICES ASSUME NEW s \in SUBSET T, Cardinality(s) = 0, S \subseteq s
               PROVE  Total(S) <= Total(s)
    OBVIOUS
  <2>1. s = {} /\ S = s
    BY <1>f, FS_EmptySet
  <2> QED
    BY <2>1, <1>t
<1>2. ASSUME NEW n \in Nat, n \in P PROVE n + 1 \in P
  <2> SUFFICES ASSUME NEW s \in SUBSET T, Cardinality(s) = n + 1, S \subseteq s
               PROVE  Total(S) <= Total(s)
    OBVIOUS
  <2>1. CASE s = S
    BY <2>1, <1>t
  <2>2. CASE s # S
    <3>1. PICK x \in s : x \notin S
      BY <2>2
    <3> DEFINE less == s \ {x}
    <3>2. less \in SUBSET T /\ S \subseteq less /\ Cardinality(less) = n /\ IsFiniteSet(less)
      <4>1. less \in SUBSET T /\ S \subseteq less
        BY <3>1
      <4>2. IsFiniteSet(less) /\ Cardinality(less) = Cardinality(s) - 1
        BY <1>f, <3>1, OneLess
      <4> QED
        BY <4>1, <4>2
    <3>3. Total(S) <= Total(less)
      BY <1>2, <3>2
    <3>4. s = less \cup {x}
      OBVIOUS
    <3>5. Total(s) = Total(less) + Amount(x)
      <4>1. x \notin less /\ x \in Payments /\ less \in SUBSET Payments
        OBVIOUS
      <4> HIDE DEF less
      <4> QED
        BY <3>2, <3>4, <4>1, TotalMore
    <3>6. Total(S) \in Nat /\ Total(less) \in Nat /\ Amount(x) \in Nat
      BY <1>t, <3>2 DEF Amount
    <3> HIDE DEF less
    <3> QED
      BY <3>3, <3>5, <3>6
  <2> QED
    BY <2>1, <2>2
<1>3. Nat \subseteq P
  <2> HIDE DEF P
  <2> QED
    BY <1>1, <1>2, Numbers
<1> QED
  BY <1>3, <1>f, <1>t

-----------------------------------------------------------------------------
(* The daily total.                                                        *)

\* The payments of an account that the gateway has called completed.
Told(a) == {p \in applied : From(p) = a /\ at["gateway"][p] = "completed"}

CounterInv ==
  /\ IInv /\ IsFiniteSet(applied)
  /\ \A a \in Accounts : counter[a] <= Total(Told(a))

LEMMA CounterInit == Init => CounterInv
<1> SUFFICES ASSUME Init PROVE CounterInv
  OBVIOUS
<1>1. applied = {} /\ IInv
  BY InvInit DEF Init, TheBank!Init
<1>2. \A a \in Accounts : Told(a) = {}
  BY <1>1 DEF Told
<1>3. Total({}) \in Nat
  BY FS_EmptySet, TotalGrows
<1>4. ASSUME NEW a \in Accounts PROVE counter[a] <= Total(Told(a))
  <2>1. counter[a] = 0
    BY DEF Init
  <2>2. Total(Told(a)) \in Nat
    BY <1>2, <1>3
  <2> QED
    BY <2>1, <2>2
<1> QED
  BY <1>1, <1>4, FS_EmptySet DEF CounterInv

\* The gateway's answer is its last word.
LEMMA CompletedStays ==
  ASSUME IInv, [Next]_vars, NEW q \in Payments, at["gateway"][q] = "completed"
  PROVE  at'["gateway"][q] = "completed"
<1>t. TypeOK
  BY DEF IInv
<1> USE WaitingNames
<1>a. ASSUME NEW h \in Hops, NEW p \in Payments, NEW r, AnswerWith(h, p, r),
             h = "gateway" => at[h][p] # "completed"
      PROVE  at'["gateway"][q] = "completed"
  <2>1. \A g \in Hops : at'[g][q] = IF g = h /\ q = p THEN r ELSE at[g][q]
    BY <1>a, <1>t, AnswerEffect
  <2> QED
    BY <1>a, <2>1 DEF Hops
<1>c. ASSUME NEW h \in {"gateway", "payment", "core"}, NEW p \in Payments,
             NEW w \in Waiting, Call(h, p, w), Callee[w] # h,
             h = "gateway" => at[h][p] # "completed"
      PROVE  at'["gateway"][q] = "completed"
  <2>1. \A g \in Hops : at'[g][q] = IF q = p /\ g = h THEN w
                          ELSE IF q = p /\ g = Callee[w] THEN "called" ELSE at[g][q]
    <3>1. h \in Hops
      BY DEF Hops
    <3> QED
      BY <1>c, <1>t, <3>1, CallEffect
  <2>2. Callee[w] # "gateway"
    BY DEF Callee
  <2> QED
    BY <1>c, <2>1, <2>2 DEF Hops
<1>1. ASSUME NEW p \in Payments, Submit(p) \/ TurnAway(p) \/ Count(p) \/ Record(p) \/ Notify(p)
      PROVE  at'["gateway"][q] = "completed"
  BY <1>1, <1>a DEF Submit, TurnAway, Count, Record, Notify, Hops
<1>2. ASSUME NEW p \in Payments, Forward(p) PROVE at'["gateway"][q] = "completed"
  BY <1>2, <1>c DEF Forward, Callee
<1>3. ASSUME NEW p \in Payments, CheckAmount(p) \/ ObeyVerdict(p) \/ Execute(p)
      PROVE  at'["gateway"][q] = "completed"
  <2>1. CASE AnswerWith("payment", p, "refused") \/ AnswerWith("core", p, "refused")
    BY <2>1, <1>a DEF Hops
  <2>2. CASE \/ Call("payment", p, "scoring") \/ Call("payment", p, "executing")
             \/ Call("core", p, "transferring")
    BY <2>2, <1>c DEF Callee
  <2> QED
    BY <1>3, <2>1, <2>2 DEF CheckAmount, ObeyVerdict, Execute
<1>4. ASSUME NEW p \in Payments, ScorePayment(p) \/ Transfer(p)
      PROVE  at'["gateway"][q] = "completed"
  <2>1. PICK h \in {"fraud", "account"}, r \in Answers : AnswerWith(h, p, r)
    BY <1>4 DEF ScorePayment, Transfer, Answers
  <2> QED
    BY <2>1, <1>a DEF Hops
<1>5. ASSUME NEW p \in Payments, NEW h \in {"gateway", "payment", "core"},
             Relay(p, h) \/ GiveUp(p, h)
      PROVE  at'["gateway"][q] = "completed"
  <2>1. PICK r : AnswerWith(h, p, r)
    BY <1>5 DEF Relay, GiveUp
  <2>2. at[h][p] # "completed"
    BY <1>5 DEF Relay, GiveUp
  <2> QED
    BY <2>1, <2>2, <1>a DEF Hops
<1>6. ASSUME NEW p \in Payments, NEW h \in {"gateway", "payment", "core"}, Follow(p, h)
      PROVE  at'["gateway"][q] = "completed"
  <2>1. at[h][p] # "completed"
    BY <1>6 DEF Follow
  <2>2. CASE AnswerWith(h, p, "completed")
    BY <2>1, <2>2, <1>a DEF Hops
  <2>3. CASE Call(h, p, "recording") \/ Call(h, p, "notifying")
    BY <2>1, <2>3, <1>c DEF Callee
  <2> QED
    BY <1>6, <2>2, <2>3 DEF Follow
<1>7. ASSUME UNCHANGED at PROVE at'["gateway"][q] = "completed"
  BY <1>7
<1> QED
  BY <1>1, <1>2, <1>3, <1>4, <1>5, <1>6, <1>7
     DEF Next, PaymentStep, CoreStep, Return, Slide, OpenAccount, NewDay, vars

\* No transfer is undone.
LEMMA AppliedGrows ==
  ASSUME [Next]_vars
  PROVE  applied' = applied \/ \E p \in Payments : applied' = applied \cup {p}
BY DEF Next, Submit, TurnAway, Forward, Count, PaymentStep, CoreStep, Return, CheckAmount,
   ObeyVerdict, Execute, Relay, Follow, GiveUp, ScorePayment, Slide, Transfer, Record, Notify,
   OpenAccount, NewDay, vars, bank, TheBank!Apply, TheBank!Create

LEMMA CounterStep == CounterInv /\ [Next]_vars => CounterInv'
<1> SUFFICES ASSUME CounterInv, [Next]_vars PROVE CounterInv'
  OBVIOUS
<1> USE DEF CounterInv
<1>t. TypeOK /\ TypeOK'
  BY TypeStep DEF IInv
<1>1. IInv'
  BY InvStep
<1>2. IsFiniteSet(applied') /\ applied \subseteq applied'
  BY AppliedGrows, FS_AddElement
<1>3. ASSUME NEW a \in Accounts
      PROVE  /\ Told(a) \subseteq Told(a)' /\ Total(Told(a)) <= Total(Told(a)')
             /\ Total(Told(a)) \in Nat /\ Total(Told(a)') \in Nat
  <2>1. Told(a) \subseteq Told(a)'
    BY <1>2, <1>t, CompletedStays DEF Told, TypeOK
  <2>2. Told(a)' \in SUBSET Payments /\ IsFiniteSet(Told(a)')
    <3>1. Told(a)' \subseteq applied'
      BY DEF Told
    <3> QED
      BY <1>t, <1>2, <3>1, FS_Subset DEF TypeOK
  <2> QED
    BY <2>1, <2>2, TotalGrows
<1>4. CASE counter' = counter
  <2>1. ASSUME NEW a \in Accounts PROVE counter'[a] <= Total(Told(a)')
    <3>1. counter[a] \in Nat /\ counter[a] <= Total(Told(a))
      BY <1>t DEF TypeOK
    <3> QED
      BY <1>3, <1>4, <3>1
  <2> QED
    BY <1>1, <1>2, <2>1
<1>5. CASE NewDay
  <2>1. ASSUME NEW a \in Accounts PROVE counter'[a] <= Total(Told(a)')
    <3>1. counter'[a] = 0
      BY <1>5 DEF NewDay
    <3> QED
      BY <1>3, <3>1
  <2> QED
    BY <1>1, <1>2, <2>1
<1>6. ASSUME NEW p \in Payments, Count(p) PROVE CounterInv'
  <2>1. p \in applied /\ applied' = applied /\ at["gateway"][p] = "paying"
    BY <1>6 DEF Count, bank, IInv, PInv, TookPlace
  <2>2. \A q \in Payments :
          at'["gateway"][q] = IF q = p THEN "completed" ELSE at["gateway"][q]
    BY <1>6, <1>t, AnswerEffect DEF Count, Hops
  <2>3. ASSUME NEW a \in Accounts PROVE counter'[a] <= Total(Told(a)')
    <3>1. counter[a] \in Nat /\ counter[a] <= Total(Told(a))
      BY <1>t DEF TypeOK
    <3>2. CASE a # From(p) \/ counter' = counter
      <4>1. counter'[a] = counter[a]
        BY <1>6, <1>t, <3>2 DEF Count, TypeOK
      <4> QED
        BY <1>3, <3>1, <4>1
    <3>3. CASE a = From(p) /\ counter' # counter
      <4>1. counter'[a] = counter[a] + Amount(p)
        BY <1>6, <1>t, <3>3 DEF Count, TypeOK
      <4>2. Told(a)' = Told(a) \cup {p} /\ p \notin Told(a)
        BY <1>t, <2>1, <2>2, <3>3 DEF Told, TypeOK
      <4>3. Told(a) \in SUBSET Payments /\ IsFiniteSet(Told(a))
        <5>1. Told(a) \subseteq applied
          BY DEF Told
        <5> QED
          BY <1>t, <5>1, FS_Subset DEF TypeOK
      <4>4. Total(Told(a) \cup {p}) = Total(Told(a)) + Amount(p)
        BY <4>2, <4>3, TotalMore
      <4>5. Amount(p) \in Nat
        BY DEF Amount
      <4> QED
        BY <1>3, <3>1, <4>1, <4>2, <4>4, <4>5
    <3> QED
      BY <3>2, <3>3
  <2> QED
    BY <1>1, <1>2, <2>3
<1>7. ASSUME counter' # counter PROVE NewDay \/ \E p \in Payments : Count(p)
  BY <1>7 DEF Next, Submit, TurnAway, Forward, PaymentStep, CoreStep, Return, CheckAmount,
     ObeyVerdict, Execute, Relay, Follow, GiveUp, ScorePayment, Slide, Transfer, Record, Notify,
     OpenAccount, vars
<1> QED
  BY <1>4, <1>5, <1>6, <1>7

\* The daily total of an account never holds more than what the account has
\* paid, however the answers and midnights fall.
THEOREM CountersAreCovered == Spec => []CounterIsCovered
<1>1. ASSUME CounterInv PROVE CounterIsCovered
  <2> SUFFICES ASSUME NEW a \in Accounts
               PROVE  counter[a] <= Total({p \in applied : From(p) = a})
    BY DEF CounterIsCovered
  <2> DEFINE paid == {p \in applied : From(p) = a}
  <2>1. Told(a) \in SUBSET paid
    BY DEF Told
  <2>2. paid \in SUBSET Payments /\ IsFiniteSet(paid)
    <3>1. paid \subseteq applied
      OBVIOUS
    <3> QED
      BY <1>1, <3>1, FS_Subset DEF CounterInv, IInv, TypeOK
  <2>3. counter[a] \in Nat /\ counter[a] <= Total(Told(a))
    BY <1>1 DEF CounterInv, IInv, TypeOK
  <2>4. Total(Told(a)) <= Total(paid) /\ Total(Told(a)) \in Nat /\ Total(paid) \in Nat
    <3> HIDE DEF paid
    <3> QED
      BY <2>1, <2>2, TotalGrows
  <2> QED
    BY <2>3, <2>4
<1> QED
  BY CounterInit, CounterStep, <1>1, PTL DEF Spec
=============================================================================
