---------------------------- MODULE EventWindow ----------------------------
(***************************************************************************)
(* security-scorer: events arrive by POST, live in a Redis sorted set      *)
(* ordered by time, and a loop turns those of the last WINDOW_SECONDS into *)
(* an anomaly score, which it caches and publishes as a gauge.             *)
(*                                                                         *)
(* Time is kept relative: life[e] is the number of ticks event e still has *)
(* in the window, -1 once it is out, so that a later time stamp is a       *)
(* longer life.  A tick is longer than a round trip to Redis.              *)
(***************************************************************************)
EXTENDS Integers, FiniteSets, FiniteSetsExt

CONSTANTS
  Events,
  Matches,    \* Matches[e]: the names of RULES that match event e
  Window,     \* WINDOW_SECONDS, in ticks
  Interval,   \* SCORE_INTERVAL, in ticks
  FirstWait,  \* the sleep before the first pass of _score_loop
  MaxStored,  \* MAX_EVENTS_STORED
  MaxFaults   \* bound: outages of Redis and restarts of the scorer

(* RULES: the weight of each pattern.                                      *)
Weight == [ brute_force |-> 30, fraud_gate_bypass |-> 40, lateral_movement |-> 50,
            port_scan |-> 25, exploit_probe |-> 35, cryptomining |-> 45,
            cred_stuffing |-> 30, data_exfil |-> 35, access_denied |-> 5,
            jwt_replay |-> 25, container_escape |-> 50 ]

Parameters ==
  /\ Matches \in [Events -> SUBSET DOMAIN Weight]
  /\ Window \in Nat \ {0} /\ Interval \in 1..Window /\ FirstWait \in Nat
  /\ MaxStored \in Nat \ {0} /\ MaxFaults \in Nat

VARIABLES
  place,    \* place[e]: "new", "arriving", "stored", "dropped" or "lost"
  life,     \* life[e]: ticks until event e leaves the window
  timer,    \* ticks until _score_loop wakes up
  reading,  \* <<>>, or the events the loop has just read
  asking,   \* the same for a GET /score served before the first pass
  last,     \* _last_score: whether there is one, and the events it counts
  gauge,    \* ANOMALY_SCORE
  up,       \* Redis answers
  faults,   \* outages and restarts so far
  troubled  \* history: a pass has failed, or the process restarted, since
            \* the last score was computed

vars == <<place, life, timer, reading, asking, last, gauge, up, faults, troubled>>

Never == [ready |-> FALSE, counted |-> {}]

TypeOK ==
  /\ place \in [Events -> {"new", "arriving", "stored", "dropped", "lost"}]
  /\ life \in [Events -> -1..Window]
  /\ timer \in 0..Max({Interval, FirstWait})
  /\ \A pass \in {reading, asking} : pass = <<>> \/ pass[1] \subseteq Events
  /\ last.ready \in BOOLEAN /\ last.counted \subseteq Events
  /\ gauge \in 0..100
  /\ up \in BOOLEAN /\ faults \in 0..MaxFaults /\ troubled \in BOOLEAN

Init ==
  /\ place = [e \in Events |-> "new"]
  /\ life = [e \in Events |-> -1]
  /\ timer = FirstWait
  /\ reading = <<>>
  /\ asking = <<>>
  /\ last = Never
  /\ gauge = 0
  /\ up = TRUE
  /\ faults = 0
  /\ troubled = FALSE

-----------------------------------------------------------------------------
(* _score_events: weight * (1 + log2(count)) / 4, at most the weight, that *)
(* is from eight matches on; log2 in hundredths.                           *)
Log2 == <<0, 100, 158, 200, 232, 258, 281>>

Contribution(name, count) ==
  IF count = 0 THEN 0
  ELSE IF count >= 8 THEN 100 * Weight[name]
  ELSE (Weight[name] * (100 + Log2[count])) \div 4

Score(events) ==
  LET count(name) == Cardinality({e \in events : name \in Matches[e]})
      total == MapThenSumSet(LAMBDA name : Contribution(name, count(name)),
                             DOMAIN Weight)
  IN  Min({100, (total + 50) \div 100})

(* zrangebyscore from now - WINDOW_SECONDS on, for any one reader.         *)
Stored == {e \in Events : place[e] = "stored"}
\* Mutation: the reader trusts the trim and takes all that is stored.
Recent_m == Stored

Recent == {e \in Stored : life[e] >= 0}

(* receive_event, and _store_event up to the pipeline.                     *)
Arrive(e) ==
  /\ place[e] = "new"
  /\ place' = [place EXCEPT ![e] = "arriving"]
  /\ life' = [life EXCEPT ![e] = Window]
  /\ UNCHANGED <<timer, reading, asking, last, gauge, up, faults, troubled>>

(* The pipeline is one transaction: add, remove what is out of the window, *)
(* then remove the lowest scores beyond MAX_EVENTS_STORED; events of equal *)
(* time are ordered by their text, so any of them may go.                  *)
\* Mutation: the trim removes the highest ranks.
Newest_m(S, kept) == \A e \in kept : \A o \in S \ kept : life[e] <= life[o]

Newest(S, kept) == \A e \in kept : \A o \in S \ kept : life[e] >= life[o]

Store(e) ==
  /\ place[e] = "arriving" /\ up
  /\ LET added   == Stored \cup {e}
         trimmed == {o \in added : life[o] > life[e] - Window}
     IN  \E kept \in SUBSET trimmed :
           /\ Cardinality(kept) = Min({MaxStored, Cardinality(trimmed)})
           /\ Newest(trimmed, kept)
           /\ place' = [o \in Events |-> IF o \in kept THEN "stored"
                                         ELSE IF o \in added THEN "dropped"
                                         ELSE place[o]]
  /\ UNCHANGED <<life, timer, reading, asking, last, gauge, up, faults, troubled>>

StoreFails(e) ==
  /\ place[e] = "arriving" /\ ~up
  /\ place' = [place EXCEPT ![e] = "lost"]
  /\ UNCHANGED <<life, timer, reading, asking, last, gauge, up, faults, troubled>>

(* One pass of _score_loop: the read, then cache, gauge and sleep.         *)
LoopReads ==
  /\ timer = 0 /\ reading = <<>> /\ up
  /\ reading' = <<Recent>>
  /\ UNCHANGED <<place, life, timer, asking, last, gauge, up, faults, troubled>>

\* Mutation: the loop sleeps twice between two passes.
LoopPublishes_m ==
  /\ reading # <<>>
  /\ last' = [ready |-> TRUE, counted |-> reading[1]]
  /\ gauge' = Score(reading[1])
  /\ reading' = <<>>
  /\ timer' = 2 * Interval
  /\ troubled' = FALSE
  /\ UNCHANGED <<place, life, asking, up, faults>>

LoopPublishes ==
  /\ reading # <<>>
  /\ last' = [ready |-> TRUE, counted |-> reading[1]]
  /\ gauge' = Score(reading[1])
  /\ reading' = <<>>
  /\ timer' = Interval
  /\ troubled' = FALSE
  /\ UNCHANGED <<place, life, asking, up, faults>>

LoopFails ==
  /\ timer = 0 /\ reading = <<>> /\ ~up
  /\ timer' = Interval
  /\ troubled' = TRUE
  /\ UNCHANGED <<place, life, reading, asking, last, gauge, up, faults>>

(* GET /score before the first pass computes a score of its own.           *)
AskReads ==
  /\ asking = <<>> /\ ~last.ready /\ up
  /\ asking' = <<Recent>>
  /\ UNCHANGED <<place, life, timer, reading, last, gauge, up, faults, troubled>>

AskAnswers ==
  /\ asking # <<>>
  /\ gauge' = Score(asking[1])
  /\ asking' = <<>>
  /\ UNCHANGED <<place, life, timer, reading, last, up, faults, troubled>>

Tick ==
  /\ timer > 0 /\ reading = <<>>
  /\ \A e \in Events : place[e] # "arriving"
  /\ timer' = timer - 1
  /\ life' = [e \in Events |-> Max({-1, life[e] - 1})]
  /\ UNCHANGED <<place, reading, asking, last, gauge, up, faults, troubled>>

RedisFails ==
  /\ up /\ faults < MaxFaults
  /\ up' = FALSE
  /\ faults' = faults + 1
  /\ UNCHANGED <<place, life, timer, reading, asking, last, gauge, troubled>>

RedisReturns ==
  /\ ~up
  /\ up' = TRUE
  /\ UNCHANGED <<place, life, timer, reading, asking, last, gauge, faults, troubled>>

(* The scorer restarts: its cache, gauge and requests go, Redis stays.     *)
Restart ==
  /\ faults < MaxFaults
  /\ faults' = faults + 1
  /\ place' = [e \in Events |-> IF place[e] = "arriving" THEN "lost" ELSE place[e]]
  /\ timer' = FirstWait
  /\ reading' = <<>>
  /\ asking' = <<>>
  /\ last' = Never
  /\ gauge' = 0
  /\ troubled' = TRUE
  /\ UNCHANGED <<life, up>>

LoopStep == LoopReads \/ LoopPublishes \/ LoopFails

Next ==
  \/ \E e \in Events : Arrive(e) \/ Store(e) \/ StoreFails(e)
  \/ LoopStep
  \/ AskReads \/ AskAnswers
  \/ Tick
  \/ RedisFails \/ RedisReturns \/ Restart

Spec == Init /\ [][Next]_vars

(* The loop and the handlers are scheduled, time passes, Redis comes back. *)
Fairness ==
  /\ \A e \in Events : WF_vars(Store(e) \/ StoreFails(e))
  /\ WF_vars(LoopStep)
  /\ WF_vars(Tick)
  /\ WF_vars(RedisReturns)
FairSpec == Spec /\ Fairness

-----------------------------------------------------------------------------
(* A flood never costs a recent event while an older one is kept: an event *)
(* dropped from the set inside its window was pushed out by MaxStored      *)
(* events as recent as itself.  (The trim includes the very end of the     *)
(* window, which the reader still counts: life 0 is exempt.)               *)
(* The code: _store_event.                                                 *)
NewestKept ==
  \A e \in Events :
    place[e] = "dropped" /\ life[e] > 0 =>
      Cardinality({o \in Stored : life[o] >= life[e]}) >= MaxStored

(* The cached score is never older than one interval: an event that has    *)
(* been in the set for longer is counted in it, unless a pass failed or    *)
(* the scorer restarted meanwhile (_score_loop, get_score).                *)
CountedInTime ==
  last.ready /\ ~troubled =>
    \A e \in Recent : Window - life[e] > Interval => e \in last.counted

(* The score is of the newest events, and of all there were an interval    *)
(* ago (_store_event, _score_loop).                                        *)
ScoreIsFresh == NewestKept /\ CountedInTime

(* The alarm does not stick: once events have stopped, the gauge comes     *)
(* back to zero and stays there, although nothing trims the set any more   *)
(* and a slow GET /score may publish an old value after a newer one        *)
(* (_fetch_recent_events, _score_loop, get_score).                         *)
AlarmClears == <>[](gauge = 0)
=============================================================================
