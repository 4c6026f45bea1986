----------------------------- MODULE RedisMetrics -----------------------------
(***************************************************************************)
(* The Redis collector of scripts/monitoring/redis_metrics.py, started     *)
(* every minute by callgenie-redis-metrics.timer.  systemd never runs two  *)
(* instances of the oneshot unit, but it may kill one (TimeoutStartSec),   *)
(* the VM may stop, and Redis itself restarts and forgets its counters.    *)
(*                                                                         *)
(* A run loads the counters of the last saved sample, reads Redis, gets    *)
(* the VM's identity, publishes one point and, last, saves the counters    *)
(* it read.  A point carries what each counter gained since the loaded     *)
(* state: event n of a field is the n-th eviction (or rejection) ever, and *)
(* a point read at event n with delta d reports the events n-d+1 .. n.     *)
(***************************************************************************)
EXTENDS Integers

CONSTANTS
  Fields,       \* evicted_keys and rejected_connections
  Attempts,     \* publish: range(3)
  MaxEvents,    \* bound: events of one field
  MaxStops,     \* bound: stops of Redis
  MaxFaults     \* bound: failures of a run or of a request

ASSUME BoundAssumption ==
  /\ Attempts \in Nat \ {0}
  /\ MaxEvents \in Nat /\ MaxStops \in Nat /\ MaxFaults \in Nat

VARIABLES
  redis,       \* "up" or "down"
  total,       \* events that happened
  base,        \* events that happened before Redis last started
  stops,
  file,        \* redis-counters.json, with the place of its reading in history
  pc,          \* the step of the run, "idle" between runs
  previous,    \* what load_state returned
  sample,      \* what collect returned
  attempt,     \* attempts made of the publish request
  point,       \* the run's point: "unsent", "sent" or "stored" by the server
  late,        \* points of ended runs that the server may still receive
  health,      \* the newest stored value of the up metric
  reports,     \* how often each event was reported
  excused,     \* events no sample is asked to report
  outgrown,    \* a restarted counter passed its old value between two samples
  faults

redisVars == <<redis, total, base, stops>>
runVars == <<pc, previous, sample, attempt, point>>
serverVars == <<late, health, reports>>
vars == <<redisVars, file, runVars, serverVars, excused, outgrown, faults>>

Events == 1 .. MaxEvents
Zero == [f \in Fields |-> 0]

\* A reading of the counters, and how many events had happened by then.
Reading == [there: BOOLEAN, counter: [Fields -> Nat], at: [Fields -> Nat]]
NoReading == [there |-> FALSE, counter |-> Zero, at |-> Zero]

Points == [up: BOOLEAN, counter: [Fields -> Nat], at: [Fields -> Nat],
           delta: [Fields -> Nat]]
Down == [up |-> FALSE, counter |-> Zero, at |-> Zero, delta |-> Zero]

Counter(f) == total[f] - base[f]

\* A restart lies between two readings.
Restarted(old, new, f) == old.at[f] - old.counter[f] # new.at[f] - new.counter[f]

Covers(p, f, n) == p.at[f] - p.delta[f] < n /\ n <= p.at[f]

TypeOK ==
  /\ redis \in {"up", "down"}
  /\ total \in [Fields -> Nat] /\ base \in [Fields -> Nat] /\ stops \in Nat
  /\ file \in Reading /\ previous \in Reading
  /\ pc \in {"idle", "collect", "identity", "publish", "save"}
  /\ sample \in Points
  /\ attempt \in Nat
  /\ point \in {"unsent", "sent", "stored"}
  /\ late \subseteq [id: Nat, point: Points]
  /\ health \in {"none", "up", "down"}
  /\ reports \in [Fields -> [Events -> Nat]]
  /\ excused \in [Fields -> SUBSET Events]
  /\ outgrown \in [Fields -> BOOLEAN]
  /\ faults \in Nat

Init ==
  /\ redis = "up" /\ total = Zero /\ base = Zero /\ stops = 0
  /\ file = NoReading /\ previous = NoReading
  /\ pc = "idle" /\ sample = Down /\ attempt = 0 /\ point = "unsent"
  /\ late = {} /\ health = "none"
  /\ reports = [f \in Fields |-> [n \in Events |-> 0]]
  /\ excused = [f \in Fields |-> {}]
  /\ outgrown = [f \in Fields |-> FALSE]
  /\ faults = 0
-------------------------------------------------------------------------------
\* Redis: a key is evicted or a connection rejected.
Event(f) ==
  /\ redis = "up"
  /\ total[f] < MaxEvents
  /\ total' = [total EXCEPT ![f] = @ + 1]
  /\ UNCHANGED <<redis, base, stops, file, runVars, serverVars, excused,
                 outgrown, faults>>

\* Redis stops.  Its counters start from zero again: what no saved sample
\* had read by then cannot be told apart any more.
Stop ==
  /\ redis = "up"
  /\ stops < MaxStops
  /\ redis' = "down" /\ stops' = stops + 1
  /\ base' = total
  /\ excused' = [f \in Fields |->
                   excused[f] \cup {n \in Events : file.at[f] < n /\ n <= total[f]}]
  /\ UNCHANGED <<total, file, runVars, serverVars, outgrown, faults>>

Start ==
  /\ redis = "down"
  /\ redis' = "up"
  /\ UNCHANGED <<total, base, stops, file, runVars, serverVars, excused,
                 outgrown, faults>>
-------------------------------------------------------------------------------
Fault == faults < MaxFaults /\ faults' = faults + 1

\* The timer starts a run; load_state falls back to {} when it cannot read.
LoadState ==
  /\ pc = "idle"
  /\ pc' = "collect"
  /\ \/ previous' = file /\ UNCHANGED faults
     \/ file.there /\ previous' = NoReading /\ Fault
  /\ UNCHANGED <<redisVars, file, sample, attempt, point, serverVars, excused,
                 outgrown>>

\* build_metrics: the delta of one counter.
Delta(f) ==
  IF ~previous.there THEN 0
  ELSE IF Counter(f) >= previous.counter[f]
         THEN Counter(f) - previous.counter[f]
         ELSE Counter(f)

Healthy == [up |-> TRUE, counter |-> [f \in Fields |-> Counter(f)],
            at |-> total, delta |-> [f \in Fields |-> Delta(f)]]

\* Mutant: a failed check raises, and the run publishes nothing.
CollectRaises ==
  /\ pc = "collect"
  /\ \/ redis = "up" /\ sample' = Healthy /\ pc' = "identity" /\ UNCHANGED faults
     \/ redis = "down" /\ pc' = "idle" /\ UNCHANGED <<sample, faults>>
     \/ redis = "up" /\ pc' = "idle" /\ UNCHANGED sample /\ Fault
  /\ UNCHANGED <<redisVars, file, previous, attempt, point, serverVars, excused,
                 outgrown>>

\* collect: PING and INFO, or the single metric up = 0.
Collect ==
  /\ pc = "collect"
  /\ pc' = "identity"
  /\ \/ redis = "up" /\ sample' = Healthy /\ UNCHANGED faults
     \/ redis = "down" /\ sample' = Down /\ UNCHANGED faults
     \/ redis = "up" /\ sample' = Down /\ Fault
  /\ UNCHANGED <<redisVars, file, previous, attempt, point, serverVars, excused,
                 outgrown>>

\* Mutant: the counters are saved before they are published.
IdentitySavesFirst ==
  /\ pc = "identity"
  /\ pc' = "publish" /\ attempt' = 1 /\ point' = "sent"
  /\ file' = IF sample.up
               THEN [there |-> TRUE, counter |-> sample.counter, at |-> sample.at]
               ELSE file
  /\ UNCHANGED <<redisVars, previous, sample, serverVars, excused, outgrown, faults>>

\* identity_and_token succeeds and publish sends its first request.
Identity ==
  /\ pc = "identity"
  /\ pc' = "publish" /\ attempt' = 1 /\ point' = "sent"
  /\ UNCHANGED <<redisVars, file, previous, sample, serverVars, excused,
                 outgrown, faults>>
-------------------------------------------------------------------------------
(***************************************************************************)
(* Cloud Monitoring keeps the points of a series in time order: it refuses *)
(* a second point for the same time, and points older than its newest.     *)
(***************************************************************************)
Record(p) ==
  /\ health' = IF p.up THEN "up" ELSE "down"
  /\ reports' = [f \in Fields |-> [n \in Events |->
                   IF Covers(p, f, n) THEN reports[f][n] + 1 ELSE reports[f][n]]]

Store ==
  /\ pc = "publish" /\ point = "sent"
  /\ point' = "stored"
  /\ Record(sample)
  /\ late' = {}
  /\ UNCHANGED <<redisVars, file, pc, previous, sample, attempt, excused,
                 outgrown, faults>>

StoreLate(l) ==
  /\ Record(l.point)
  /\ late' = late \ {l}
  /\ UNCHANGED <<redisVars, file, runVars, excused, outgrown, faults>>
-------------------------------------------------------------------------------
\* The run is over; a point that was sent may still be on its way.
End ==
  /\ pc' = "idle" /\ attempt' = 0 /\ point' = "unsent"
  /\ sample' = Down /\ previous' = NoReading
  /\ late' = IF point = "sent" THEN late \cup {[id |-> faults, point |-> sample]}
                               ELSE late

\* Mutant: the state is saved when there is none to save.
PublishedInverted ==
  /\ pc = "publish" /\ point = "stored"
  /\ IF sample.up
       THEN End
       ELSE pc' = "save" /\ UNCHANGED <<previous, sample, attempt, point, late>>
  /\ UNCHANGED <<redisVars, file, health, reports, excused, outgrown, faults>>

\* publish returned.  A run that read nothing has nothing to save.
Published ==
  /\ pc = "publish" /\ point = "stored"
  /\ IF sample.up
       THEN pc' = "save" /\ UNCHANGED <<previous, sample, attempt, point, late>>
       ELSE End
  /\ UNCHANGED <<redisVars, file, health, reports, excused, outgrown, faults>>

\* A repeated request meets the point its predecessor stored: HTTP 400.
Refused ==
  /\ pc = "publish" /\ point = "stored" /\ attempt > 1
  /\ End
  /\ UNCHANGED <<redisVars, file, health, reports, excused, outgrown, faults>>

\* No answer, 429 or 5xx: the point may be stored, on its way, or lost.
Retry ==
  /\ pc = "publish"
  /\ Fault
  /\ IF attempt < Attempts
       THEN /\ attempt' = attempt + 1
            /\ UNCHANGED <<pc, previous, sample, point, late>>
       ELSE End
  /\ UNCHANGED <<redisVars, file, health, reports, excused, outgrown>>

\* Mutant: the loaded counters are saved again in place of the new ones.
SaveStatePrevious ==
  /\ pc = "save"
  /\ file' = IF previous.there
               THEN previous
               ELSE [there |-> TRUE, counter |-> sample.counter, at |-> sample.at]
  /\ End
  /\ UNCHANGED <<redisVars, health, reports, excused, outgrown, faults>>

\* save_state: a temporary file, synced and renamed over the old one.
SaveState ==
  /\ pc = "save"
  /\ file' = [there |-> TRUE, counter |-> sample.counter, at |-> sample.at]
  /\ excused' = [f \in Fields |-> IF previous.there THEN excused[f]
                   ELSE excused[f] \cup {n \in Events : n <= sample.at[f]}]
  /\ outgrown' = [f \in Fields |->
                    \/ outgrown[f]
                    \/ /\ previous.there /\ Restarted(previous, sample, f)
                       /\ sample.delta[f] # sample.counter[f]]
  /\ End
  /\ UNCHANGED <<redisVars, health, reports, faults>>

\* Every other end: metadata or token failure, a refused request, a full
\* disk, the unit's time limit, the VM going down.
Abort ==
  /\ pc # "idle"
  /\ Fault
  /\ End
  /\ UNCHANGED <<redisVars, file, health, reports, excused, outgrown>>
-------------------------------------------------------------------------------
Run == LoadState \/ Collect \/ Identity \/ Published \/ Refused \/ Retry \/ SaveState

Next ==
  \/ \E f \in Fields : Event(f)
  \/ Stop \/ Start
  \/ Run \/ Abort
  \/ Store
  \/ \E l \in late : StoreLate(l)

Spec == Init /\ [][Next]_vars

(***************************************************************************)
(* The timer starts a run again and again, a run goes on, and the server   *)
(* stores the point a run waits for.  Faults are never forced, and nothing *)
(* is assumed of Redis or of late points.                                  *)
(***************************************************************************)
Fairness ==
  /\ WF_vars(LoadState) /\ WF_vars(Collect) /\ WF_vars(Identity)
  /\ WF_vars(Store) /\ WF_vars(Published) /\ WF_vars(SaveState)

FairSpec == Spec /\ Fairness
-------------------------------------------------------------------------------
(***************************************************************************)
(* Every event up to the saved reading is in some stored sample, except    *)
(* those before a first sample ("the first sample establishes a zero       *)
(* baseline"), those Redis forgot when it stopped, and a field of which a  *)
(* restart went unnoticed (see FreshDelta).  So the state never runs ahead *)
(* of what was published, wherever a run stops.                            *)
(***************************************************************************)
NothingMissed ==
  \A f \in Fields : file.there /\ ~outgrown[f] =>
    \A n \in Events :
      n <= file.at[f] => n \in excused[f] \/ reports[f][n] > 0

(***************************************************************************)
(* An event is reported again only after a fault: one extra report for     *)
(* each run that ended between publishing and saving, or whose point came  *)
(* late, and none in undisturbed operation, resets included.               *)
(***************************************************************************)
RepeatsAreFaults ==
  \A f \in Fields : \A n \in Events : reports[f][n] <= 1 + faults

(***************************************************************************)
(* build_metrics: "counter resets start a fresh positive delta".           *)
(***************************************************************************)
FreshDelta ==
  \A f \in Fields :
    sample.up /\ previous.there /\ Restarted(previous, sample, f) =>
      sample.delta[f] = sample.counter[f]

(***************************************************************************)
(* With Redis up for good, every event is reported in the end, however     *)
(* many runs failed before: a failed run only lengthens the next delta.    *)
(***************************************************************************)
EventuallyReported ==
  (<>[](redis = "up")) =>
    \A f \in Fields : \A n \in Events :
      total[f] >= n ~> (n \in excused[f] \/ reports[f][n] > 0 \/ outgrown[f])

(***************************************************************************)
(* The newest stored value of the up metric settles on the state of Redis: *)
(* an unreachable Redis is reported, not left out, and no late point of an *)
(* earlier run covers that up.                                             *)
(***************************************************************************)
HealthSettles ==
  /\ (<>[](redis = "down")) => <>[](health = "down")
  /\ (<>[](redis = "up")) => <>[](health = "up")
-------------------------------------------------------------------------------
(***************************************************************************)
(* The inductive invariant behind NothingMissed.  ReadingInv orders the    *)
(* readings: the state file's is not newer than the sample's, which is not *)
(* newer than the present, and what Redis forgot after the state file's    *)
(* reading is excused.  SampleInv says what a sample carries: whatever is  *)
(* between the state file's reading and the events it reports is excused   *)
(* too, and once its point is stored those events are reported.            *)
(***************************************************************************)
ReadingInv ==
  /\ previous.there => previous = file /\ pc # "idle"
  /\ \A f \in Fields :
       /\ base[f] <= total[f]
       /\ file.at[f] <= total[f]
       /\ file.at[f] - file.counter[f] <= base[f]
       /\ \A n \in Events : file.at[f] < n /\ n <= base[f] => n \in excused[f]

SampleInv ==
  /\ sample.up => pc \in {"identity", "publish", "save"}
  /\ pc = "save" => sample.up /\ point = "stored"
  /\ point = "stored" => pc \in {"publish", "save"}
  /\ \A f \in Fields : sample.up =>
       /\ file.at[f] <= sample.at[f] /\ sample.at[f] <= total[f]
       /\ sample.at[f] - sample.counter[f] <= base[f]
       /\ previous.there
            /\ (Restarted(previous, sample, f) =>
                  sample.delta[f] = sample.counter[f]) =>
            \A n \in Events :
              file.at[f] < n /\ n <= sample.at[f] - sample.delta[f] => n \in excused[f]
       /\ point = "stored" =>
            \A n \in Events : Covers(sample, f, n) => reports[f][n] > 0

MissedInv == ReadingInv /\ SampleInv /\ NothingMissed
=============================================================================
