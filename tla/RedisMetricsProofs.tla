-------------------------- MODULE RedisMetricsProofs --------------------------
(***************************************************************************)
(* Proofs about RedisMetrics, for every set of counters and every bound on *)
(* events, stops of Redis and faults.                                      *)
(***************************************************************************)
EXTENDS RedisMetrics, FiniteSets, FiniteSetTheorems, TLAPS

\* A counter is never negative: Redis has not forgotten what did not happen.
CountersInv == \A f \in Fields : base[f] <= total[f]

TypeInv == TypeOK /\ CountersInv

LEMMA TypeInit == Init => TypeInv
BY BoundAssumption
   DEF Init, TypeInv, TypeOK, CountersInv, Zero, Reading, NoReading, Points, Down

\* What Record and End do to the variables they set.
LEMMA RecordType ==
  ASSUME TypeOK, NEW p \in Points, Record(p)
  PROVE  /\ health' \in {"none", "up", "down"}
         /\ reports' \in [Fields -> [Events -> Nat]]
<1>1. \A f \in Fields : [n \in Events |->
         IF Covers(p, f, n) THEN reports[f][n] + 1 ELSE reports[f][n]]
           \in [Events -> Nat]
  <2> TAKE f \in Fields
  <2>1. \A n \in Events : reports[f][n] \in Nat
    BY DEF TypeOK
  <2>2. QED BY <2>1
<1>2. QED BY <1>1 DEF Record

LEMMA EndType ==
  ASSUME TypeOK, End
  PROVE  /\ pc' = "idle" /\ attempt' \in Nat /\ point' = "unsent"
         /\ sample' \in Points /\ previous' \in Reading
         /\ late' \subseteq [id: Nat, point: Points]
BY DEF TypeOK, End, Down, Points, Zero, Reading, NoReading

LEMMA HealthyType ==
  ASSUME TypeInv
  PROVE  Healthy \in Points
<1>1. \A f \in Fields : Counter(f) \in Nat
  <2> TAKE f \in Fields
  <2>1. total[f] \in Nat /\ base[f] \in Nat /\ base[f] <= total[f]
    BY DEF TypeInv, TypeOK, CountersInv
  <2>2. QED BY <2>1 DEF Counter
<1>2. \A f \in Fields : previous.counter[f] \in Nat
  BY DEF TypeInv, TypeOK, Reading
<1>3. \A f \in Fields : Delta(f) \in Nat
  <2> TAKE f \in Fields
  <2>1. Counter(f) \in Nat /\ previous.counter[f] \in Nat
    BY <1>1, <1>2
  <2>2. CASE Counter(f) >= previous.counter[f]
    BY <2>1, <2>2 DEF Delta
  <2>3. CASE ~(Counter(f) >= previous.counter[f])
    BY <2>1, <2>3 DEF Delta
  <2>4. QED BY <2>2, <2>3
<1>4. total \in [Fields -> Nat]
  BY DEF TypeInv, TypeOK
<1>5. QED BY <1>1, <1>3, <1>4 DEF Healthy, Points

LEMMA TypeStep ==
  ASSUME TypeInv, [Next]_vars
  PROVE  TypeInv'
<1> USE DEF TypeInv, TypeOK, CountersInv, redisVars, runVars, serverVars
<1>1. ASSUME NEW f \in Fields, Event(f) PROVE TypeInv'
  <2>1. total' = [total EXCEPT ![f] = total[f] + 1]
    BY <1>1 DEF Event
  <2>2. total' \in [Fields -> Nat] /\ \A g \in Fields : total[g] <= total'[g]
    BY <2>1
  <2>3. UNCHANGED <<redis, base, stops, file, runVars, serverVars, excused, outgrown, faults>>
    BY <1>1 DEF Event
  <2>4. QED BY <2>2, <2>3
<1>2. CASE Stop
  BY <1>2 DEF Stop
<1>3. CASE Start
  BY <1>3 DEF Start
<1>4. CASE LoadState
  <2>1. NoReading \in Reading
    BY DEF Reading, NoReading, Zero
  <2>2. previous' \in Reading /\ faults' \in Nat
    BY <1>4, <2>1 DEF LoadState, Fault
  <2>3. QED BY <1>4, <2>2 DEF LoadState
<1>5. CASE Collect
  <2>1. Healthy \in Points /\ Down \in Points
    BY HealthyType DEF Down, Points, Zero
  <2>2. sample' \in Points /\ faults' \in Nat
    BY <1>5, <2>1 DEF Collect, Fault
  <2>3. QED BY <1>5, <2>2 DEF Collect
<1>6. CASE Identity
  BY <1>6 DEF Identity
<1>7. CASE Store
  <2>1. sample \in Points
    OBVIOUS
  <2>2. QED BY <1>7, <2>1, RecordType DEF Store
<1>8. ASSUME NEW l \in late, StoreLate(l) PROVE TypeInv'
  <2>1. l.point \in Points
    OBVIOUS
  <2>2. QED BY <1>8, <2>1, RecordType DEF StoreLate
<1>9. CASE Published
  BY <1>9, EndType DEF Published
<1>10. CASE Refused
  BY <1>10, EndType DEF Refused
<1>11. CASE Retry
  BY <1>11, EndType DEF Retry, Fault
<1>12. CASE SaveState
  <2>1. file' \in Reading
    BY <1>12 DEF SaveState, Reading, Points
  <2>2. excused' \in [Fields -> SUBSET Events] /\ outgrown' \in [Fields -> BOOLEAN]
    BY <1>12 DEF SaveState
  <2>3. QED BY <1>12, <2>1, <2>2, EndType DEF SaveState
<1>13. CASE Abort
  BY <1>13, EndType DEF Abort, Fault
<1>14. CASE UNCHANGED vars
  BY <1>14 DEF vars
<1>15. QED
  BY <1>1, <1>2, <1>3, <1>4, <1>5, <1>6, <1>7, <1>8, <1>9, <1>10, <1>11,
     <1>12, <1>13, <1>14 DEF Next, Run

\* Every variable keeps its type and Redis's counters stay natural numbers,
\* and with them every delta: no reset makes a difference negative.
THEOREM TypeCorrect == Spec => []TypeOK
<1>1. TypeInv => TypeOK
  BY DEF TypeInv
<1>2. QED BY TypeInit, TypeStep, <1>1, PTL DEF Spec
-------------------------------------------------------------------------------

LEMMA MissedInit == Init => MissedInv
BY BoundAssumption
   DEF Init, MissedInv, ReadingInv, SampleInv, NothingMissed, NoReading, Zero,
       Down, Events

\* A stored point adds to what is reported, and takes nothing away.
LEMMA RecordKeeps ==
  ASSUME TypeOK, NEW p \in Points, Record(p), NEW f \in Fields, NEW n \in Events
  PROVE  /\ reports[f][n] > 0 => reports'[f][n] > 0
         /\ Covers(p, f, n) => reports'[f][n] > 0
<1>1. reports[f][n] \in Nat
  BY DEF TypeOK
<1>2. reports'[f][n] = IF Covers(p, f, n) THEN reports[f][n] + 1 ELSE reports[f][n]
  BY DEF Record
<1>3. QED BY <1>1, <1>2

\* A run that ends without saving leaves nothing behind that matters.
LEMMA EndKeeps ==
  ASSUME TypeOK, MissedInv, End,
         UNCHANGED <<redisVars, file, reports, excused, outgrown>>
  PROVE  MissedInv'
BY DEF TypeOK, MissedInv, ReadingInv, SampleInv, NothingMissed, End, NoReading,
       Down, redisVars

LEMMA CollectKeeps ==
  ASSUME TypeInv, MissedInv, Collect
  PROVE  MissedInv'
<1> USE DEF redisVars, serverVars
<1>1. ReadingInv' /\ NothingMissed'
  BY DEF Collect, MissedInv, ReadingInv, NothingMissed
<1>2. CASE sample' = Down
  <2>1. SampleInv'
    BY <1>2 DEF Collect, MissedInv, SampleInv, Down, serverVars
  <2>2. QED BY <1>1, <2>1 DEF MissedInv
<1>3. CASE sample' = Healthy
  <2>1. pc' = "identity" /\ point' = point /\ previous' = previous /\ file' = file
          /\ excused' = excused /\ total' = total /\ base' = base
    BY DEF Collect
  <2>2. ASSUME NEW f \in Fields
        PROVE  /\ file.at[f] <= total[f]
               /\ total[f] - Counter(f) <= base[f]
               /\ previous.there
                    /\ (previous.at[f] - previous.counter[f] # total[f] - Counter(f)
                          => Delta(f) = Counter(f)) =>
                    \A n \in Events :
                      file.at[f] < n /\ n <= total[f] - Delta(f) => n \in excused[f]
    <3>1. /\ total[f] \in Nat /\ base[f] \in Nat /\ base[f] <= total[f]
          /\ file.at[f] \in Nat /\ file.counter[f] \in Nat
      BY DEF TypeInv, TypeOK, CountersInv, Reading
    <3>2. /\ file.at[f] <= total[f]
          /\ file.at[f] - file.counter[f] <= base[f]
          /\ \A n \in Events : file.at[f] < n /\ n <= base[f] => n \in excused[f]
          /\ previous.there => previous = file
      BY DEF MissedInv, ReadingInv
    <3>3. total[f] - Counter(f) = base[f]
      BY <3>1 DEF Counter
    <3>4. ASSUME previous.there, Delta(f) = Counter(f), NEW n \in Events,
                 file.at[f] < n, n <= total[f] - Delta(f)
          PROVE  n \in excused[f]
      BY <3>2, <3>3, <3>4
    <3>5. ASSUME previous.there,
                 previous.at[f] - previous.counter[f] = total[f] - Counter(f)
          PROVE  total[f] - Delta(f) = file.at[f]
      <4>1. Counter(f) - previous.counter[f] = total[f] - file.at[f]
        BY <3>1, <3>2, <3>5 DEF Counter
      <4>2. Delta(f) = Counter(f) - previous.counter[f]
        BY <3>1, <3>2, <3>5, <4>1 DEF Delta, Counter
      <4>3. QED BY <3>1, <4>1, <4>2 DEF Counter
    <3>6. \A n \in Events : n \in Int
      BY BoundAssumption DEF Events
    <3>7. QED BY <3>1, <3>2, <3>3, <3>4, <3>5, <3>6
  <2>3. pc = "collect" /\ point # "stored"
    BY DEF Collect, MissedInv, SampleInv
  <2>4. ASSUME NEW f \in Fields
        PROVE  /\ sample'.at[f] = total[f] /\ sample'.counter[f] = Counter(f)
               /\ sample'.delta[f] = Delta(f) /\ sample'.up
    BY <1>3, f \in Fields DEF Healthy, TypeInv, TypeOK
  <2>5. SampleInv'
    BY <2>1, <2>2, <2>3, <2>4 DEF SampleInv, Restarted, TypeInv, TypeOK
  <2>6. QED BY <1>1, <2>5 DEF MissedInv
<1>4. QED BY <1>2, <1>3 DEF Collect

\* Saving: what the sample left out was excused, the rest is reported.
LEMMA SaveKeeps ==
  ASSUME TypeInv, MissedInv, SaveState
  PROVE  MissedInv'
<1> USE DEF redisVars
<1>1. /\ pc = "save" /\ sample.up /\ point = "stored"
      /\ file' = [there |-> TRUE, counter |-> sample.counter, at |-> sample.at]
      /\ total' = total /\ base' = base /\ reports' = reports
      /\ pc' = "idle" /\ sample' = Down /\ previous' = NoReading /\ point' = "unsent"
  BY DEF SaveState, End, MissedInv, SampleInv
<1>2. ASSUME NEW f \in Fields
      PROVE  /\ file'.at[f] = sample.at[f] /\ file'.counter[f] = sample.counter[f]
             /\ base[f] \in Nat /\ file.at[f] \in Nat /\ sample.at[f] \in Nat
             /\ sample.delta[f] \in Nat
             /\ excused[f] \subseteq excused'[f]
             /\ ~previous.there => \A n \in Events : n <= sample.at[f] => n \in excused'[f]
             /\ ~outgrown'[f] => ~outgrown[f]
             /\ ~outgrown'[f] /\ previous.there =>
                  (Restarted(previous, sample, f) => sample.delta[f] = sample.counter[f])
  BY <1>1, f \in Fields DEF SaveState, TypeInv, TypeOK, Reading, Points
<1>3. ASSUME NEW f \in Fields
      PROVE  /\ base[f] <= total[f]
             /\ file.at[f] <= sample.at[f] /\ sample.at[f] <= total[f]
             /\ sample.at[f] - sample.counter[f] <= base[f]
             /\ \A n \in Events : file.at[f] < n /\ n <= base[f] => n \in excused[f]
             /\ \A n \in Events : Covers(sample, f, n) => reports[f][n] > 0
  BY <1>1 DEF MissedInv, ReadingInv, SampleInv
<1>4. \A n \in Events : n \in Int
  BY BoundAssumption DEF Events
<1>5. ReadingInv'
  BY <1>1, <1>2, <1>3, <1>4 DEF ReadingInv, NoReading
<1>6. SampleInv'
  BY <1>1 DEF SampleInv, Down
<1>7. ASSUME NEW f \in Fields, ~outgrown'[f], NEW n \in Events, n <= sample.at[f]
      PROVE  n \in excused'[f] \/ reports[f][n] > 0
  <2>1. CASE ~previous.there
    BY <1>2, <1>7, <2>1
  <2>2. CASE previous.there
    <3>1. previous = file
      BY <2>2 DEF MissedInv, ReadingInv
    <3>2. CASE n <= file.at[f]
      BY <1>2, <1>7, <2>2, <3>1, <3>2 DEF MissedInv, NothingMissed
    <3>3. CASE file.at[f] < n /\ n <= sample.at[f] - sample.delta[f]
      <4>1. Restarted(previous, sample, f) => sample.delta[f] = sample.counter[f]
        BY <1>2, <1>7, <2>2
      <4>2. n \in excused[f]
        BY <1>1, <2>2, <3>3, <4>1 DEF MissedInv, SampleInv
      <4>3. QED BY <1>2, <4>2
    <3>4. CASE sample.at[f] - sample.delta[f] < n
      BY <1>3, <1>7, <3>4 DEF Covers
    <3>5. QED BY <1>2, <1>4, <3>2, <3>3, <3>4
  <2>3. QED BY <2>1, <2>2
<1>8. NothingMissed'
  BY <1>1, <1>2, <1>7 DEF NothingMissed
<1>9. QED BY <1>5, <1>6, <1>8 DEF MissedInv

\* Redis stops: what it forgets is excused from now on.
LEMMA StopKeeps ==
  ASSUME TypeInv, MissedInv, Stop
  PROVE  MissedInv'
<1> USE DEF redisVars, runVars, serverVars
<1>1. ASSUME NEW f \in Fields
      PROVE  /\ total[f] \in Nat /\ base[f] \in Nat /\ base[f] <= total[f]
             /\ base'[f] = total[f] /\ total'[f] = total[f]
             /\ file.at[f] \in Nat /\ file.counter[f] \in Nat
             /\ sample.at[f] \in Nat /\ sample.counter[f] \in Nat
             /\ excused[f] \subseteq excused'[f]
             /\ \A n \in Events : file.at[f] < n /\ n <= total[f] => n \in excused'[f]
  BY DEF Stop, TypeInv, TypeOK, CountersInv, Reading, Points
<1>2. UNCHANGED <<file, runVars, serverVars, outgrown>>
  BY DEF Stop
<1>3. ReadingInv'
  BY <1>1, <1>2 DEF MissedInv, ReadingInv
<1>4. SampleInv'
  BY <1>1, <1>2 DEF MissedInv, SampleInv, Restarted, Covers
<1>5. NothingMissed'
  BY <1>1, <1>2 DEF MissedInv, NothingMissed
<1>6. QED BY <1>3, <1>4, <1>5 DEF MissedInv

LEMMA StoreKeeps ==
  ASSUME TypeInv, MissedInv, Store
  PROVE  MissedInv'
<1> USE DEF redisVars
<1>1. UNCHANGED <<redisVars, file, pc, previous, sample, excused, outgrown>>
        /\ pc = "publish" /\ point' = "stored"
  BY DEF Store
<1>2. ASSUME NEW f \in Fields, NEW n \in Events
      PROVE  /\ reports[f][n] > 0 => reports'[f][n] > 0
             /\ Covers(sample, f, n) => reports'[f][n] > 0
  BY RecordKeeps DEF Store, TypeInv, TypeOK
<1>3. ReadingInv'
  BY <1>1 DEF MissedInv, ReadingInv
<1>4. SampleInv'
  BY <1>1, <1>2 DEF MissedInv, SampleInv, Restarted, Covers
<1>5. NothingMissed'
  BY <1>1, <1>2 DEF MissedInv, NothingMissed
<1>6. QED BY <1>3, <1>4, <1>5 DEF MissedInv

LEMMA StoreLateKeeps ==
  ASSUME TypeInv, MissedInv, NEW l \in late, StoreLate(l)
  PROVE  MissedInv'
<1> USE DEF redisVars, runVars
<1>1. UNCHANGED <<redisVars, file, runVars, excused, outgrown>>
  BY DEF StoreLate
<1>2. l.point \in Points
  BY DEF TypeInv, TypeOK
<1>3. ASSUME NEW f \in Fields, NEW n \in Events
      PROVE  reports[f][n] > 0 => reports'[f][n] > 0
  BY <1>2, RecordKeeps DEF StoreLate, TypeInv
<1>4. ReadingInv'
  BY <1>1 DEF MissedInv, ReadingInv
<1>5. SampleInv'
  BY <1>1, <1>3 DEF MissedInv, SampleInv, Restarted, Covers
<1>6. NothingMissed'
  BY <1>1, <1>3 DEF MissedInv, NothingMissed
<1>7. QED BY <1>4, <1>5, <1>6 DEF MissedInv

LEMMA EventKeeps ==
  ASSUME TypeInv, MissedInv, NEW g \in Fields, Event(g)
  PROVE  MissedInv'
<1>1. ASSUME NEW f \in Fields
      PROVE  /\ total[f] \in Nat /\ total[f] <= total'[f] /\ total'[f] \in Nat
             /\ base[f] \in Nat /\ file.at[f] \in Nat /\ sample.at[f] \in Nat
  BY DEF Event, TypeInv, TypeOK, Reading, Points
<1>2. UNCHANGED <<base, file, runVars, serverVars, excused, outgrown>>
  BY DEF Event
<1>3. ReadingInv'
  BY <1>1, <1>2 DEF MissedInv, ReadingInv, runVars
<1>4. SampleInv'
  BY <1>1, <1>2 DEF MissedInv, SampleInv, Restarted, Covers, runVars, serverVars
<1>5. NothingMissed'
  BY <1>1, <1>2 DEF MissedInv, NothingMissed, serverVars
<1>6. QED BY <1>3, <1>4, <1>5 DEF MissedInv

LEMMA MissedStep ==
  ASSUME TypeInv, MissedInv, [Next]_vars
  PROVE  MissedInv'
<1> USE DEF redisVars, runVars, serverVars
<1> DEFINE Same == UNCHANGED <<redisVars, file, reports, excused, outgrown>>
<1>1. TypeOK
  BY DEF TypeInv
<1>2. CASE Start
  BY <1>2 DEF Start, MissedInv, ReadingInv, SampleInv, NothingMissed
<1>3. CASE LoadState
  <2>1. previous' = file \/ ~previous'.there
    BY <1>3 DEF LoadState, NoReading
  <2>2. ~sample.up
    BY <1>3 DEF LoadState, MissedInv, SampleInv
  <2>3. pc' = "collect" /\ pc = "idle"
          /\ UNCHANGED <<redisVars, file, sample, point, serverVars, excused, outgrown>>
    BY <1>3 DEF LoadState
  <2>4. QED
    BY <2>1, <2>2, <2>3 DEF MissedInv, ReadingInv, SampleInv, NothingMissed
<1>4. CASE Identity
  BY <1>4 DEF Identity, MissedInv, ReadingInv, SampleInv, NothingMissed
<1>5. CASE Published
  <2>1. CASE sample.up
    BY <1>5, <2>1 DEF Published, MissedInv, ReadingInv, SampleInv, NothingMissed
  <2>2. CASE ~sample.up
    BY <1>1, <1>5, <2>2, EndKeeps DEF Published
  <2>3. QED BY <2>1, <2>2
<1>6. CASE Refused
  BY <1>1, <1>6, EndKeeps DEF Refused
<1>7. CASE Retry
  <2>1. CASE attempt < Attempts
    BY <1>7, <2>1 DEF Retry, MissedInv, ReadingInv, SampleInv, NothingMissed
  <2>2. CASE ~(attempt < Attempts)
    BY <1>1, <1>7, <2>2, EndKeeps DEF Retry
  <2>3. QED BY <2>1, <2>2
<1>8. CASE Abort
  BY <1>1, <1>8, EndKeeps DEF Abort
<1>9. CASE UNCHANGED vars
  BY <1>9 DEF vars, MissedInv, ReadingInv, SampleInv, NothingMissed
<1>10. QED
  BY <1>2, <1>3, <1>4, <1>5, <1>6, <1>7, <1>8, <1>9, CollectKeeps, SaveKeeps,
     StopKeeps, StoreKeeps, StoreLateKeeps, EventKeeps DEF Next, Run

\* Every event up to the saved reading is in a stored sample or excused, for
\* any number of events, stops of Redis, failed runs and late points.
THEOREM SavedIsReported == Spec => []NothingMissed
<1>1. MissedInv => NothingMissed
  BY DEF MissedInv
<1>2. Spec => [](TypeInv /\ MissedInv)
  BY TypeInit, TypeStep, MissedInit, MissedStep, PTL DEF Spec
<1>3. QED BY <1>1, <1>2, PTL
-------------------------------------------------------------------------------
(***************************************************************************)
(* The inductive invariant behind RepeatsAreFaults.  It counts a report    *)
(* that may still arrive like one that did.  Until an event is saved, each *)
(* report of it has been paid for by a fault, except the one of the point  *)
(* that the present run has stored; saving lets that one be the first.     *)
(* What is saved is in no later sample.  A retry is paid for too, because  *)
(* it is the repeated request that lets a run end without a further fault. *)
(***************************************************************************)
Late(f, n) == {l \in late : Covers(l.point, f, n)}
Counted(f, n) == reports[f][n] + Cardinality(Late(f, n))
Retried == IF attempt = 0 THEN 0 ELSE attempt - 1
Stored(f, n) == IF point = "stored" /\ Covers(sample, f, n) THEN 1 ELSE 0

Paid(f, n) ==
  IF n <= file.at[f] THEN Counted(f, n) <= faults + 1
                     ELSE Counted(f, n) + Retried <= faults + Stored(f, n)

FreshInv ==
  \A f \in Fields :
    /\ sample.up => file.at[f] <= sample.at[f] - sample.delta[f]
    /\ ~sample.up => sample.at[f] = 0

\* A reading is of the counters that Redis has now, or of ones it forgot later.
Dated(reading, f) ==
  reading.at[f] <= base[f] \/ reading.at[f] - reading.counter[f] = base[f]

DatedInv == \A f \in Fields : Dated(file, f) /\ (sample.up => Dated(sample, f))

RepeatInv ==
  /\ IsFiniteSet(late)
  /\ attempt = 0 <=> pc \notin {"publish", "save"}
  /\ FreshInv
  /\ \A f \in Fields : \A n \in Events : Paid(f, n)

LEMMA DatedInit == Init => DatedInv
<1> SUFFICES ASSUME Init PROVE DatedInv
  OBVIOUS
<1>1. base = Zero /\ file = NoReading /\ ~sample.up
  BY DEF Init, Down
<1>2. \A f \in Fields : file.at[f] = 0 /\ base[f] = 0
  BY <1>1 DEF NoReading, Zero
<1>3. ASSUME NEW f \in Fields PROVE Dated(file, f)
  <2>1. file.at[f] <= base[f]
    BY <1>2
  <2> QED BY <2>1 DEF Dated
<1> QED BY <1>1, <1>3 DEF DatedInv

LEMMA DatedStep ==
  ASSUME TypeInv, MissedInv, DatedInv, [Next]_vars
  PROVE  DatedInv'
<1> USE DEF redisVars, runVars
<1>1. ASSUME NEW f \in Fields
      PROVE  /\ total[f] \in Nat /\ base[f] \in Nat /\ base[f] <= total[f]
             /\ file.at[f] \in Nat /\ file.counter[f] \in Nat
             /\ sample.at[f] \in Nat /\ sample.counter[f] \in Nat
             /\ file.at[f] <= total[f] /\ (sample.up => sample.at[f] <= total[f])
  BY DEF TypeInv, TypeOK, CountersInv, Reading, Points, MissedInv, ReadingInv, SampleInv
<1>2. CASE Stop
  BY <1>1, <1>2 DEF Stop, DatedInv, Dated
<1>3. CASE Collect
  <2>1. UNCHANGED <<base, file>>
    BY <1>3 DEF Collect
  <2>2. CASE sample' = Down
    BY <2>1, <2>2 DEF DatedInv, Dated, Down
  <2>3. CASE sample' = Healthy
    <3>1. ASSUME NEW f \in Fields
          PROVE  sample'.at[f] = total[f] /\ sample'.counter[f] = total[f] - base[f]
      BY <2>3, f \in Fields DEF Healthy, Counter, TypeInv, TypeOK
    <3> QED BY <1>1, <2>1, <3>1 DEF DatedInv, Dated
  <2> QED BY <1>3, <2>2, <2>3 DEF Collect
<1>4. CASE SaveState
  <2>1. /\ sample.up /\ sample' = Down /\ base' = base
        /\ file' = [there |-> TRUE, counter |-> sample.counter, at |-> sample.at]
    BY <1>4 DEF SaveState, End, MissedInv, SampleInv
  <2> QED BY <2>1 DEF DatedInv, Dated, Down
<1>5. CASE UNCHANGED <<base, file>> /\ (sample' = sample \/ sample' = Down)
  BY <1>5 DEF DatedInv, Dated, Down
<1>6. ASSUME NEW f \in Fields, Event(f)
      PROVE  UNCHANGED <<base, file>> /\ sample' = sample
  BY <1>6 DEF Event
<1>7. CASE Start \/ LoadState \/ Identity \/ Store
  BY <1>5, <1>7 DEF Start, LoadState, Identity, Store
<1>8. ASSUME NEW l \in late, StoreLate(l)
      PROVE  UNCHANGED <<base, file>> /\ sample' = sample
  BY <1>8 DEF StoreLate
<1>9. CASE Published \/ Refused \/ Retry \/ Abort
  BY <1>5, <1>9 DEF Published, Refused, Retry, Abort, End
<1>10. CASE UNCHANGED vars
  BY <1>5, <1>10 DEF vars
<1> QED
  BY <1>2, <1>3, <1>4, <1>5, <1>6, <1>7, <1>8, <1>9, <1>10 DEF Next, Run

LEMMA RepeatInit == Init => RepeatInv
<1> SUFFICES ASSUME Init PROVE RepeatInv
  OBVIOUS
<1>1. late = {} /\ attempt = 0 /\ faults = 0 /\ pc = "idle" /\ point = "unsent"
        /\ sample = Down /\ file = NoReading
  BY DEF Init
<1>2. IsFiniteSet({}) /\ Cardinality({}) = 0
  BY FS_EmptySet
<1>3. ASSUME NEW f \in Fields, NEW n \in Events PROVE Paid(f, n)
  <2>1. reports[f][n] = 0
    BY DEF Init
  <2>2. Late(f, n) = {}
    BY <1>1 DEF Late
  <2>3. Counted(f, n) = 0 /\ Retried = 0 /\ Stored(f, n) \in {0, 1}
    BY <1>1, <1>2, <2>1, <2>2 DEF Counted, Retried, Stored
  <2> QED BY <1>1, <2>3 DEF Paid
<1>4. FreshInv
  BY <1>1 DEF FreshInv, Down, NoReading, Zero
<1> QED BY <1>1, <1>2, <1>3, <1>4 DEF RepeatInv

\* The numbers that are compared.
LEMMA CountTypes ==
  ASSUME TypeInv, IsFiniteSet(late), NEW f \in Fields, NEW n \in Events
  PROVE  /\ IsFiniteSet(Late(f, n)) /\ Cardinality(Late(f, n)) \in Nat
         /\ reports[f][n] \in Nat /\ Counted(f, n) \in Nat
         /\ Retried \in Nat /\ faults \in Nat /\ n \in Nat /\ n > 0
         /\ file.at[f] \in Nat /\ sample.at[f] \in Nat /\ sample.delta[f] \in Nat
         /\ Stored(f, n) \in {0, 1}
<1>1. IsFiniteSet(Late(f, n)) /\ Cardinality(Late(f, n)) \in Nat
  BY FS_Subset, FS_CardinalityType DEF Late
<1>2. /\ reports[f][n] \in Nat /\ faults \in Nat /\ attempt \in Nat
      /\ file.at[f] \in Nat /\ sample.at[f] \in Nat /\ sample.delta[f] \in Nat
  BY DEF TypeInv, TypeOK, Reading, Points
<1>3. n \in Nat /\ n > 0
  BY BoundAssumption DEF Events
<1> QED BY <1>1, <1>2, <1>3 DEF Counted, Retried, Stored

\* No sample reports what is saved, and a sample of a Redis that is down
\* reports nothing.
LEMMA SavedIsNotCovered ==
  ASSUME TypeInv, RepeatInv, NEW f \in Fields, NEW n \in Events, Covers(sample, f, n)
  PROVE  n > file.at[f] /\ sample.up
<1>1. /\ n \in Nat /\ n > 0 /\ file.at[f] \in Nat
      /\ sample.at[f] \in Nat /\ sample.delta[f] \in Nat
  BY CountTypes DEF RepeatInv
<1>2. sample.at[f] - sample.delta[f] < n /\ n <= sample.at[f]
  BY DEF Covers
<1>3. sample.up
  BY <1>1, <1>2 DEF RepeatInv, FreshInv
<1>4. file.at[f] <= sample.at[f] - sample.delta[f]
  BY <1>3 DEF RepeatInv, FreshInv
<1> QED BY <1>1, <1>2, <1>3, <1>4

\* A step that neither sends nor stores: what it retries, a fault pays for.
LEMMA QuietPaid ==
  ASSUME TypeInv, TypeInv', RepeatInv,
         UNCHANGED <<reports, late, file>>,
         UNCHANGED <<sample, point>> \/ (point # "stored" /\ point' # "stored"),
         faults <= faults', Retried' - Retried <= faults' - faults,
         NEW f \in Fields, NEW n \in Events
  PROVE  Paid(f, n)'
<1>1. /\ Counted(f, n) \in Nat /\ Retried \in Nat /\ faults \in Nat
      /\ Stored(f, n) \in {0, 1}
  BY CountTypes DEF RepeatInv
<1>2. Retried' \in Nat /\ faults' \in Nat
  <2>1. attempt' \in Nat /\ faults' \in Nat
    BY DEF TypeInv, TypeOK
  <2>2. \A a \in Nat : (IF a = 0 THEN 0 ELSE a - 1) \in Nat
    OBVIOUS
  <2> QED BY <2>1, <2>2 DEF Retried
<1>3. Counted(f, n)' = Counted(f, n)
  BY DEF Counted, Late
<1>4. Stored(f, n)' = Stored(f, n)
  BY DEF Stored, Covers
<1>5. Paid(f, n)
  BY DEF RepeatInv
<1>6. CASE n <= file.at[f]
  BY <1>1, <1>2, <1>3, <1>5, <1>6 DEF Paid
<1>7. CASE ~(n <= file.at[f])
  <2>1. Counted(f, n) + Retried <= faults + Stored(f, n)
    BY <1>5, <1>7 DEF Paid
  <2>2. \A c, a, b, x, y \in Nat : \A d \in {0, 1} :
          c + a <= x + d /\ b - a <= y - x => c + b <= y + d
    OBVIOUS
  <2>3. Counted(f, n) + Retried' <= faults' + Stored(f, n)
    BY <1>1, <1>2, <2>1, <2>2
  <2> QED BY <1>3, <1>4, <1>7, <2>3 DEF Paid
<1> QED BY <1>6, <1>7

\* The same for all fields, when the run goes on.
LEMMA QuietRepeats ==
  ASSUME TypeInv, TypeInv', RepeatInv,
         UNCHANGED <<reports, late, file, sample, point>>,
         attempt' = 0 <=> pc' \notin {"publish", "save"},
         faults <= faults', Retried' - Retried <= faults' - faults
  PROVE  RepeatInv'
<1>1. \A f \in Fields : \A n \in Events : Paid(f, n)'
  BY QuietPaid
<1>2. FreshInv'
  BY DEF RepeatInv, FreshInv
<1> QED BY <1>1, <1>2 DEF RepeatInv

\* A run ends without saving.  A point on its way is a report to come, and a
\* stored one stays a report: in both cases a fault has paid for it.
LEMMA EndPaid ==
  ASSUME TypeInv, TypeInv', RepeatInv, End, UNCHANGED <<reports, file>>,
         faults <= faults',
         point = "sent" => faults + 1 <= faults',
         \/ point # "stored" \/ ~sample.up \/ attempt > 1 \/ faults + 1 <= faults',
         NEW f \in Fields, NEW n \in Events
  PROVE  Paid(f, n)'
<1> DEFINE l == [id |-> faults, point |-> sample]
           c == Cardinality(Late(f, n))
           r == reports[f][n]
<1>1. /\ IsFiniteSet(Late(f, n)) /\ c \in Nat /\ r \in Nat /\ Retried \in Nat
      /\ faults \in Nat /\ n \in Nat /\ file.at[f] \in Nat /\ Counted(f, n) = r + c
      /\ attempt \in Nat
  BY CountTypes DEF RepeatInv, Counted, TypeInv, TypeOK
<1>2. faults' \in Nat /\ Retried' = 0
  BY DEF TypeInv, TypeOK, End, Retried
<1>3. Stored(f, n)' = 0
  BY DEF End, Stored
<1>4. CASE point # "sent"
  <2>1. Counted(f, n)' = r + c
    BY <1>4 DEF End, Counted, Late
  <2>2. CASE n <= file.at[f]
    <3>1. r + c <= faults + 1
      BY <1>1, <2>2 DEF RepeatInv, Paid
    <3> QED BY <1>1, <1>2, <2>1, <2>2, <3>1 DEF Paid
  <2>3. CASE ~(n <= file.at[f])
    <3>1. r + c + Retried <= faults + Stored(f, n)
      BY <1>1, <2>3 DEF RepeatInv, Paid
    <3>2. Stored(f, n) \in {0, 1} /\ (Stored(f, n) = 1 => point = "stored" /\ sample.up)
      BY SavedIsNotCovered DEF Stored
    <3>3. attempt > 1 => Retried >= 1
      BY <1>1 DEF Retried
    <3>4. r + c <= faults'
      BY <1>1, <1>2, <3>1, <3>2, <3>3
    <3> QED BY <1>1, <1>2, <1>3, <2>1, <2>3, <3>4 DEF Paid
  <2> QED BY <2>2, <2>3
<1>5. CASE point = "sent"
  <2>1. late' = late \cup {l}
    BY <1>5 DEF End
  <2>2. Stored(f, n) = 0
    BY <1>5 DEF Stored
  <2>3. CASE ~Covers(sample, f, n)
    <3>1. Late(f, n)' = Late(f, n)
      BY <2>1, <2>3 DEF Late, Covers
    <3>2. Counted(f, n)' = r + c
      BY <3>1 DEF Counted
    <3>3. CASE n <= file.at[f]
      <4>1. r + c <= faults + 1
        BY <1>1, <3>3 DEF RepeatInv, Paid
      <4> QED BY <1>1, <1>2, <3>2, <3>3, <4>1 DEF Paid
    <3>4. CASE ~(n <= file.at[f])
      <4>1. r + c + Retried <= faults
        BY <1>1, <2>2, <3>4 DEF RepeatInv, Paid
      <4>2. r + c <= faults'
        BY <1>1, <1>2, <4>1
      <4> QED BY <1>1, <1>2, <1>3, <3>2, <3>4, <4>2 DEF Paid
    <3> QED BY <3>3, <3>4
  <2>4. CASE Covers(sample, f, n)
    <3>1. ~(n <= file.at[f])
      BY <1>1, <2>4, SavedIsNotCovered
    <3>2. Late(f, n)' = Late(f, n) \cup {l}
      BY <2>1, <2>4 DEF Late, Covers
    <3>3. Cardinality(Late(f, n) \cup {l}) \in {c, c + 1}
      BY <1>1, FS_AddElement
    <3>4. Counted(f, n)' <= r + c + 1 /\ Counted(f, n)' \in Nat
      BY <1>1, <3>2, <3>3 DEF Counted
    <3>5. r + c + Retried <= faults
      BY <1>1, <2>2, <3>1 DEF RepeatInv, Paid
    <3>6. Counted(f, n)' <= faults'
      BY <1>1, <1>2, <1>5, <3>4, <3>5
    <3> QED BY <1>2, <1>3, <3>1, <3>4, <3>6 DEF Paid
  <2> QED BY <2>3, <2>4
<1> QED BY <1>4, <1>5

LEMMA EndRepeats ==
  ASSUME TypeInv, TypeInv', RepeatInv, End, UNCHANGED <<reports, file>>,
         faults <= faults',
         point = "sent" => faults + 1 <= faults',
         \/ point # "stored" \/ ~sample.up \/ attempt > 1 \/ faults + 1 <= faults'
  PROVE  RepeatInv'
<1>1. \A f \in Fields : \A n \in Events : Paid(f, n)'
  BY EndPaid
<1>2. FreshInv'
  BY DEF End, FreshInv, Down, Zero
<1>3. IsFiniteSet(late')
  BY FS_AddElement DEF End, RepeatInv
<1>4. attempt' = 0 /\ pc' = "idle"
  BY DEF End
<1> QED BY <1>1, <1>2, <1>3, <1>4 DEF RepeatInv

\* Saving: what was stored once becomes the report that needs no fault.
LEMMA SaveRepeats ==
  ASSUME TypeInv, TypeInv', MissedInv, RepeatInv, SaveState
  PROVE  RepeatInv'
<1>1. /\ pc = "save" /\ sample.up /\ point = "stored"
      /\ file' = [there |-> TRUE, counter |-> sample.counter, at |-> sample.at]
      /\ UNCHANGED <<reports, late, faults>>
      /\ pc' = "idle" /\ attempt' = 0 /\ point' = "unsent" /\ sample' = Down
  BY DEF SaveState, End, MissedInv, SampleInv
<1>2. ASSUME NEW f \in Fields, NEW n \in Events PROVE Paid(f, n)'
  <2>1. /\ Counted(f, n) \in Nat /\ Retried \in Nat /\ faults \in Nat /\ n \in Nat
        /\ Stored(f, n) \in {0, 1} /\ file.at[f] \in Nat /\ sample.at[f] \in Nat
    BY CountTypes DEF RepeatInv
  <2>2. Counted(f, n)' = Counted(f, n) /\ Retried' = 0 /\ Stored(f, n)' = 0
    BY <1>1 DEF Counted, Late, Retried, Stored
  <2>3. file'.at[f] = sample.at[f] /\ file.at[f] <= sample.at[f]
    BY <1>1 DEF MissedInv, SampleInv
  <2>4. Paid(f, n)
    BY DEF RepeatInv
  <2>5. Counted(f, n) <= faults + 1
    BY <2>1, <2>4 DEF Paid
  <2>6. CASE n <= sample.at[f]
    BY <1>1, <2>2, <2>3, <2>5, <2>6 DEF Paid
  <2>7. CASE ~(n <= sample.at[f])
    <3>1. Stored(f, n) = 0
      BY <2>7 DEF Stored, Covers
    <3>2. ~(n <= file.at[f])
      BY <2>1, <2>3, <2>7
    <3>3. Counted(f, n) <= faults
      BY <2>1, <2>4, <3>1, <3>2 DEF Paid
    <3> QED BY <1>1, <2>1, <2>2, <2>3, <2>7, <3>3 DEF Paid
  <2> QED BY <2>6, <2>7
<1>3. FreshInv'
  BY <1>1 DEF FreshInv, Down, Zero
<1> QED BY <1>1, <1>2, <1>3 DEF RepeatInv

\* Storing the run's own point.  The late ones are refused from then on.
LEMMA StoreRepeats ==
  ASSUME TypeInv, TypeInv', RepeatInv, Store
  PROVE  RepeatInv'
<1>1. /\ pc = "publish" /\ point = "sent" /\ point' = "stored" /\ late' = {}
      /\ UNCHANGED <<file, pc, sample, attempt, faults>>
  BY DEF Store
<1>2. ASSUME NEW f \in Fields, NEW n \in Events PROVE Paid(f, n)'
  <2> DEFINE c == Cardinality(Late(f, n))
             r == reports[f][n]
  <2>1. /\ c \in Nat /\ r \in Nat /\ Retried \in Nat /\ faults \in Nat /\ n \in Nat
        /\ file.at[f] \in Nat /\ Counted(f, n) = r + c
    BY CountTypes DEF RepeatInv, Counted
  <2>2. reports'[f][n] = IF Covers(sample, f, n) THEN r + 1 ELSE r
    BY DEF Store, Record
  <2>3. Late(f, n)' = {} /\ Cardinality({}) = 0
    BY <1>1, FS_EmptySet DEF Late
  <2>4. Counted(f, n)' = r + Stored(f, n)' /\ Retried' = Retried /\ Stored(f, n) = 0
    BY <1>1, <2>1, <2>2, <2>3 DEF Counted, Stored, Covers, Retried
  <2>5. Stored(f, n)' \in {0, 1} /\ (Stored(f, n)' = 1 => ~(n <= file.at[f]))
    BY <1>1, <2>1, SavedIsNotCovered DEF Stored, Covers
  <2>6. CASE n <= file.at[f]
    <3>1. r + c <= faults + 1
      BY <2>1, <2>6 DEF RepeatInv, Paid
    <3>2. Counted(f, n)' <= faults + 1
      BY <2>1, <2>4, <2>5, <2>6, <3>1
    <3> QED BY <1>1, <2>6, <3>2 DEF Paid
  <2>7. CASE ~(n <= file.at[f])
    <3>1. r + c + Retried <= faults
      BY <2>1, <2>4, <2>7 DEF RepeatInv, Paid
    <3>2. Counted(f, n)' + Retried' <= faults + Stored(f, n)'
      BY <2>1, <2>4, <2>5, <3>1
    <3> QED BY <1>1, <2>7, <3>2 DEF Paid
  <2> QED BY <2>6, <2>7
<1>3. FreshInv'
  BY <1>1 DEF RepeatInv, FreshInv
<1> QED BY <1>1, <1>2, <1>3, FS_EmptySet DEF RepeatInv

\* A late point was counted when its run ended.
LEMMA StoreLateRepeats ==
  ASSUME TypeInv, TypeInv', RepeatInv, NEW l \in late, StoreLate(l)
  PROVE  RepeatInv'
<1>1. late' = late \ {l} /\ UNCHANGED <<file, pc, sample, attempt, point, faults>>
  BY DEF StoreLate, runVars
<1>2. ASSUME NEW f \in Fields, NEW n \in Events PROVE Paid(f, n)'
  <2> DEFINE c == Cardinality(Late(f, n))
             r == reports[f][n]
  <2>1. /\ IsFiniteSet(Late(f, n)) /\ c \in Nat /\ r \in Nat /\ Counted(f, n) = r + c
    BY CountTypes DEF RepeatInv, Counted
  <2>2. reports'[f][n] = IF Covers(l.point, f, n) THEN r + 1 ELSE r
    BY DEF StoreLate, Record
  <2>3. Late(f, n)' = Late(f, n) \ {l}
    BY <1>1 DEF Late, Covers
  <2>4. Covers(l.point, f, n) <=> l \in Late(f, n)
    BY DEF Late
  <2>5. Cardinality(Late(f, n) \ {l}) = IF l \in Late(f, n) THEN c - 1 ELSE c
    BY <2>1, FS_RemoveElement
  <2>6. Counted(f, n)' = Counted(f, n)
    BY <2>1, <2>2, <2>3, <2>4, <2>5 DEF Counted
  <2>7. Retried' = Retried /\ Stored(f, n)' = Stored(f, n)
    BY <1>1 DEF Retried, Stored, Covers
  <2>8. Paid(f, n)
    BY DEF RepeatInv
  <2> QED BY <1>1, <2>6, <2>7, <2>8 DEF Paid
<1>3. FreshInv'
  BY <1>1 DEF RepeatInv, FreshInv
<1>4. IsFiniteSet(late')
  BY <1>1, FS_RemoveElement DEF RepeatInv
<1> QED BY <1>1, <1>2, <1>3, <1>4 DEF RepeatInv

\* A new sample reports nothing that the state file has seen.
LEMMA CollectRepeats ==
  ASSUME TypeInv, TypeInv', MissedInv, DatedInv, RepeatInv, Collect
  PROVE  RepeatInv'
<1>1. /\ pc = "collect" /\ pc' = "identity" /\ UNCHANGED <<reports, late, file, attempt, point>>
      /\ faults' = faults \/ faults' = faults + 1
      /\ point # "stored" /\ faults \in Nat
  BY DEF Collect, Fault, serverVars, MissedInv, SampleInv, TypeInv, TypeOK
<1>2. faults <= faults' /\ Retried' - Retried <= faults' - faults
  <2>1. Retried' = Retried /\ Retried \in Nat
    BY <1>1 DEF Retried, TypeInv, TypeOK
  <2> QED BY <1>1, <2>1
<1>3. \A f \in Fields : \A n \in Events : Paid(f, n)'
  BY <1>1, <1>2, QuietPaid
<1>4. FreshInv'
  <2>1. CASE sample' = Down
    BY <2>1 DEF FreshInv, Down, Zero
  <2>2. CASE sample' = Healthy
    <3>1. ASSUME NEW f \in Fields
          PROVE  /\ sample'.up /\ sample'.at[f] = total[f] /\ sample'.delta[f] = Delta(f)
      BY <2>2 DEF Healthy, TypeInv, TypeOK
    <3>2. ASSUME NEW f \in Fields PROVE file.at[f] <= total[f] - Delta(f)
      <4>1. /\ total[f] \in Nat /\ base[f] \in Nat /\ base[f] <= total[f]
            /\ file.at[f] \in Nat /\ file.counter[f] \in Nat
        BY DEF TypeInv, TypeOK, CountersInv, Reading
      <4>2. /\ file.at[f] <= total[f] /\ file.at[f] - file.counter[f] <= base[f]
            /\ previous.there => previous = file
        BY DEF MissedInv, ReadingInv
      <4>3. CASE ~previous.there
        BY <4>1, <4>2, <4>3 DEF Delta
      <4>4. CASE previous.there /\ Counter(f) >= previous.counter[f]
        <5>1. Delta(f) = total[f] - base[f] - file.counter[f]
          BY <4>1, <4>2, <4>4 DEF Delta, Counter
        <5> QED BY <4>1, <4>2, <5>1
      <4>5. CASE previous.there /\ ~(Counter(f) >= previous.counter[f])
        <5>1. Delta(f) = total[f] - base[f]
          BY <4>1, <4>2, <4>5 DEF Delta, Counter
        <5>2. file.at[f] <= base[f]
          BY <4>1, <4>2, <4>5 DEF DatedInv, Dated, Counter
        <5> QED BY <4>1, <5>1, <5>2
      <4> QED BY <4>3, <4>4, <4>5
    <3> QED BY <1>1, <3>1, <3>2 DEF FreshInv
  <2> QED BY <2>1, <2>2 DEF Collect
<1> QED BY <1>1, <1>3, <1>4 DEF RepeatInv

LEMMA RepeatStep ==
  ASSUME TypeInv, TypeInv', MissedInv, DatedInv, RepeatInv, [Next]_vars
  PROVE  RepeatInv'
<1> USE DEF runVars, serverVars
<1>1. faults \in Nat /\ attempt \in Nat
  BY DEF TypeInv, TypeOK
<1>2. ASSUME UNCHANGED <<reports, late, file, sample, point, attempt>>,
             faults' \in {faults, faults + 1},
             pc' \notin {"publish", "save"} <=> pc \notin {"publish", "save"}
      PROVE  RepeatInv'
  <2>1. Retried' - Retried = 0
    BY <1>1, <1>2 DEF Retried
  <2>2. attempt' = 0 <=> pc' \notin {"publish", "save"}
    BY <1>2 DEF RepeatInv
  <2>3. faults <= faults' /\ Retried' - Retried <= faults' - faults
    BY <1>1, <1>2, <2>1
  <2> QED BY <1>2, <2>2, <2>3, QuietRepeats
<1>3. ASSUME NEW f \in Fields, Event(f) PROVE RepeatInv'
  BY <1>2, <1>3 DEF Event
<1>4. CASE Stop \/ Start
  BY <1>2, <1>4 DEF Stop, Start
<1>5. CASE LoadState
  BY <1>2, <1>5 DEF LoadState, Fault
<1>6. CASE Identity
  <2>1. /\ pc = "identity" /\ pc' = "publish" /\ attempt' = 1 /\ point' = "sent"
        /\ UNCHANGED <<reports, late, file, sample, faults>>
    BY <1>6 DEF Identity
  <2>2. point # "stored" /\ attempt = 0
    BY <2>1 DEF RepeatInv, MissedInv, SampleInv
  <2>3. Retried' = 0 /\ Retried = 0
    BY <2>1, <2>2 DEF Retried
  <2>4. faults <= faults' /\ Retried' - Retried <= faults' - faults
    BY <1>1, <2>1, <2>3
  <2>5. \A f \in Fields : \A n \in Events : Paid(f, n)'
    BY <2>1, <2>2, <2>4, QuietPaid
  <2>6. FreshInv'
    BY <2>1 DEF RepeatInv, FreshInv
  <2> QED BY <2>1, <2>5, <2>6 DEF RepeatInv
<1>7. CASE Published
  <2>1. CASE sample.up
    BY <1>2, <1>7, <2>1 DEF Published
  <2>2. CASE ~sample.up
    <3>1. End /\ UNCHANGED <<reports, file, faults>> /\ point = "stored"
      BY <1>7, <2>2 DEF Published
    <3> QED BY <1>1, <2>2, <3>1, EndRepeats
  <2> QED BY <2>1, <2>2
<1>8. CASE Refused
  <2>1. /\ End /\ UNCHANGED <<reports, file, faults>>
        /\ point = "stored" /\ attempt > 1
    BY <1>8 DEF Refused
  <2> QED BY <1>1, <2>1, EndRepeats
<1>9. CASE Retry
  <2>1. faults' = faults + 1 /\ pc = "publish" /\ UNCHANGED <<reports, file>>
    BY <1>9 DEF Retry, Fault
  <2>2. CASE attempt < Attempts
    <3>1. attempt' = attempt + 1 /\ UNCHANGED <<pc, sample, point, late>>
      BY <1>9, <2>2 DEF Retry
    <3>2. attempt # 0
      BY <2>1 DEF RepeatInv
    <3>3. Retried' = Retried + 1 /\ Retried \in Nat
      BY <1>1, <3>1, <3>2 DEF Retried
    <3>4. attempt' = 0 <=> pc' \notin {"publish", "save"}
      BY <1>1, <2>1, <3>1
    <3>5. faults <= faults' /\ Retried' - Retried <= faults' - faults
      BY <1>1, <2>1, <3>3
    <3> QED BY <2>1, <3>1, <3>4, <3>5, QuietRepeats
  <2>3. CASE ~(attempt < Attempts)
    <3>1. End
      BY <1>9, <2>3 DEF Retry
    <3> QED BY <1>1, <2>1, <3>1, EndRepeats
  <2> QED BY <2>2, <2>3
<1>10. CASE Abort
  <2>1. End /\ faults' = faults + 1 /\ UNCHANGED <<reports, file>>
    BY <1>10 DEF Abort, Fault
  <2> QED BY <1>1, <2>1, EndRepeats
<1>11. CASE UNCHANGED vars
  BY <1>2, <1>11 DEF vars
<1> QED
  BY <1>3, <1>4, <1>5, <1>6, <1>7, <1>8, <1>9, <1>10, <1>11, CollectRepeats,
     SaveRepeats, StoreRepeats, StoreLateRepeats DEF Next, Run

(***************************************************************************)
(* An event is reported at most once more than something went wrong, for   *)
(* any number of events, restarts of Redis, retries and late points.       *)
(***************************************************************************)
THEOREM RepeatsArePaid == Spec => []RepeatsAreFaults
<1>1. ASSUME TypeInv, MissedInv, RepeatInv PROVE RepeatsAreFaults
  <2>1. ASSUME NEW f \in Fields, NEW n \in Events PROVE reports[f][n] <= 1 + faults
    <3>1. /\ Cardinality(Late(f, n)) \in Nat /\ reports[f][n] \in Nat /\ faults \in Nat
          /\ Retried \in Nat /\ Stored(f, n) \in {0, 1}
          /\ Counted(f, n) = reports[f][n] + Cardinality(Late(f, n))
      BY <1>1, CountTypes DEF RepeatInv, Counted
    <3>2. Counted(f, n) <= faults + 1
      BY <1>1, <3>1 DEF RepeatInv, Paid
    <3> QED BY <3>1, <3>2
  <2> QED BY <2>1 DEF RepeatsAreFaults
<1>2. Spec => [](TypeInv /\ MissedInv)
  BY TypeInit, TypeStep, MissedInit, MissedStep, PTL DEF Spec
<1>3. Spec => []DatedInv
  BY <1>2, DatedInit, DatedStep, PTL DEF Spec
<1>4. Spec => []RepeatInv
  BY <1>2, <1>3, RepeatInit, RepeatStep, PTL DEF Spec
<1> QED BY <1>1, <1>2, <1>4, PTL
===============================================================================
