------------------------------ MODULE LogArchive ------------------------------
(***************************************************************************)
(* The hourly Cloud Logging archive of scripts/archive_cloud_logging.py.   *)
(*                                                                         *)
(* A run loads a checkpoint object, exports every log entry received in a  *)
(* window that ends Delay before its own clock and starts Overlap before   *)
(* the checkpoint, uploads entries and then manifest under a name of its   *)
(* own, and last replaces the checkpoint by a compare-and-swap on the      *)
(* generation it loaded.  Any number of runs may be active: the workflow   *)
(* serialises its own runs, but the script is also run by hand, and the    *)
(* requests of a run that was killed can still reach the server.           *)
(*                                                                         *)
(* A request is a message on the wire.  It is served late, or never; its   *)
(* answer may be lost; the client then sends it again, up to a bound.      *)
(***************************************************************************)
EXTENDS Integers, FiniteSets

CONSTANTS
  Entries,         \* log entries
  Runs,            \* executions of the script; each has its own snapshot name
  NoRun,           \* "no snapshot yet"
  Delay,           \* DELAY: the cutoff stays this far behind the run's clock
  Overlap,         \* OVERLAP: a window starts this far before the checkpoint
  Lateness,        \* an entry is listed at most this long after its receipt
  Retention,       \* Cloud Logging keeps an entry at least this long
  Skew,            \* a runner's clock is at most this far off
  UploadAttempts,  \* upload_file(attempts=3)
  SaveAttempts,    \* GoogleClient.json: range(6)
  MaxTime,         \* bound: the clock stops here
  MaxFaults        \* bound: lost answers and aborted runs, in all

ASSUME RunAssumption == NoRun \notin Runs
ASSUME TimeAssumption ==
  /\ Delay \in Nat /\ Overlap \in Nat /\ Lateness \in Nat
  /\ Skew \in Nat /\ Retention \in Nat
  /\ MaxTime \in Nat /\ MaxFaults \in Nat
(***************************************************************************)
(* What the choice of a ten-minute delay and a one-day overlap relies on:  *)
(* an entry is listed, by the clock of any runner, before the window that  *)
(* includes its receive time has moved past it.                            *)
(***************************************************************************)
ASSUME LatenessAssumption == Lateness + Skew < Delay + Overlap
ASSUME AttemptAssumption ==
  UploadAttempts \in Nat \ {0} /\ SaveAttempts \in Nat \ {0}

VARIABLES
  clock,       \* true time, which is also the clock that stamps entries
  stage,       \* where each entry is in its life in Cloud Logging
  receivedAt,  \* its receiveTimestamp
  checkpoint,  \* the checkpoint object; generation 0: it does not exist
  store,       \* snapshot objects present, as [run, file]
  wire,        \* requests sent and not served
  pc,          \* the step each run is at
  loaded,      \* the generation and cutoff the run's load_checkpoint returned
  cutoff,      \* the run's own cutoff
  must,        \* entries that were listed in the run's window at its start
  batch,       \* the run's entries.jsonl.gz
  attempt,     \* attempts made of the request the run is waiting for
  reply,       \* the answer to the latest attempt
  faults

logVars == <<clock, stage, receivedAt>>
bucketVars == <<checkpoint, store>>
runVars == <<pc, loaded, cutoff, must, batch, attempt, reply>>
vars == <<logVars, bucketVars, wire, runVars, faults>>

Files == {"entries", "manifest"}
Calls == Files \cup {"checkpoint"}
Ended == {"done", "failed"}
Steps == {"idle", "media", "query", "page"} \cup Calls \cup Ended
Stages == {"unwritten", "received", "listed", "expired"}
Requests == [run: Runs, call: Calls, attempt: Nat]

Limit(call) == IF call = "checkpoint" THEN SaveAttempts ELSE UploadAttempts

Has(r, f) == [run |-> r, file |-> f] \in store

Published(r) == \A f \in Files : Has(r, f)

\* Entries that a reader of the bucket finds in a snapshot with its manifest.
Archived == UNION {batch[r] : r \in {x \in Runs : Published(x)}}

TypeOK ==
  /\ clock \in Nat
  /\ stage \in [Entries -> Stages]
  /\ receivedAt \in [Entries -> Int]
  /\ checkpoint \in [generation: Nat, cutoff: Int, run: Runs \cup {NoRun}]
  /\ store \subseteq [run: Runs, file: Files]
  /\ wire \subseteq Requests
  /\ pc \in [Runs -> Steps]
  /\ loaded \in [Runs -> [generation: Nat, cutoff: Int]]
  /\ cutoff \in [Runs -> Int]
  /\ must \in [Runs -> SUBSET Entries]
  /\ batch \in [Runs -> SUBSET Entries]
  /\ attempt \in [Runs -> Nat]
  /\ reply \in [Runs -> {"none", "ok", "412"}]
  /\ faults \in Nat

Init ==
  /\ clock = 0
  /\ stage = [e \in Entries |-> "unwritten"]
  /\ receivedAt = [e \in Entries |-> 0]
  /\ checkpoint = [generation |-> 0, cutoff |-> 0, run |-> NoRun]
  /\ store = {}
  /\ wire = {}
  /\ pc = [r \in Runs |-> "idle"]
  /\ loaded = [r \in Runs |-> [generation |-> 0, cutoff |-> 0]]
  /\ cutoff = [r \in Runs |-> 0]
  /\ must = [r \in Runs |-> {}]
  /\ batch = [r \in Runs |-> {}]
  /\ attempt = [r \in Runs |-> 0]
  /\ reply = [r \in Runs |-> "none"]
  /\ faults = 0
-------------------------------------------------------------------------------
(***************************************************************************)
(* Cloud Logging: an entry is stamped on receipt, becomes visible to       *)
(* entries:list some time later, and is dropped after its retention.       *)
(***************************************************************************)
Receive(e) ==
  /\ stage[e] = "unwritten"
  /\ stage' = [stage EXCEPT ![e] = "received"]
  /\ receivedAt' = [receivedAt EXCEPT ![e] = clock]
  /\ UNCHANGED <<clock, bucketVars, wire, runVars, faults>>

List(e) ==
  /\ stage[e] = "received"
  /\ stage' = [stage EXCEPT ![e] = "listed"]
  /\ UNCHANGED <<clock, receivedAt, bucketVars, wire, runVars, faults>>

Expire(e) ==
  /\ stage[e] = "listed"
  /\ clock >= receivedAt[e] + Retention
  /\ stage' = [stage EXCEPT ![e] = "expired"]
  /\ UNCHANGED <<clock, receivedAt, bucketVars, wire, runVars, faults>>

Tick ==
  /\ clock < MaxTime
  /\ \A e \in Entries :
       stage[e] = "received" => clock < receivedAt[e] + Lateness
  /\ clock' = clock + 1
  /\ UNCHANGED <<stage, receivedAt, bucketVars, wire, runVars, faults>>
-------------------------------------------------------------------------------
(***************************************************************************)
(* The bucket serves a request.  Objects of a snapshot are created only if *)
(* absent, the checkpoint is replaced only at the generation the run       *)
(* loaded.  The values a request carries were fixed by its run before it   *)
(* was sent.  Only the latest attempt has a client waiting for the answer. *)
(***************************************************************************)
Answer(m, status) ==
  reply' = IF pc[m.run] = m.call /\ attempt[m.run] = m.attempt
             THEN [reply EXCEPT ![m.run] = status]
             ELSE reply

CreateObject(m) ==
  /\ m.call \in Files
  /\ store' = store \cup {[run |-> m.run, file |-> m.call]}
  /\ Answer(m, IF Has(m.run, m.call) THEN "412" ELSE "ok")
  /\ UNCHANGED checkpoint

ReplaceCheckpoint(m) ==
  LET r == m.run
      matches == checkpoint.generation = loaded[r].generation
  IN /\ m.call = "checkpoint"
     /\ checkpoint' = IF matches
                        THEN [generation |-> checkpoint.generation + 1,
                              cutoff |-> cutoff[r], run |-> r]
                        ELSE checkpoint
     /\ Answer(m, IF matches THEN "ok" ELSE "412")
     /\ UNCHANGED store

Serve(m) ==
  /\ wire' = wire \ {m}
  /\ CreateObject(m) \/ ReplaceCheckpoint(m)
  /\ UNCHANGED <<logVars, pc, loaded, cutoff, must, batch, attempt, faults>>
-------------------------------------------------------------------------------
\* The process ends; what it sent and uploaded stays.
End(r, outcome) ==
  /\ pc' = [pc EXCEPT ![r] = outcome]
  /\ attempt' = [attempt EXCEPT ![r] = 0]
  /\ reply' = [reply EXCEPT ![r] = "none"]

\* Mutant: a missing checkpoint is saved against a generation that exists.
LoadMetadataAsOne(r) ==
  /\ pc[r] = "idle"
  /\ loaded' = [loaded EXCEPT ![r] =
                 [generation |-> checkpoint.generation + 1, cutoff |-> 0]]
  /\ pc' = [pc EXCEPT ![r] = "query"]
  /\ UNCHANGED <<logVars, bucketVars, wire, cutoff, must, batch, attempt,
                 reply, faults>>

\* load_checkpoint, first request: the object's metadata.
LoadMetadata(r) ==
  /\ pc[r] = "idle"
  /\ loaded' = [loaded EXCEPT ![r] =
                 [generation |-> checkpoint.generation, cutoff |-> 0]]
  /\ pc' = [pc EXCEPT ![r] = IF checkpoint.generation = 0 THEN "query"
                                                          ELSE "media"]
  /\ UNCHANGED <<logVars, bucketVars, wire, cutoff, must, batch, attempt,
                 reply, faults>>

\* load_checkpoint, second request: the content, at the generation just read.
LoadMedia(r) ==
  /\ pc[r] = "media"
  /\ IF checkpoint.generation = loaded[r].generation
       THEN /\ loaded' = [loaded EXCEPT ![r] =
                 [generation |-> @.generation, cutoff |-> checkpoint.cutoff]]
            /\ pc' = [pc EXCEPT ![r] = "query"]
       ELSE /\ pc' = [pc EXCEPT ![r] = "failed"]
            /\ UNCHANGED loaded
  /\ UNCHANGED <<logVars, bucketVars, wire, cutoff, must, batch, attempt,
                 reply, faults>>

\* Mutant: the window starts at the checkpoint.
InWindowNoOverlap(r, c, e) ==
  /\ receivedAt[e] <= c
  /\ loaded[r].generation > 0 => receivedAt[e] > loaded[r].cutoff

\* query_filter of a run whose cutoff is c, on receiveTimestamp.
InWindow(r, c, e) ==
  /\ receivedAt[e] <= c
  /\ loaded[r].generation > 0 => receivedAt[e] > loaded[r].cutoff - Overlap

Listed == {e \in Entries : stage[e] = "listed"}

\* Mutant: a cutoff behind the checkpoint is exported all the same.
QueryBehind(r) ==
  /\ pc[r] = "query"
  /\ \E s \in -Skew .. Skew :
       LET c == clock + s - Delay
       IN /\ pc' = [pc EXCEPT ![r] = "page"]
          /\ cutoff' = [cutoff EXCEPT ![r] = c]
          /\ must' = [must EXCEPT ![r] = {e \in Listed : InWindow(r, c, e)}]
  /\ UNCHANGED <<logVars, bucketVars, wire, loaded, batch, attempt, reply,
                 faults>>

\* The run reads its clock and builds the filter, or finds itself behind.
Query(r) ==
  /\ pc[r] = "query"
  /\ \E s \in -Skew .. Skew :
       LET c == clock + s - Delay
       IN IF loaded[r].generation > 0 /\ loaded[r].cutoff > c
            THEN /\ pc' = [pc EXCEPT ![r] = "failed"]
                 /\ UNCHANGED <<cutoff, must>>
            ELSE /\ pc' = [pc EXCEPT ![r] = "page"]
                 /\ cutoff' = [cutoff EXCEPT ![r] = c]
                 /\ must' = [must EXCEPT ![r] =
                               {e \in Listed : InWindow(r, c, e)}]
  /\ UNCHANGED <<logVars, bucketVars, wire, loaded, batch, attempt, reply,
                 faults>>

\* What entries:list may still return to r.
Found(r) == {e \in Listed : InWindow(r, cutoff[r], e)} \ batch[r]

Send(r, call, n) ==
  /\ pc' = [pc EXCEPT ![r] = call]
  /\ attempt' = [attempt EXCEPT ![r] = n]
  /\ reply' = [reply EXCEPT ![r] = "none"]
  /\ wire' = wire \cup {[run |-> r, call |-> call, attempt |-> n]}

\* A page with a nextPageToken: more pages follow.
Page(r) ==
  /\ pc[r] = "page"
  /\ \E found \in SUBSET Found(r) \ {{}} :
       batch' = [batch EXCEPT ![r] = @ \cup found]
  /\ UNCHANGED <<logVars, bucketVars, wire, pc, loaded, cutoff, must, attempt,
                 reply, faults>>

\* Mutant: nextPageToken is ignored.
LastPageFirst(r) ==
  /\ pc[r] = "page"
  /\ \E found \in SUBSET Found(r) :
       batch' = [batch EXCEPT ![r] = @ \cup found]
  /\ must' = [must EXCEPT ![r] = {}]
  /\ Send(r, "entries", 1)
  /\ UNCHANGED <<logVars, bucketVars, loaded, cutoff, faults>>

(***************************************************************************)
(* The page without a token.  The listing owes whatever was listed in the  *)
(* window when it began and has not expired since; an entry that became    *)
(* visible meanwhile may be returned or not.  The entries file is uploaded *)
(* next.                                                                   *)
(***************************************************************************)
LastPage(r) ==
  /\ pc[r] = "page"
  /\ \E found \in SUBSET Found(r) :
       /\ must[r] \cap Listed \subseteq batch[r] \cup found
       /\ batch' = [batch EXCEPT ![r] = @ \cup found]
  /\ must' = [must EXCEPT ![r] = {}]
  /\ Send(r, "entries", 1)
  /\ UNCHANGED <<logVars, bucketVars, loaded, cutoff, faults>>

\* Mutant: the manifest is uploaded with the entries still unanswered.
UploadedUnanswered(r) ==
  /\ pc[r] \in Files
  /\ reply[r] = "ok" \/ pc[r] = "entries"
  /\ Send(r, IF pc[r] = "entries" THEN "manifest" ELSE "checkpoint", 1)
  /\ UNCHANGED <<logVars, bucketVars, loaded, cutoff, must, batch, faults>>

\* Mutant: the checkpoint follows the entries, the manifest is left out.
UploadedNoManifest(r) ==
  /\ pc[r] \in Files
  /\ reply[r] = "ok"
  /\ Send(r, "checkpoint", 1)
  /\ UNCHANGED <<logVars, bucketVars, loaded, cutoff, must, batch, faults>>

\* upload_file returned "created".
Uploaded(r) ==
  /\ pc[r] \in Files
  /\ reply[r] = "ok"
  /\ Send(r, IF pc[r] = "entries" THEN "manifest" ELSE "checkpoint", 1)
  /\ UNCHANGED <<logVars, bucketVars, loaded, cutoff, must, batch, faults>>

\* Mutant: "precondition failed" is taken for "already saved".
SavedOrConflict(r) ==
  /\ pc[r] = "checkpoint"
  /\ reply[r] # "none"
  /\ End(r, "done")
  /\ UNCHANGED <<logVars, bucketVars, wire, loaded, cutoff, must, batch, faults>>

Saved(r) ==
  /\ pc[r] = "checkpoint"
  /\ reply[r] = "ok"
  /\ End(r, "done")
  /\ UNCHANGED <<logVars, bucketVars, wire, loaded, cutoff, must, batch, faults>>

\* HTTP 412: the object exists, or the checkpoint has another generation.
Conflict(r) ==
  /\ pc[r] \in Calls
  /\ reply[r] = "412"
  /\ End(r, "failed")
  /\ UNCHANGED <<logVars, bucketVars, wire, loaded, cutoff, must, batch, faults>>

(***************************************************************************)
(* No answer, 429 or 5xx: the request may have been applied, may still be  *)
(* on its way, or is lost.  It is sent again until the attempts are used.  *)
(***************************************************************************)
Retry(r) ==
  /\ pc[r] \in Calls
  /\ faults < MaxFaults
  /\ faults' = faults + 1
  /\ IF attempt[r] < Limit(pc[r])
       THEN Send(r, pc[r], attempt[r] + 1)
       ELSE End(r, "failed") /\ UNCHANGED wire
  /\ UNCHANGED <<logVars, bucketVars, loaded, cutoff, must, batch>>

(***************************************************************************)
(* Every other way to end without a result: missing permission, an invalid *)
(* response, a repeated page token, a read that exhausted its retries, a   *)
(* refused request, a runner that is lost or hits the job's time limit.    *)
(***************************************************************************)
Abort(r) ==
  /\ pc[r] \notin Ended
  /\ faults < MaxFaults
  /\ faults' = faults + 1
  /\ End(r, "failed")
  /\ UNCHANGED <<logVars, bucketVars, wire, loaded, cutoff, must, batch>>
-------------------------------------------------------------------------------
RunStep(r) ==
  \/ LoadMetadata(r) \/ LoadMedia(r) \/ Query(r) \/ Page(r) \/ LastPage(r)
  \/ Uploaded(r) \/ Saved(r) \/ Conflict(r) \/ Retry(r)

Environment ==
  \/ \E e \in Entries : Receive(e) \/ List(e) \/ Expire(e)
  \/ Tick

Next ==
  \/ Environment
  \/ \E m \in wire : Serve(m)
  \/ \E r \in Runs : RunStep(r) \/ Abort(r)

Spec == Init /\ [][Next]_vars

\* The request a run is waiting for is served.
ServeLatest(r) ==
  \E m \in wire : /\ m.run = r /\ m.call = pc[r] /\ m.attempt = attempt[r]
                 /\ Serve(m)

(***************************************************************************)
(* The workflow's schedule starts every run, a started run keeps going,    *)
(* and the server answers the request a run waits for unless that answer   *)
(* is one of the faults.  Earlier attempts may be lost.  Nothing is        *)
(* assumed of the log or of faults.                                        *)
(***************************************************************************)
Fairness == \A r \in Runs : WF_vars(RunStep(r) \/ ServeLatest(r))

FairSpec == Spec /\ Fairness
-------------------------------------------------------------------------------
(***************************************************************************)
(* The manifest of a snapshot is never in the bucket before its entries    *)
(* (run_export uploads entries_path first), whatever order late requests   *)
(* are served in.                                                          *)
(***************************************************************************)
ManifestHasEntries ==
  \A r \in Runs : Has(r, "manifest") => Has(r, "entries")

(***************************************************************************)
(* A checkpoint always names a snapshot that is completely uploaded        *)
(* ("advances only after all snapshot uploads succeed").                   *)
(***************************************************************************)
CheckpointNamesSnapshot ==
  checkpoint.generation > 0 =>
    /\ checkpoint.run \in Runs
    /\ Published(checkpoint.run)
    /\ checkpoint.cutoff = cutoff[checkpoint.run]

Kept(e) == e \in Archived \/ stage[e] = "expired"

Reached(c) ==
  \A e \in Entries :
    stage[e] # "unwritten" /\ receivedAt[e] <= c - Overlap => Kept(e)

(***************************************************************************)
(* No gap: once the checkpoint is Overlap past an entry's receive time,    *)
(* the entry is in a published snapshot, unless Cloud Logging dropped it.  *)
(* No later window looks at it again, so what is missing then is missing   *)
(* for good.                                                               *)
(***************************************************************************)
Coverage == checkpoint.generation > 0 => Reached(checkpoint.cutoff)

(***************************************************************************)
(* A run that reports success has its cutoff in the bucket for good: the   *)
(* checkpoint is its own or a later one, and its snapshot is complete.     *)
(***************************************************************************)
SuccessIsDurable ==
  \A r \in Runs : pc[r] = "done" =>
    Published(r) /\ checkpoint.generation > 0 /\ cutoff[r] <= checkpoint.cutoff

(***************************************************************************)
(* A checkpoint is replaced by its successor only: one generation further, *)
(* by a run that had loaded it, and with a cutoff that is not earlier,     *)
(* although clocks differ and requests arrive late.                        *)
(***************************************************************************)
Advance ==
  /\ checkpoint'.generation = checkpoint.generation + 1
  /\ loaded[checkpoint'.run].generation = checkpoint.generation
  /\ checkpoint.generation > 0 => checkpoint'.cutoff >= checkpoint.cutoff

CheckpointAdvances == [][Advance]_checkpoint

(***************************************************************************)
(* The whole archive keeps the promise of ArchiveLedger: readers see a     *)
(* growing archive and a mark that never moves back and never leaves an    *)
(* entry behind.                                                           *)
(***************************************************************************)
Ledger == INSTANCE ArchiveLedger WITH
  received <- {e \in Entries : stage[e] # "unwritten"},
  lost <- {e \in Entries : stage[e] = "expired"},
  at <- receivedAt,
  archived <- Archived,
  marked <- checkpoint.generation > 0,
  mark <- checkpoint.cutoff

LedgerSpec == Ledger!Spec

-------------------------------------------------------------------------------
(***************************************************************************)
(* The inductive invariants behind the properties above.                   *)
(***************************************************************************)

\* r's export is complete and its requests may reach the bucket.
Exported(r) == pc[r] \in Calls \cup {"done"} \/ \E m \in wire : m.run = r

(***************************************************************************)
(* Files reach the bucket in the order run_export uploads them: a request  *)
(* is only ever sent after the previous object is in the bucket.           *)
(***************************************************************************)
UploadInv ==
  /\ \A m \in wire :
       /\ pc[m.run] \in Calls \cup Ended
       /\ m.call = "manifest" => Has(m.run, "entries")
       /\ m.call = "checkpoint" => Published(m.run)
  /\ \A r \in Runs :
       /\ Has(r, "entries") => pc[r] \in Calls \cup Ended
       /\ Has(r, "manifest") => Has(r, "entries")
       /\ pc[r] = "manifest" => Has(r, "entries")
       /\ pc[r] \in {"checkpoint", "done"} => Published(r)
       /\ reply[r] = "ok" /\ pc[r] \in Files => Has(r, pc[r])

\* Overlap before c, everything is kept or still in S.
ReachedBut(c, S) ==
  \A e \in Entries :
    stage[e] # "unwritten" /\ receivedAt[e] <= c - Overlap => Kept(e) \/ e \in S

\* No cutoff is ahead of what a skewed clock could show.
Past(c) == c <= clock + Skew - Delay

(***************************************************************************)
(* What each step of an export has secured.  The checkpoint a run loaded   *)
(* vouches for what lies before its window, the listing owes what was      *)
(* visible in the window, and what was not visible yet was received too    *)
(* late to lie Overlap before the new cutoff.                              *)
(***************************************************************************)
CoverInv ==
  /\ \A e \in Entries :
       /\ stage[e] # "unwritten" => receivedAt[e] <= clock
       /\ stage[e] = "received" => clock <= receivedAt[e] + Lateness
  /\ checkpoint.generation > 0 => Past(checkpoint.cutoff) /\ Reached(checkpoint.cutoff)
  /\ \A r \in Runs :
       /\ pc[r] \in {"query", "page"} /\ loaded[r].generation > 0 =>
            Past(loaded[r].cutoff) /\ Reached(loaded[r].cutoff)
       /\ pc[r] = "page" =>
            /\ Past(cutoff[r]) /\ ReachedBut(cutoff[r], must[r])
            /\ \A e \in must[r] : stage[e] \in {"listed", "expired"}
       /\ Exported(r) => Past(cutoff[r]) /\ ReachedBut(cutoff[r], batch[r])

(***************************************************************************)
(* Cutoffs grow along the generations: a run that can still replace the    *)
(* checkpoint loaded the present one and is not behind it.                 *)
(***************************************************************************)
OrderInv ==
  /\ checkpoint.generation > 0 =>
       /\ checkpoint.run \in Runs
       /\ Published(checkpoint.run)
       /\ checkpoint.cutoff = cutoff[checkpoint.run]
  /\ \A r \in Runs :
       /\ loaded[r].generation <= checkpoint.generation
       /\ /\ pc[r] \in {"query", "page"} \/ Exported(r)
          /\ loaded[r].generation > 0
          /\ loaded[r].generation = checkpoint.generation
          => loaded[r].cutoff = checkpoint.cutoff
       /\ (pc[r] = "page" \/ Exported(r)) /\ loaded[r].generation > 0
          => loaded[r].cutoff <= cutoff[r]
       /\ pc[r] = "done" \/ (pc[r] = "checkpoint" /\ reply[r] = "ok") =>
            checkpoint.generation > 0 /\ cutoff[r] <= checkpoint.cutoff
-------------------------------------------------------------------------------
(***************************************************************************)
(* With fewer faults than runs, the checkpoint is written at last: a       *)
(* failed run, its leftovers in the bucket and its late requests never     *)
(* block the next one.                                                     *)
(***************************************************************************)
EventuallySaved == MaxFaults < Cardinality(Runs) => <>(checkpoint.generation > 0)
===============================================================================
