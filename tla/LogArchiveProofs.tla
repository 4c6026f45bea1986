--------------------------- MODULE LogArchiveProofs ---------------------------
(***************************************************************************)
(* Proofs about LogArchive, for every set of entries and runs and every    *)
(* delay, overlap, lateness and clock skew that meet LatenessAssumption.   *)
(***************************************************************************)
EXTENDS LogArchive, TLAPS

LEMMA TypeOKStep ==
  ASSUME TypeOK, [Next]_vars
  PROVE  TypeOK'
<1> USE DEF TypeOK, Steps, Stages, Files, Calls, Ended, logVars, bucketVars,
            runVars
<1>1. ASSUME NEW e \in Entries, Receive(e) \/ List(e) \/ Expire(e)
      PROVE TypeOK'
  <2>1. stage' \in [Entries -> Stages]
    <3>1. \E x \in Stages : stage' = [stage EXCEPT ![e] = x]
      BY <1>1, Zenon DEF Receive, List, Expire
    <3>2. QED BY <3>1
  <2>2. receivedAt' \in [Entries -> Int]
    BY <1>1 DEF Receive, List, Expire
  <2>3. UNCHANGED <<clock, bucketVars, wire, runVars, faults>>
    BY <1>1 DEF Receive, List, Expire
  <2>4. QED BY <2>1, <2>2, <2>3
<1>2. CASE Tick
  BY <1>2 DEF Tick
<1>3. ASSUME NEW m \in wire, Serve(m) PROVE TypeOK'
  <2>1. m \in Requests
    OBVIOUS
  <2>2. CASE CreateObject(m)
    BY <1>3, <2>1, <2>2 DEF Serve, CreateObject, Answer, Requests
  <2>3. CASE ReplaceCheckpoint(m)
    BY <1>3, <2>1, <2>3 DEF Serve, ReplaceCheckpoint, Answer, Requests
  <2>4. QED BY <1>3, <2>2, <2>3 DEF Serve
<1>4. ASSUME NEW r \in Runs, LoadMetadata(r) \/ LoadMedia(r)
      PROVE TypeOK'
  <2>1. CASE LoadMetadata(r)
    BY <2>1 DEF LoadMetadata
  <2>2. CASE LoadMedia(r)
    <3>1. [generation |-> loaded[r].generation,
           cutoff |-> checkpoint.cutoff] \in [generation: Nat, cutoff: Int]
      OBVIOUS
    <3>2. loaded' \in [Runs -> [generation: Nat, cutoff: Int]]
      BY <2>2, <3>1 DEF LoadMedia
    <3>3. pc' \in [Runs -> Steps]
      <4>1. \E x \in Steps : pc' = [pc EXCEPT ![r] = x]
        BY <2>2, Zenon DEF LoadMedia
      <4>2. QED BY <4>1
    <3>4. UNCHANGED <<logVars, bucketVars, wire, cutoff, must, batch, attempt,
                      reply, faults>>
      BY <2>2, Zenon DEF LoadMedia
    <3>5. QED BY <3>2, <3>3, <3>4, Zenon
  <2>3. QED BY <1>4, <2>1, <2>2
<1>5. ASSUME NEW r \in Runs, Query(r) PROVE TypeOK'
  <2>1. PICK s \in -Skew .. Skew :
          \/ pc' = [pc EXCEPT ![r] = "failed"] /\ UNCHANGED <<cutoff, must>>
          \/ /\ pc' = [pc EXCEPT ![r] = "page"]
             /\ cutoff' = [cutoff EXCEPT ![r] = clock + s - Delay]
             /\ must' = [must EXCEPT ![r] =
                   {e \in Listed : InWindow(r, clock + s - Delay, e)}]
    BY <1>5 DEF Query
  <2>2. clock + s - Delay \in Int
    BY TimeAssumption, s \in Int
  <2>3. {e \in Listed : InWindow(r, clock + s - Delay, e)} \in SUBSET Entries
    BY DEF Listed
  <2>4. CASE pc' = [pc EXCEPT ![r] = "failed"] /\ UNCHANGED <<cutoff, must>>
    BY <1>5, <2>4 DEF Query
  <2>5. CASE pc' # [pc EXCEPT ![r] = "failed"]
    <3>1. cutoff' \in [Runs -> Int]
      BY <2>1, <2>2, <2>5
    <3>2. must' \in [Runs -> SUBSET Entries]
      BY <2>1, <2>3, <2>5
    <3>3. pc' \in [Runs -> Steps]
      BY <2>1, <2>5
    <3>4. QED BY <1>5, <3>1, <3>2, <3>3 DEF Query
  <2>6. QED BY <2>1, <2>4, <2>5
<1>6. ASSUME NEW r \in Runs, Page(r) PROVE TypeOK'
  BY <1>6 DEF Page, Found, Listed
<1>7. ASSUME NEW r \in Runs, LastPage(r) PROVE TypeOK'
  BY <1>7 DEF LastPage, Found, Listed, Send, Requests
<1>8. ASSUME NEW r \in Runs, Uploaded(r) PROVE TypeOK'
  BY <1>8 DEF Uploaded, Send, Requests
<1>9. ASSUME NEW r \in Runs, Saved(r) \/ Conflict(r) \/ Abort(r)
      PROVE TypeOK'
  <2>1. CASE Saved(r)
    BY <2>1 DEF Saved, End
  <2>2. CASE Conflict(r)
    BY <2>2 DEF Conflict, End
  <2>3. CASE Abort(r)
    BY <2>3 DEF Abort, End
  <2>4. QED BY <1>9, <2>1, <2>2, <2>3
<1>10. ASSUME NEW r \in Runs, Retry(r) PROVE TypeOK'
  <2>1. faults' \in Nat
    BY <1>10 DEF Retry
  <2>2. CASE attempt[r] < Limit(pc[r])
    <3>1. Send(r, pc[r], attempt[r] + 1)
      BY <1>10, <2>2 DEF Retry
    <3>2. [run |-> r, call |-> pc[r], attempt |-> attempt[r] + 1] \in Requests
      BY <1>10 DEF Retry, Requests
    <3>3. wire' \subseteq Requests
      BY <3>1, <3>2 DEF Send
    <3>4. pc' \in [Runs -> Steps] /\ attempt' \in [Runs -> Nat]
            /\ reply' \in [Runs -> {"none", "ok", "412"}]
      BY <3>1 DEF Send
    <3>5. QED BY <1>10, <2>1, <3>3, <3>4 DEF Retry
  <2>3. CASE ~(attempt[r] < Limit(pc[r]))
    <3>1. End(r, "failed") /\ UNCHANGED wire
      BY <1>10, <2>3 DEF Retry
    <3>2. QED BY <1>10, <2>1, <3>1 DEF Retry, End
  <2>4. QED BY <2>2, <2>3
<1>11. CASE UNCHANGED vars
  BY <1>11 DEF vars
<1>12. QED
  BY <1>1, <1>2, <1>3, <1>4, <1>5, <1>6, <1>7, <1>8, <1>9, <1>10, <1>11
     DEF Next, Environment, RunStep

(***************************************************************************)
(* Every variable keeps its type in every reachable state of the archive.  *)
(***************************************************************************)
THEOREM TypeCorrect == Spec => []TypeOK
<1>1. Init => TypeOK
  BY RunAssumption DEF Init, TypeOK, Steps, Stages, Files, Calls, Ended
<1>2. QED BY <1>1, TypeOKStep, PTL DEF Spec
-------------------------------------------------------------------------------
(***************************************************************************)
(* The bucket keeps what it has, and a run's file only gets longer.        *)
(***************************************************************************)
LEMMA ArchiveGrows ==
  ASSUME TypeOK, [Next]_vars
  PROVE  /\ store \subseteq store'
         /\ \A r \in Runs : batch[r] \subseteq batch'[r]
         /\ Archived \subseteq Archived'
<1>1. store \subseteq store'
  BY DEF Next, vars, Environment, Receive, List, Expire, Tick, Serve,
         CreateObject, ReplaceCheckpoint, RunStep, LoadMetadata, LoadMedia,
         Query, Page, LastPage, Uploaded, Saved, Conflict, Retry, Abort,
         bucketVars
<1>2. ASSUME NEW r \in Runs PROVE batch[r] \subseteq batch'[r]
  <2>1. ASSUME NEW x \in Runs, Page(x) \/ LastPage(x)
        PROVE  batch[r] \subseteq batch'[r]
    BY <2>1 DEF Page, LastPage, TypeOK
  <2>2. ASSUME ~\E x \in Runs : Page(x) \/ LastPage(x)
        PROVE  batch' = batch
    BY <2>2 DEF Next, vars, Environment, Receive, List, Expire, Tick, Serve,
         RunStep, LoadMetadata, LoadMedia, Query, Uploaded, Saved, Conflict,
         Retry, Abort, runVars
  <2>3. QED BY <2>1, <2>2
<1>3. Archived \subseteq Archived'
  BY <1>1, <1>2 DEF Archived, Published, Has
<1>4. QED BY <1>1, <1>2, <1>3

LEMMA UploadInvInit == Init => UploadInv
BY DEF Init, UploadInv, Has, Published, Files, Calls, Ended

\* Sending a request keeps UploadInv if what must be uploaded first is there.
LEMMA SendKeepsUploadInv ==
  ASSUME TypeOK, UploadInv, NEW r \in Runs, NEW call \in Calls, NEW n,
         Send(r, call, n), store' = store,
         call = "manifest" => Has(r, "entries"),
         call = "checkpoint" => Published(r)
  PROVE  UploadInv'
<1>1. pc'[r] = call /\ reply'[r] = "none"
  BY DEF Send, TypeOK
<1>2. \A x \in Runs \ {r} : pc'[x] = pc[x] /\ reply'[x] = reply[x]
  BY DEF Send, TypeOK
<1>3. \A x \in Runs : \A f : Has(x, f)' = Has(x, f)
  BY DEF Has
<1>4. \A x \in Runs : Published(x)' = Published(x)
  BY <1>3 DEF Published
<1>5. ASSUME NEW m \in wire'
      PROVE  /\ pc'[m.run] \in Calls \cup Ended
             /\ m.call = "manifest" => Has(m.run, "entries")'
             /\ m.call = "checkpoint" => Published(m.run)'
  <2>1. CASE m \in wire
    <3>1. m.run \in Runs
      BY <2>1 DEF TypeOK, Requests
    <3>2. /\ pc[m.run] \in Calls \cup Ended
          /\ m.call = "manifest" => Has(m.run, "entries")
          /\ m.call = "checkpoint" => Published(m.run)
      BY <2>1 DEF UploadInv
    <3>3. pc'[m.run] \in Calls \cup Ended
      BY <1>1, <1>2, <3>1, <3>2
    <3>4. QED BY <1>3, <1>4, <3>1, <3>2, <3>3
  <2>2. CASE m = [run |-> r, call |-> call, attempt |-> n]
    BY <1>1, <1>3, <1>4, <2>2
  <2>3. QED BY <2>1, <2>2 DEF Send
<1>6. ASSUME NEW x \in Runs
      PROVE  /\ Has(x, "entries")' => pc'[x] \in Calls \cup Ended
             /\ Has(x, "manifest")' => Has(x, "entries")'
             /\ pc'[x] = "manifest" => Has(x, "entries")'
             /\ pc'[x] \in {"checkpoint", "done"} => Published(x)'
             /\ reply'[x] = "ok" /\ pc'[x] \in Files
                  => Has(x, pc[x])'
  <2>1. CASE x = r
    BY <1>1, <1>3, <1>4, <2>1 DEF UploadInv, Calls, Files
  <2>2. CASE x # r
    BY <1>2, <1>3, <1>4, <2>2 DEF UploadInv, Has
  <2>3. QED BY <2>1, <2>2
<1>7. QED BY <1>5, <1>6 DEF UploadInv

LEMMA UploadInvStep ==
  ASSUME TypeOK, UploadInv, [Next]_vars
  PROVE  UploadInv'
<1> USE DEF Calls, Files, Ended, UploadInv, Published, Has
<1>1. CASE Environment \/ UNCHANGED vars
  BY <1>1 DEF Environment, Receive, List, Expire, Tick, vars, bucketVars, runVars
<1>2. ASSUME NEW m \in wire, Serve(m), CreateObject(m) PROVE UploadInv'
  <2>1. m \in Requests
    BY DEF TypeOK
  <2>2. store' = store \cup {[run |-> m.run, file |-> m.call]}
    BY <1>2 DEF CreateObject
  <2>3. pc' = pc /\ wire' \subseteq wire
    BY <1>2 DEF Serve
  <2>4. \A r \in Runs : reply'[r] = "ok" /\ pc[r] \in Files
                          => reply[r] = "ok" \/ Has(r, pc[r])'
    BY <1>2, <2>1, <2>2, <2>3
       DEF CreateObject, Answer, TypeOK, Requests
  <2>5. \A r \in Runs : \A f \in Files : Has(r, f) => Has(r, f)'
    BY <2>2
  <2>6. \A r \in Runs : \A f \in Files :
          Has(r, f)' => Has(r, f) \/ (r = m.run /\ f = m.call)
    BY <2>2
  <2>7. m.call \in Files /\ pc[m.run] \in Calls \cup Ended
          /\ (m.call = "manifest" => Has(m.run, "entries"))
    BY <1>2 DEF CreateObject
  <2>8. QED
    <3>1. (\A x \in wire : pc[x.run] \in Calls \cup Ended
              /\ (x.call = "manifest" => Has(x.run, "entries"))
              /\ (x.call = "checkpoint" => Published(x.run)))'
      BY <2>3, <2>2
    <3>2. ASSUME NEW r \in Runs
          PROVE  /\ Has(r, "entries")' => pc'[r] \in Calls \cup Ended
                 /\ Has(r, "manifest")' => Has(r, "entries")'
                 /\ pc'[r] = "manifest" => Has(r, "entries")'
                 /\ pc'[r] \in {"checkpoint", "done"} => Published(r)'
                 /\ reply'[r] = "ok" /\ pc'[r] \in Files => Has(r, pc[r])'
      BY <2>3, <2>4, <2>5, <2>6, <2>7
    <3>3. QED BY <2>3, <3>1, <3>2
<1>3. ASSUME NEW m \in wire, Serve(m), ReplaceCheckpoint(m) PROVE UploadInv'
  <2>1. store' = store /\ pc' = pc /\ wire' \subseteq wire
    BY <1>3 DEF Serve, ReplaceCheckpoint
  <2>2. \A r \in Runs :
          reply'[r] = "ok" /\ pc[r] \in Files => reply[r] = "ok"
    BY <1>3 DEF ReplaceCheckpoint, Answer, TypeOK, Requests
  <2>3. QED BY <2>1, <2>2
<1>4. ASSUME NEW r \in Runs,
             LoadMetadata(r) \/ LoadMedia(r) \/ Query(r) \/ Page(r)
      PROVE  UploadInv'
  <2>1. pc[r] \notin Calls \cup Ended
    BY <1>4 DEF LoadMetadata, LoadMedia, Query, Page
  <2>2. wire' = wire /\ store' = store /\ reply' = reply
    BY <1>4 DEF LoadMetadata, LoadMedia, Query, Page, bucketVars
  <2>3. /\ \A x \in Runs \ {r} : pc'[x] = pc[x]
        /\ pc'[r] \notin Calls \cup {"done"}
    <3>1. CASE LoadMetadata(r) \/ LoadMedia(r)
      BY <3>1 DEF LoadMetadata, LoadMedia, TypeOK
    <3>2. CASE Query(r) \/ Page(r)
      BY <3>2 DEF Query, Page, TypeOK
    <3>3. QED BY <1>4, <3>1, <3>2
  <2>4. \A m \in wire : m.run \in Runs \ {r}
    BY <2>1 DEF TypeOK, Requests
  <2>5. QED BY <2>1, <2>2, <2>3, <2>4
<1>5. ASSUME NEW r \in Runs, LastPage(r) PROVE UploadInv'
  BY <1>5, SendKeepsUploadInv DEF LastPage, bucketVars
<1>6. ASSUME NEW r \in Runs, Uploaded(r) PROVE UploadInv'
  <2>1. pc[r] \in Files /\ Has(r, pc[r]) /\ store' = store
    BY <1>6 DEF Uploaded, bucketVars
  <2>2. CASE pc[r] = "entries"
    BY <1>6, <2>1, <2>2, SendKeepsUploadInv DEF Uploaded
  <2>3. CASE pc[r] = "manifest"
    <3>1. Send(r, "checkpoint", 1) /\ Published(r)
      BY <1>6, <2>1, <2>3 DEF Uploaded
    <3>2. QED BY <2>1, <3>1, SendKeepsUploadInv
  <2>4. QED BY <2>1, <2>2, <2>3
<1>7. ASSUME NEW r \in Runs, Saved(r) \/ Conflict(r) \/ Abort(r)
      PROVE  UploadInv'
  <2>1. wire' = wire /\ store' = store
    BY <1>7 DEF Saved, Conflict, Abort, bucketVars
  <2>2. \A x \in Runs \ {r} : pc'[x] = pc[x] /\ reply'[x] = reply[x]
    BY <1>7 DEF Saved, Conflict, Abort, End, TypeOK
  <2>3. \/ pc'[r] = "failed"
        \/ pc[r] = "checkpoint" /\ pc'[r] = "done"
    BY <1>7 DEF Saved, Conflict, Abort, End, TypeOK
  <2>4. \A m \in wire : m.run \in Runs
    BY DEF TypeOK, Requests
  <2>5. QED BY <2>1, <2>2, <2>3, <2>4
<1>8. ASSUME NEW r \in Runs, Retry(r) PROVE UploadInv'
  <2>1. CASE Send(r, pc[r], attempt[r] + 1)
    <3>1. store' = store /\ pc[r] \in Calls
      BY <1>8 DEF Retry, bucketVars
    <3>2. /\ pc[r] = "manifest" => Has(r, "entries")
          /\ pc[r] = "checkpoint" => Published(r)
      OBVIOUS
    <3>3. QED BY <2>1, <3>1, <3>2, SendKeepsUploadInv
  <2>2. CASE End(r, "failed") /\ UNCHANGED wire
    <3>1. store' = store
      BY <1>8 DEF Retry, bucketVars
    <3>2. pc'[r] = "failed" /\ reply'[r] = "none"
      BY <2>2 DEF End, TypeOK
    <3>3. \A x \in Runs \ {r} : pc'[x] = pc[x] /\ reply'[x] = reply[x]
      BY <2>2 DEF End, TypeOK
    <3>4. \A m \in wire : m.run \in Runs
      BY DEF TypeOK, Requests
    <3>5. QED BY <2>2, <3>1, <3>2, <3>3, <3>4
  <2>3. QED BY <1>8, <2>1, <2>2 DEF Retry
<1>9. QED
  BY <1>1, <1>2, <1>3, <1>4, <1>5, <1>6, <1>7, <1>8
     DEF Next, Serve, RunStep

(***************************************************************************)
(* In every reachable state a snapshot that has its manifest has its       *)
(* entries, whatever requests were lost, late or repeated.                 *)
(***************************************************************************)
THEOREM UploadOrder == Spec => []ManifestHasEntries
<1>1. UploadInv => ManifestHasEntries
  BY DEF UploadInv, ManifestHasEntries
<1>2. QED BY <1>1, UploadInvInit, UploadInvStep, TypeCorrect, PTL DEF Spec
-------------------------------------------------------------------------------
(***************************************************************************)
(* What a step may do to the log, and to a run that does not take it.      *)
(***************************************************************************)
LEMMA LogStep ==
  ASSUME TypeOK, [Next]_vars
  PROVE  /\ clock <= clock'
         /\ \A e \in Entries :
              /\ stage[e] = "expired" => stage'[e] = "expired"
              /\ stage[e] \in {"listed", "expired"}
                   => stage'[e] \in {"listed", "expired"}
              /\ stage[e] # "unwritten"
                   => stage'[e] # "unwritten" /\ receivedAt'[e] = receivedAt[e]
              /\ stage[e] = "unwritten" /\ stage'[e] # "unwritten"
                   => receivedAt'[e] = clock
<1>1. CASE \E e \in Entries : Receive(e) \/ List(e) \/ Expire(e)
  BY <1>1 DEF Receive, List, Expire, TypeOK, Stages
<1>2. CASE Tick
  BY <1>2 DEF Tick, TypeOK
<1>3. CASE ~Environment
  <2>1. UNCHANGED logVars
    BY <1>3 DEF Next, vars, Serve, RunStep, LoadMetadata, LoadMedia, Query,
       Page, LastPage, Uploaded, Saved, Conflict, Retry, Abort
  <2>2. QED BY <2>1 DEF logVars, TypeOK
<1>4. QED BY <1>1, <1>2, <1>3 DEF Environment

LEMMA OtherRuns ==
  ASSUME TypeOK, NEW r \in Runs, NEW x \in Runs, x # r, RunStep(x) \/ Abort(x)
  PROVE  /\ pc'[r] = pc[r] /\ loaded'[r] = loaded[r] /\ cutoff'[r] = cutoff[r]
         /\ must'[r] = must[r] /\ batch'[r] = batch[r] /\ reply'[r] = reply[r]
         /\ \A m \in wire' : m.run = r => m \in wire
<1> USE DEF TypeOK
<1>1. CASE LoadMetadata(x) \/ LoadMedia(x) \/ Query(x) \/ Page(x)
  BY <1>1 DEF LoadMetadata, LoadMedia, Query, Page
<1>2. CASE LastPage(x)
  BY <1>2 DEF LastPage, Send
<1>3. CASE Uploaded(x)
  BY <1>3 DEF Uploaded, Send
<1>4. CASE Saved(x) \/ Conflict(x) \/ Abort(x)
  BY <1>4 DEF Saved, Conflict, Abort, End
<1>5. CASE Retry(x)
  BY <1>5 DEF Retry, Send, End
<1>6. QED BY <1>1, <1>2, <1>3, <1>4, <1>5 DEF RunStep

LEMMA ServerLeavesRuns ==
  ASSUME TypeOK, Environment \/ (\E m \in wire : Serve(m)) \/ UNCHANGED vars
  PROVE  /\ pc' = pc /\ loaded' = loaded /\ cutoff' = cutoff
         /\ must' = must /\ batch' = batch /\ wire' \subseteq wire
BY DEF Environment, Receive, List, Expire, Tick, Serve, vars, runVars

(***************************************************************************)
(* How a run comes to hold a loaded checkpoint, a listing that is owed,    *)
(* and a complete export.                                                  *)
(***************************************************************************)
LEMMA RunHistory ==
  ASSUME TypeOK, UploadInv, [Next]_vars, NEW r \in Runs
  PROVE  /\ pc'[r] \in {"query", "page"} =>
              \/ pc[r] \in {"query", "page"} /\ loaded'[r] = loaded[r]
              \/ LoadMetadata(r) /\ loaded'[r].generation = 0
              \/ LoadMedia(r)
         /\ pc'[r] = "page" =>
              \/ pc[r] = "page" /\ cutoff'[r] = cutoff[r] /\ must'[r] = must[r]
              \/ Query(r)
         /\ Exported(r)' =>
              \/ Exported(r) /\ cutoff'[r] = cutoff[r] /\ loaded'[r] = loaded[r]
              \/ LastPage(r)
<1> USE DEF TypeOK, Exported, Calls, Files, Ended, Steps
<1>1. CASE Environment \/ (\E m \in wire : Serve(m)) \/ UNCHANGED vars
  BY <1>1, ServerLeavesRuns
<1>2. CASE \E x \in Runs \ {r} : RunStep(x) \/ Abort(x)
  <2>1. /\ pc'[r] = pc[r] /\ loaded'[r] = loaded[r] /\ cutoff'[r] = cutoff[r]
        /\ must'[r] = must[r] /\ \A m \in wire' : m.run = r => m \in wire
    BY <1>2, OtherRuns
  <2>2. QED BY <2>1
<1>3. CASE LoadMetadata(r) \/ LoadMedia(r) \/ Query(r) \/ Page(r)
  <2>1. pc[r] \notin Calls \cup Ended /\ pc'[r] \notin Calls \cup {"done"}
    BY <1>3 DEF LoadMetadata, LoadMedia, Query, Page
  <2>2. wire' = wire /\ \A m \in wire : m.run # r
    BY <1>3, <2>1 DEF LoadMetadata, LoadMedia, Query, Page, UploadInv
  <2>3. ~Exported(r)'
    BY <2>1, <2>2
  <2>4. CASE LoadMetadata(r)
    BY <2>3, <2>4 DEF LoadMetadata
  <2>5. CASE LoadMedia(r)
    BY <2>3, <2>5 DEF LoadMedia
  <2>6. CASE Query(r)
    BY <2>3, <2>6 DEF Query
  <2>7. CASE Page(r)
    BY <2>3, <2>7 DEF Page
  <2>8. QED BY <1>3, <2>4, <2>5, <2>6, <2>7
<1>4. CASE LastPage(r)
  BY <1>4 DEF LastPage, Send
<1>5. CASE Uploaded(r)
  BY <1>5 DEF Uploaded, Send
<1>6. CASE Saved(r) \/ Conflict(r) \/ Abort(r)
  BY <1>6 DEF Saved, Conflict, Abort, End
<1>7. CASE Retry(r)
  <2>1. pc[r] \in Calls /\ cutoff' = cutoff /\ loaded' = loaded
    BY <1>7 DEF Retry
  <2>2. pc'[r] \in {pc[r], "failed"}
    BY <1>7 DEF Retry, Send, End
  <2>3. QED BY <2>1, <2>2
<1>8. QED
  BY <1>1, <1>2, <1>3, <1>4, <1>5, <1>6, <1>7 DEF Next, RunStep

(***************************************************************************)
(* What is kept up to a cutoff in the past stays kept: nothing leaves the  *)
(* archive, and a new entry is stamped later.                              *)
(***************************************************************************)
LEMMA KeptStays ==
  ASSUME TypeOK, [Next]_vars
  PROVE  /\ \A c \in Int : c <= clock + Skew - Delay => c <= clock' + Skew - Delay
         /\ \A e \in Entries : Kept(e) => Kept(e)'
         /\ \A c \in Int : \A e \in Entries :
              /\ c <= clock + Skew - Delay
              /\ stage'[e] # "unwritten" /\ receivedAt'[e] <= c - Overlap
              => stage[e] # "unwritten" /\ receivedAt[e] <= c - Overlap
<1>1. ASSUME NEW c \in Int, c <= clock + Skew - Delay
      PROVE  c <= clock' + Skew - Delay
  BY <1>1, LogStep, TypeOKStep, TimeAssumption DEF TypeOK
<1>2. ASSUME NEW e \in Entries, Kept(e) PROVE Kept(e)'
  BY <1>2, LogStep, ArchiveGrows DEF Kept
<1>3. ASSUME NEW c \in Int, NEW e \in Entries, c <= clock + Skew - Delay,
             stage'[e] # "unwritten", receivedAt'[e] <= c - Overlap
      PROVE  stage[e] # "unwritten" /\ receivedAt[e] <= c - Overlap
  <2>1. clock > c - Overlap
    BY <1>3, TimeAssumption, LatenessAssumption DEF TypeOK
  <2>2. stage[e] # "unwritten"
    BY <1>3, <2>1, LogStep, TimeAssumption DEF TypeOK
  <2>3. QED BY <1>3, <2>2, LogStep
<1>4. QED BY <1>1, <1>2, <1>3
-------------------------------------------------------------------------------
LEMMA CoverInvInit == Init => CoverInv
BY DEF Init, CoverInv, Exported, Calls, Files

LEMMA CoverEntries ==
  ASSUME TypeOK, CoverInv, [Next]_vars, NEW e \in Entries
  PROVE  /\ stage'[e] # "unwritten" => receivedAt'[e] <= clock'
         /\ stage'[e] = "received" => clock' <= receivedAt'[e] + Lateness
<1> USE TimeAssumption DEF TypeOK, CoverInv
<1>1. CASE \E x \in Entries : Receive(x) \/ List(x) \/ Expire(x)
  <2>1. CASE \E x \in Entries : Receive(x)
    BY <2>1 DEF Receive
  <2>2. CASE \E x \in Entries : List(x) \/ Expire(x)
    BY <2>2 DEF List, Expire
  <2>3. QED BY <1>1, <2>1, <2>2
<1>2. CASE Tick
  BY <1>2 DEF Tick
<1>3. CASE ~Environment
  <2>1. UNCHANGED logVars
    BY <1>3 DEF Next, vars, Serve, RunStep, LoadMetadata, LoadMedia, Query,
       Page, LastPage, Uploaded, Saved, Conflict, Retry, Abort
  <2>2. QED BY <2>1 DEF logVars
<1>4. QED BY <1>1, <1>2, <1>3 DEF Environment

\* The checkpoint changes only when a request to replace it is served.
LEMMA CheckpointStep ==
  ASSUME TypeOK, [Next]_vars, checkpoint' # checkpoint
  PROVE  \E m \in wire :
           /\ Serve(m) /\ m.call = "checkpoint"
           /\ m.run \in Runs /\ Exported(m.run)
           /\ checkpoint.generation = loaded[m.run].generation
           /\ checkpoint' = [generation |-> checkpoint.generation + 1,
                             cutoff |-> cutoff[m.run], run |-> m.run]
<1>1. PICK m \in wire : Serve(m) /\ ReplaceCheckpoint(m)
  BY DEF Next, vars, Environment, Receive, List, Expire, Tick, Serve,
     CreateObject, RunStep, LoadMetadata, LoadMedia, Query, Page, LastPage,
     Uploaded, Saved, Conflict, Retry, Abort, bucketVars
<1>2. m.run \in Runs
  BY DEF TypeOK, Requests
<1>3. QED BY <1>1, <1>2 DEF ReplaceCheckpoint, Exported

LEMMA CoverCheckpoint ==
  ASSUME TypeOK, UploadInv, CoverInv, [Next]_vars, checkpoint'.generation > 0
  PROVE  Past(checkpoint.cutoff)' /\ Reached(checkpoint.cutoff)'
<1>1. CASE checkpoint' = checkpoint
  <2>1. checkpoint.cutoff \in Int /\ checkpoint.generation > 0
    BY <1>1 DEF TypeOK
  <2>2. Past(checkpoint.cutoff) /\ ReachedBut(checkpoint.cutoff, {})
    BY <2>1 DEF CoverInv, Reached, ReachedBut
  <2>3. /\ checkpoint.cutoff <= clock' + Skew - Delay
        /\ \A e \in Entries :
             stage'[e] # "unwritten"
               /\ receivedAt'[e] <= checkpoint.cutoff - Overlap => Kept(e)'
    BY <2>1, <2>2, KeptStays DEF Past, ReachedBut
  <2>4. QED BY <1>1, <2>3 DEF Past, Reached
<1>2. CASE checkpoint' # checkpoint
  <2>1. PICK m \in wire :
           /\ Serve(m) /\ m.call = "checkpoint"
           /\ m.run \in Runs /\ Exported(m.run)
           /\ checkpoint'.cutoff = cutoff[m.run]
    BY <1>2, CheckpointStep
  <2>2. cutoff[m.run] \in Int /\ Past(cutoff[m.run])
          /\ ReachedBut(cutoff[m.run], batch[m.run])
    BY <2>1 DEF CoverInv, TypeOK
  <2>3. Published(m.run)
    BY <2>1 DEF UploadInv
  <2>4. \A e \in batch[m.run] : Kept(e)
    BY <2>1, <2>3 DEF Kept, Archived
  <2>5. /\ cutoff[m.run] <= clock' + Skew - Delay
        /\ \A e \in Entries :
             stage'[e] # "unwritten"
               /\ receivedAt'[e] <= cutoff[m.run] - Overlap => Kept(e)'
    BY <2>2, <2>4, KeptStays DEF Past, ReachedBut
  <2>6. QED BY <2>1, <2>5 DEF Past, Reached
<1>3. QED BY <1>1, <1>2

\* A cutoff held over a step: what it leaves open only shrinks.
LEMMA CutoffHeld ==
  ASSUME TypeOK, [Next]_vars, NEW r \in Runs, NEW S,
         cutoff'[r] = cutoff[r], Past(cutoff[r]), ReachedBut(cutoff[r], S)
  PROVE  /\ Past(cutoff[r])'
         /\ \A e \in Entries :
              stage'[e] # "unwritten" /\ receivedAt'[e] <= cutoff'[r] - Overlap
                => Kept(e)' \/ e \in S
<1>1. cutoff[r] \in Int
  BY DEF TypeOK
<1>2. QED BY <1>1, KeptStays DEF Past, ReachedBut

LEMMA CoverLoaded ==
  ASSUME TypeOK, UploadInv, CoverInv, [Next]_vars, NEW r \in Runs,
         pc'[r] \in {"query", "page"}, loaded'[r].generation > 0
  PROVE  Past(loaded[r].cutoff)' /\ Reached(loaded[r].cutoff)'
<1>1. CASE pc[r] \in {"query", "page"} /\ loaded'[r] = loaded[r]
  <2>1. loaded[r].cutoff \in Int
    BY DEF TypeOK
  <2>2. Past(loaded[r].cutoff) /\ Reached(loaded[r].cutoff)
    BY <1>1 DEF CoverInv
  <2>3. QED BY <1>1, <2>1, <2>2, KeptStays DEF Past, Reached
<1>2. CASE LoadMedia(r)
  <2>1. /\ checkpoint.generation = loaded[r].generation
        /\ loaded'[r] = [generation |-> loaded[r].generation,
                         cutoff |-> checkpoint.cutoff]
    BY <1>2 DEF LoadMedia, TypeOK
  <2>2. checkpoint.generation > 0 /\ loaded'[r].cutoff = checkpoint.cutoff
    BY <2>1
  <2>3. checkpoint.cutoff \in Int /\ Past(checkpoint.cutoff)
          /\ Reached(checkpoint.cutoff)
    BY <2>2 DEF CoverInv, TypeOK
  <2>4. QED BY <2>2, <2>3, KeptStays DEF Past, Reached
<1>3. CASE LoadMetadata(r) /\ loaded'[r].generation = 0
  BY <1>3
<1>4. QED BY <1>1, <1>2, <1>3, RunHistory

(***************************************************************************)
(* The step that starts a listing.  An entry received Overlap before the   *)
(* new cutoff is covered by the loaded checkpoint, or is in the window and *)
(* visible, or has expired; it cannot still be waiting to become visible.  *)
(***************************************************************************)
LEMMA CoverQuery ==
  ASSUME TypeOK, UploadInv, CoverInv, NEW r \in Runs, Query(r), pc'[r] = "page"
  PROVE  /\ Past(cutoff[r])'
         /\ ReachedBut(cutoff[r], must[r])'
         /\ \A e \in must'[r] : stage'[e] \in {"listed", "expired"}
<1>1. PICK s \in -Skew .. Skew :
        /\ cutoff' = [cutoff EXCEPT ![r] = clock + s - Delay]
        /\ must' = [must EXCEPT ![r] =
              {e \in Listed : InWindow(r, clock + s - Delay, e)}]
  BY DEF Query, TypeOK
<1> DEFINE c == clock + s - Delay
<1>2. c \in Int /\ c <= clock + Skew - Delay
  BY TimeAssumption, s \in Int DEF TypeOK
<1>3. cutoff'[r] = c /\ must'[r] = {e \in Listed : InWindow(r, c, e)}
  BY <1>1 DEF TypeOK
<1>4. UNCHANGED <<clock, stage, receivedAt, store, batch>>
  BY DEF Query, logVars, bucketVars
<1>5. \A e \in Entries : Kept(e) => Kept(e)'
  BY <1>4 DEF Kept, Archived, Published, Has
<1> HIDE DEF c
<1>6. ASSUME NEW e \in Entries, stage[e] # "unwritten",
             receivedAt[e] <= c - Overlap
      PROVE  Kept(e) \/ e \in must'[r]
  <2>0. receivedAt[e] \in Int /\ receivedAt[e] <= c
    BY <1>2, <1>6, TimeAssumption DEF TypeOK
  <2>1. CASE loaded[r].generation > 0
               /\ receivedAt[e] <= loaded[r].cutoff - Overlap
    <3>1. Reached(loaded[r].cutoff)
      BY <2>1 DEF Query, CoverInv
    <3>2. QED BY <3>1, <2>1, <1>6 DEF Reached
  <2>2. CASE ~(loaded[r].generation > 0
               /\ receivedAt[e] <= loaded[r].cutoff - Overlap)
    <3>0. loaded[r].cutoff \in Int
      BY DEF TypeOK
    <3>1. InWindow(r, c, e)
      BY <2>0, <2>2, <3>0, TimeAssumption DEF InWindow
    <3>2. stage[e] # "received"
      BY <1>2, <1>6, <2>0, TimeAssumption, LatenessAssumption
         DEF CoverInv, TypeOK
    <3>3. stage[e] \in {"listed", "expired"}
      BY <1>6, <3>2 DEF TypeOK, Stages
    <3>4. QED BY <1>3, <3>1, <3>3 DEF Listed, Kept
  <2>3. QED BY <2>1, <2>2
<1>7. Past(cutoff[r])'
  BY <1>2, <1>3, <1>4 DEF Past
<1>8. ReachedBut(cutoff[r], must[r])'
  BY <1>3, <1>4, <1>5, <1>6 DEF ReachedBut
<1>9. \A e \in must'[r] : stage'[e] \in {"listed", "expired"}
  BY <1>3, <1>4 DEF Listed
<1>10. QED BY <1>7, <1>8, <1>9

LEMMA CoverPage ==
  ASSUME TypeOK, UploadInv, CoverInv, [Next]_vars, NEW r \in Runs,
         pc'[r] = "page"
  PROVE  /\ Past(cutoff[r])'
         /\ ReachedBut(cutoff[r], must[r])'
         /\ \A e \in must'[r] : stage'[e] \in {"listed", "expired"}
<1>1. CASE pc[r] = "page" /\ cutoff'[r] = cutoff[r] /\ must'[r] = must[r]
  <2>1. /\ Past(cutoff[r]) /\ ReachedBut(cutoff[r], must[r])
        /\ must[r] \subseteq Entries
        /\ \A e \in must[r] : stage[e] \in {"listed", "expired"}
    BY <1>1 DEF CoverInv, TypeOK
  <2>2. /\ Past(cutoff[r])'
        /\ \A e \in Entries :
              stage'[e] # "unwritten" /\ receivedAt'[e] <= cutoff'[r] - Overlap
                => Kept(e)' \/ e \in must[r]
    BY <1>1, <2>1, CutoffHeld
  <2>3. ReachedBut(cutoff[r], must[r])'
    BY <1>1, <2>2 DEF ReachedBut
  <2>4. QED BY <1>1, <2>1, <2>2, <2>3, LogStep
<1>2. CASE Query(r)
  BY <1>2, CoverQuery
<1>3. QED BY <1>1, <1>2, RunHistory

LEMMA CoverExported ==
  ASSUME TypeOK, UploadInv, CoverInv, [Next]_vars, NEW r \in Runs, Exported(r)'
  PROVE  Past(cutoff[r])' /\ ReachedBut(cutoff[r], batch[r])'
<1>1. CASE Exported(r) /\ cutoff'[r] = cutoff[r]
  <2>1. Past(cutoff[r]) /\ ReachedBut(cutoff[r], batch[r])
    BY <1>1 DEF CoverInv
  <2>2. /\ Past(cutoff[r])'
        /\ \A e \in Entries :
              stage'[e] # "unwritten" /\ receivedAt'[e] <= cutoff'[r] - Overlap
                => Kept(e)' \/ e \in batch[r]
    BY <1>1, <2>1, CutoffHeld
  <2>3. batch[r] \subseteq batch'[r]
    BY ArchiveGrows
  <2>4. QED BY <2>2, <2>3 DEF ReachedBut
<1>2. CASE LastPage(r)
  <2>1. /\ Past(cutoff[r]) /\ ReachedBut(cutoff[r], must[r])
        /\ must[r] \subseteq Entries
        /\ \A e \in must[r] : stage[e] \in {"listed", "expired"}
    BY <1>2 DEF CoverInv, LastPage, TypeOK
  <2>2. cutoff' = cutoff /\ UNCHANGED <<clock, stage, receivedAt>>
    BY <1>2 DEF LastPage, logVars
  <2>3. must[r] \cap Listed \subseteq batch'[r]
    BY <1>2 DEF LastPage, TypeOK
  <2>4. \A e \in must[r] : e \in batch'[r] \/ stage'[e] = "expired"
    BY <2>1, <2>2, <2>3 DEF Listed
  <2>5. /\ Past(cutoff[r])'
        /\ \A e \in Entries :
              stage'[e] # "unwritten" /\ receivedAt'[e] <= cutoff'[r] - Overlap
                => Kept(e)' \/ e \in must[r]
    BY <2>1, <2>2, CutoffHeld
  <2>6. QED BY <2>4, <2>5 DEF ReachedBut, Kept
<1>3. QED BY <1>1, <1>2, RunHistory

LEMMA CoverInvStep ==
  ASSUME TypeOK, UploadInv, CoverInv, [Next]_vars
  PROVE  CoverInv'
<1>1. \A e \in Entries :
        /\ stage'[e] # "unwritten" => receivedAt'[e] <= clock'
        /\ stage'[e] = "received" => clock' <= receivedAt'[e] + Lateness
  BY CoverEntries
<1>2. checkpoint'.generation > 0 =>
        Past(checkpoint.cutoff)' /\ Reached(checkpoint.cutoff)'
  BY CoverCheckpoint
<1>3. ASSUME NEW r \in Runs
      PROVE  /\ pc'[r] \in {"query", "page"} /\ loaded'[r].generation > 0 =>
                  Past(loaded[r].cutoff)' /\ Reached(loaded[r].cutoff)'
             /\ pc'[r] = "page" =>
                  /\ Past(cutoff[r])' /\ ReachedBut(cutoff[r], must[r])'
                  /\ \A e \in must'[r] : stage'[e] \in {"listed", "expired"}
             /\ Exported(r)' =>
                  Past(cutoff[r])' /\ ReachedBut(cutoff[r], batch[r])'
  BY CoverLoaded, CoverPage, CoverExported
<1>4. QED BY <1>1, <1>2, <1>3 DEF CoverInv

THEOREM CoverInvariant == Spec => [](UploadInv /\ CoverInv)
BY TypeCorrect, UploadInvInit, UploadInvStep, CoverInvInit, CoverInvStep, PTL
   DEF Spec

(***************************************************************************)
(* No gap in the archive: in every reachable state, an entry received      *)
(* Overlap before the checkpoint is in a published snapshot or was dropped *)
(* by Cloud Logging, for every number of concurrent, failing and retrying  *)
(* runs, as long as entries become visible within Lateness.                *)
(***************************************************************************)
THEOREM ArchiveCovers == Spec => []Coverage
<1>1. CoverInv => Coverage
  BY DEF CoverInv, Coverage
<1>2. QED BY <1>1, CoverInvariant, PTL
-------------------------------------------------------------------------------
LEMMA OrderInvInit == Init => OrderInv
BY DEF Init, OrderInv, Exported, Calls, Files, Ended

\* Once its export is uploaded or being uploaded, a run's cutoff is settled.
LEMMA ExportFixed ==
  ASSUME TypeOK, [Next]_vars, NEW r \in Runs, pc[r] \in Calls \cup Ended
  PROVE  cutoff'[r] = cutoff[r] /\ loaded'[r] = loaded[r]
<1> USE DEF Calls, Files, Ended
<1>1. CASE Environment \/ (\E m \in wire : Serve(m)) \/ UNCHANGED vars
  BY <1>1, ServerLeavesRuns
<1>2. CASE \E x \in Runs \ {r} : RunStep(x) \/ Abort(x)
  BY <1>2, OtherRuns
<1>3. CASE RunStep(r) \/ Abort(r)
  BY <1>3 DEF RunStep, LoadMetadata, LoadMedia, Query, Page, LastPage, Uploaded,
     Saved, Conflict, Retry, Abort
<1>4. QED BY <1>1, <1>2, <1>3 DEF Next

LEMMA AdvanceStep ==
  ASSUME TypeOK, OrderInv, [Next]_vars, checkpoint' # checkpoint
  PROVE  Advance
<1>1. PICK m \in wire :
        /\ m.run \in Runs /\ Exported(m.run)
        /\ checkpoint.generation = loaded[m.run].generation
        /\ checkpoint' = [generation |-> checkpoint.generation + 1,
                          cutoff |-> cutoff[m.run], run |-> m.run]
  BY CheckpointStep
<1>2. checkpoint.generation > 0 => cutoff[m.run] >= checkpoint.cutoff
  BY <1>1 DEF OrderInv, TypeOK
<1>3. QED BY <1>1, <1>2 DEF Advance

LEMMA OrderCheckpoint ==
  ASSUME TypeOK, UploadInv, OrderInv, [Next]_vars, checkpoint'.generation > 0
  PROVE  /\ checkpoint'.run \in Runs
         /\ Published(checkpoint.run)'
         /\ checkpoint'.cutoff = cutoff'[checkpoint'.run]
<1>1. CASE checkpoint' = checkpoint
  <2> DEFINE r == checkpoint.run
  <2>1. r \in Runs /\ Published(r) /\ checkpoint.cutoff = cutoff[r]
    BY <1>1 DEF OrderInv
  <2>2. pc[r] \in Calls \cup Ended
    BY <2>1 DEF UploadInv, Published, Files
  <2>3. cutoff'[r] = cutoff[r]
    BY <2>1, <2>2, ExportFixed
  <2>4. \A f \in Files : [run |-> r, file |-> f] \in store'
    BY <2>1, ArchiveGrows DEF Published, Has
  <2>5. QED BY <1>1, <2>1, <2>3, <2>4 DEF Published, Has
<1>2. CASE checkpoint' # checkpoint
  <2>1. PICK m \in wire :
          /\ Serve(m) /\ m.call = "checkpoint" /\ m.run \in Runs
          /\ checkpoint'.cutoff = cutoff[m.run] /\ checkpoint'.run = m.run
    BY <1>2, CheckpointStep
  <2>2. Published(m.run)
    BY <2>1 DEF UploadInv
  <2>3. cutoff' = cutoff
    BY <2>1 DEF Serve
  <2>4. \A f \in Files : [run |-> m.run, file |-> f] \in store'
    BY <2>2, ArchiveGrows DEF Published, Has
  <2>5. QED BY <2>1, <2>3, <2>4 DEF Published, Has
<1>3. QED BY <1>1, <1>2

LEMMA OrderLoaded ==
  ASSUME TypeOK, UploadInv, OrderInv, [Next]_vars, NEW r \in Runs
  PROVE  /\ loaded'[r].generation <= checkpoint'.generation
         /\ /\ pc'[r] \in {"query", "page"} \/ Exported(r)'
            /\ loaded'[r].generation > 0
            /\ loaded'[r].generation = checkpoint'.generation
            => loaded'[r].cutoff = checkpoint'.cutoff
<1>1. CASE checkpoint' # checkpoint
  <2>1. loaded' = loaded
    BY <1>1, CheckpointStep DEF Serve
  <2>2. checkpoint'.generation = checkpoint.generation + 1
    BY <1>1, AdvanceStep DEF Advance
  <2>3. loaded[r].generation <= checkpoint.generation
    BY DEF OrderInv
  <2>4. QED BY <2>1, <2>2, <2>3 DEF TypeOK
<1>2. CASE checkpoint' = checkpoint
  <2>1. \/ loaded'[r] = loaded[r]
        \/ loaded'[r].generation = checkpoint.generation
    <3>1. CASE Environment \/ (\E m \in wire : Serve(m)) \/ UNCHANGED vars
      BY <3>1, ServerLeavesRuns
    <3>2. CASE \E x \in Runs \ {r} : RunStep(x) \/ Abort(x)
      BY <3>2, OtherRuns
    <3>3. CASE RunStep(r) \/ Abort(r)
      BY <3>3 DEF RunStep, LoadMetadata, LoadMedia, Query, Page, LastPage,
         Uploaded, Saved, Conflict, Retry, Abort, TypeOK
    <3>4. QED BY <3>1, <3>2, <3>3 DEF Next
  <2>2. loaded'[r].generation <= checkpoint'.generation
    BY <1>2, <2>1 DEF OrderInv, TypeOK
  <2>3. ASSUME pc'[r] \in {"query", "page"} \/ Exported(r)',
               loaded'[r].generation > 0,
               loaded'[r].generation = checkpoint'.generation
        PROVE  loaded'[r].cutoff = checkpoint'.cutoff
    <3>1. CASE /\ pc[r] \in {"query", "page"} \/ Exported(r)
               /\ loaded'[r] = loaded[r]
      BY <1>2, <2>3, <3>1 DEF OrderInv
    <3>2. CASE LoadMedia(r)
      BY <1>2, <2>3, <3>2 DEF LoadMedia, TypeOK
    <3>3. CASE LastPage(r)
      BY <1>2, <2>3, <3>3 DEF LastPage, OrderInv
    <3>4. QED BY <2>3, <3>1, <3>2, <3>3, RunHistory
  <2>4. QED BY <2>2, <2>3
<1>3. QED BY <1>1, <1>2

LEMMA OrderCutoff ==
  ASSUME TypeOK, UploadInv, OrderInv, [Next]_vars, NEW r \in Runs,
         pc'[r] = "page" \/ Exported(r)', loaded'[r].generation > 0
  PROVE  loaded'[r].cutoff <= cutoff'[r]
<1>1. CASE /\ pc[r] = "page" \/ Exported(r)
           /\ cutoff'[r] = cutoff[r] /\ loaded'[r] = loaded[r]
  BY <1>1 DEF OrderInv
<1>2. CASE Query(r) /\ pc'[r] = "page"
  <2>1. PICK s \in -Skew .. Skew :
          /\ ~(loaded[r].generation > 0 /\ loaded[r].cutoff > clock + s - Delay)
          /\ cutoff' = [cutoff EXCEPT ![r] = clock + s - Delay]
    BY <1>2 DEF Query, TypeOK
  <2>2. loaded' = loaded
    BY <1>2 DEF Query
  <2>3. clock + s - Delay \in Int /\ loaded[r].cutoff \in Int
    BY TimeAssumption, s \in Int DEF TypeOK
  <2>4. QED BY <2>1, <2>2, <2>3 DEF TypeOK
<1>3. CASE LastPage(r)
  BY <1>3 DEF LastPage, OrderInv
<1>4. CASE pc'[r] = "page" /\ ~Query(r)
  <2>1. pc[r] = "page" /\ cutoff'[r] = cutoff[r]
    BY <1>4, RunHistory
  <2>2. loaded'[r] = loaded[r]
    BY <1>4, <2>1, RunHistory DEF LoadMetadata, LoadMedia
  <2>3. QED BY <1>1, <2>1, <2>2
<1>5. QED BY <1>1, <1>2, <1>3, <1>4, RunHistory

Confirmed(r) == pc[r] = "done" \/ (pc[r] = "checkpoint" /\ reply[r] = "ok")

\* A run learns of its success when, or after, its request was applied.
LEMMA ConfirmedStep ==
  ASSUME TypeOK, [Next]_vars, NEW r \in Runs, Confirmed(r)', ~Confirmed(r)
  PROVE  /\ pc[r] = "checkpoint"
         /\ checkpoint'.generation > 0 /\ checkpoint'.cutoff = cutoff'[r]
<1> USE DEF Confirmed, TypeOK, Calls, Files, Ended
<1>1. CASE Environment \/ UNCHANGED vars
  BY <1>1 DEF Environment, Receive, List, Expire, Tick, vars, runVars
<1>2. ASSUME NEW m \in wire, Serve(m), CreateObject(m) PROVE FALSE
  BY <1>2 DEF Serve, CreateObject, Answer
<1>3. ASSUME NEW m \in wire, Serve(m), ReplaceCheckpoint(m)
      PROVE  /\ pc[r] = "checkpoint"
             /\ checkpoint'.generation > 0 /\ checkpoint'.cutoff = cutoff'[r]
  <2>1. pc' = pc /\ cutoff' = cutoff
    BY <1>3 DEF Serve
  <2>2. m.run = r /\ checkpoint.generation = loaded[r].generation
    BY <1>3, <2>1 DEF ReplaceCheckpoint, Answer, Requests
  <2>3. checkpoint' = [generation |-> checkpoint.generation + 1,
                      cutoff |-> cutoff[r], run |-> r]
    BY <1>3, <2>2 DEF ReplaceCheckpoint
  <2>4. QED BY <2>1, <2>3
<1>4. CASE \E x \in Runs \ {r} : RunStep(x) \/ Abort(x)
  BY <1>4, OtherRuns
<1>5. CASE LoadMetadata(r) \/ LoadMedia(r) \/ Query(r) \/ Page(r)
  BY <1>5 DEF LoadMetadata, LoadMedia, Query, Page
<1>6. CASE LastPage(r) \/ Uploaded(r)
  BY <1>6 DEF LastPage, Uploaded, Send
<1>7. CASE Saved(r) \/ Conflict(r) \/ Abort(r)
  BY <1>7 DEF Saved, Conflict, Abort, End
<1>8. CASE Retry(r)
  BY <1>8 DEF Retry, Send, End
<1>9. QED
  BY <1>1, <1>2, <1>3, <1>4, <1>5, <1>6, <1>7, <1>8 DEF Next, RunStep, Serve

LEMMA OrderConfirmed ==
  ASSUME TypeOK, UploadInv, OrderInv, [Next]_vars, NEW r \in Runs, Confirmed(r)'
  PROVE  checkpoint'.generation > 0 /\ cutoff'[r] <= checkpoint'.cutoff
<1>1. CASE Confirmed(r)
  <2>1. checkpoint.generation > 0 /\ cutoff[r] <= checkpoint.cutoff
    BY <1>1 DEF OrderInv, Confirmed
  <2>2. cutoff'[r] = cutoff[r]
    BY <1>1, ExportFixed DEF Confirmed, Calls, Ended
  <2>3. checkpoint' = checkpoint \/ Advance
    BY AdvanceStep
  <2>4. checkpoint'.cutoff \in Int
    BY TypeOKStep DEF TypeOK
  <2>5. QED BY <2>1, <2>2, <2>3, <2>4 DEF Advance, TypeOK
<1>2. CASE ~Confirmed(r)
  <2>1. cutoff'[r] \in Int
    BY TypeOKStep DEF TypeOK
  <2>2. QED BY <1>2, <2>1, ConfirmedStep
<1>3. QED BY <1>1, <1>2

LEMMA OrderInvStep ==
  ASSUME TypeOK, UploadInv, OrderInv, [Next]_vars
  PROVE  OrderInv'
<1>1. ASSUME NEW r \in Runs
      PROVE  Confirmed(r)' =>
               checkpoint'.generation > 0 /\ cutoff'[r] <= checkpoint'.cutoff
  BY OrderConfirmed
<1>2. QED
  BY <1>1, OrderCheckpoint, OrderLoaded, OrderCutoff DEF OrderInv, Confirmed

THEOREM OrderInvariant == Spec => [](UploadInv /\ OrderInv)
BY TypeCorrect, UploadInvInit, UploadInvStep, OrderInvInit, OrderInvStep, PTL
   DEF Spec

(***************************************************************************)
(* The checkpoint always names a completely uploaded snapshot.             *)
(***************************************************************************)
THEOREM CheckpointIsComplete == Spec => []CheckpointNamesSnapshot
<1>1. OrderInv => CheckpointNamesSnapshot
  BY DEF OrderInv, CheckpointNamesSnapshot
<1>2. QED BY <1>1, OrderInvariant, PTL

(***************************************************************************)
(* Success reported by a run is lasting: its snapshot is complete and its  *)
(* cutoff is at or behind the checkpoint from then on.                     *)
(***************************************************************************)
THEOREM SuccessLasts == Spec => []SuccessIsDurable
<1>1. UploadInv /\ OrderInv => SuccessIsDurable
  BY DEF UploadInv, OrderInv, SuccessIsDurable
<1>2. QED BY <1>1, OrderInvariant, PTL

(***************************************************************************)
(* The checkpoint only moves forward, one generation at a time and by a    *)
(* run that had loaded what it replaces, whatever the clocks of the runs   *)
(* show and whenever their requests arrive.                                *)
(***************************************************************************)
THEOREM CheckpointMovesForward == Spec => CheckpointAdvances
<1>1. TypeOK /\ OrderInv /\ [Next]_vars => [Advance]_checkpoint
  BY AdvanceStep
<1>2. QED BY <1>1, TypeCorrect, OrderInvariant, PTL DEF Spec, CheckpointAdvances
-------------------------------------------------------------------------------
(***************************************************************************)
(* Refinement of ArchiveLedger.                                            *)
(***************************************************************************)
LEMMA LedgerInit == Init => Ledger!Init
BY DEF Init, Ledger!Init, Archived, Published, Has, Files

BatchReceived == \A r \in Runs : \A e \in batch[r] : stage[e] # "unwritten"

LEMMA BatchReceivedStep ==
  ASSUME TypeOK, BatchReceived, [Next]_vars
  PROVE  BatchReceived'
<1>1. \A r \in Runs : batch'[r] \subseteq batch[r] \cup Listed
  <2>1. ASSUME NEW x \in Runs, Page(x) \/ LastPage(x)
        PROVE  \A r \in Runs : batch'[r] \subseteq batch[r] \cup Listed
    BY <2>1 DEF Page, LastPage, Found, TypeOK
  <2>2. ASSUME ~\E x \in Runs : Page(x) \/ LastPage(x)
        PROVE  batch' = batch
    BY <2>2 DEF Next, vars, Environment, Receive, List, Expire, Tick, Serve,
         RunStep, LoadMetadata, LoadMedia, Query, Uploaded, Saved, Conflict,
         Retry, Abort, runVars
  <2>3. QED BY <2>1, <2>2
<1>2. \A r \in Runs : batch[r] \cup Listed \subseteq Entries
  BY DEF TypeOK, Listed
<1>3. QED BY <1>1, <1>2, LogStep DEF BatchReceived, Listed

\* A step of the archive that leaves the log and the checkpoint alone can
\* only publish.
LEMMA LedgerPublish ==
  ASSUME TypeOK, BatchReceived, [Next]_vars,
         UNCHANGED <<stage, receivedAt, checkpoint>>
  PROVE  Ledger!Publish
<1>1. Archived \subseteq Archived'
  BY ArchiveGrows
<1>2. \A r \in Runs : batch'[r] \subseteq Entries
  BY TypeOKStep DEF TypeOK
<1>3. Archived' \subseteq {e \in Entries : stage'[e] # "unwritten"}
  BY <1>2, BatchReceivedStep DEF Archived, BatchReceived
<1>4. QED BY <1>1, <1>3 DEF Ledger!Publish

LEMMA LedgerStep ==
  ASSUME TypeOK, UploadInv, CoverInv, OrderInv, BatchReceived, [Next]_vars
  PROVE  Ledger!Next \/ UNCHANGED Ledger!vars
<1> DEFINE received == {x \in Entries : stage[x] # "unwritten"}
<1> DEFINE lost == {x \in Entries : stage[x] = "expired"}
<1>1. ASSUME NEW e \in Entries, Receive(e)
      PROVE  Ledger!Next
  <2>1. stage' = [stage EXCEPT ![e] = "received"] /\ stage[e] = "unwritten"
    BY <1>1 DEF Receive
  <2>2. received' = received \cup {e} /\ lost' = lost /\ e \notin received
    BY <2>1 DEF TypeOK
  <2>3. receivedAt' = [receivedAt EXCEPT ![e] = clock]
    BY <1>1 DEF Receive
  <2>4. receivedAt' \in [Entries -> Int]
    BY TypeOKStep DEF TypeOK
  <2>5. checkpoint' = checkpoint /\ Archived' = Archived
    BY <1>1 DEF Receive, bucketVars, runVars, Archived, Published, Has
  <2>6. checkpoint.generation > 0 => receivedAt'[e] > checkpoint.cutoff - Overlap
    <3>1. receivedAt'[e] = clock
      BY <2>3 DEF TypeOK
    <3>2. checkpoint.generation > 0 => Past(checkpoint.cutoff)
      BY DEF CoverInv
    <3>3. checkpoint.cutoff \in Int /\ clock \in Int
      BY DEF TypeOK
    <3>4. QED BY <3>1, <3>2, <3>3, TimeAssumption, LatenessAssumption DEF Past
  <2>7. \A x \in Entries \ {e} : receivedAt'[x] = receivedAt[x]
    BY <2>3 DEF TypeOK
  <2>8. Ledger!Arrive(e)
    BY <2>2, <2>4, <2>5, <2>6, <2>7 DEF Ledger!Arrive
  <2>9. QED BY <2>8 DEF Ledger!Next
<1>2. ASSUME NEW e \in Entries, Expire(e)
      PROVE  Ledger!Next
  <2>1. stage' = [stage EXCEPT ![e] = "expired"] /\ stage[e] = "listed"
    BY <1>2 DEF Expire
  <2>2. received' = received /\ lost' = lost \cup {e} /\ e \in received
    BY <2>1 DEF TypeOK
  <2>3. /\ checkpoint' = checkpoint /\ receivedAt' = receivedAt
        /\ Archived' = Archived
    BY <1>2 DEF Expire, bucketVars, runVars, Archived, Published, Has
  <2>4. Ledger!Lose(e)
    BY <2>2, <2>3 DEF Ledger!Lose
  <2>5. QED BY <2>4 DEF Ledger!Next
<1>3. ASSUME NEW e \in Entries, List(e)
      PROVE  UNCHANGED Ledger!vars
  <2>1. stage' = [stage EXCEPT ![e] = "listed"] /\ stage[e] = "received"
    BY <1>3 DEF List
  <2>2. received' = received /\ lost' = lost
    BY <2>1 DEF TypeOK
  <2>3. /\ checkpoint' = checkpoint /\ receivedAt' = receivedAt
        /\ Archived' = Archived
    BY <1>3 DEF List, bucketVars, runVars, Archived, Published, Has
  <2>4. QED BY <2>2, <2>3 DEF Ledger!vars
<1>4. CASE checkpoint' # checkpoint
  <2>1. PICK m \in wire : Serve(m) /\ m.call = "checkpoint"
    BY <1>4, CheckpointStep
  <2>2. UNCHANGED <<stage, receivedAt, batch>>
    BY <2>1 DEF Serve, logVars
  <2>3. store' = store
    BY <2>1 DEF Serve, CreateObject, ReplaceCheckpoint, Files
  <2>4. Archived' = Archived
    BY <2>2, <2>3 DEF Archived, Published, Has
  <2>5. Advance
    BY <1>4, AdvanceStep
  <2>6. checkpoint'.generation > 0 /\ checkpoint'.cutoff \in Int
    BY <2>5, TypeOKStep DEF Advance, TypeOK
  <2>7. Reached(checkpoint.cutoff)'
    BY <2>6, CoverCheckpoint
  <2>8. \A e \in received :
          receivedAt[e] <= checkpoint'.cutoff - Overlap => e \in Archived \cup lost
    BY <2>2, <2>4, <2>7 DEF Reached, Kept
  <2>9. Ledger!MoveMark
    BY <2>2, <2>4, <2>5, <2>6, <2>8 DEF Ledger!MoveMark, Ledger!Settled, Advance
  <2>10. QED BY <2>9 DEF Ledger!Next
<1>5. CASE /\ checkpoint' = checkpoint
           /\ ~\E e \in Entries : Receive(e) \/ List(e) \/ Expire(e)
  <2>1. UNCHANGED <<stage, receivedAt>>
    BY <1>5 DEF Next, Environment, Tick, vars, Serve, RunStep, LoadMetadata,
       LoadMedia, Query, Page, LastPage, Uploaded, Saved, Conflict, Retry,
       Abort, logVars
  <2>2. Ledger!Publish
    BY <1>5, <2>1, LedgerPublish
  <2>3. QED BY <2>2 DEF Ledger!Next
<1>6. QED BY <1>1, <1>2, <1>3, <1>4, <1>5

(***************************************************************************)
(* The archive implements its ledger: every step of every run, server and  *)
(* log either is invisible to a reader of the bucket or is one the ledger  *)
(* allows.                                                                 *)
(***************************************************************************)
THEOREM ArchiveImplementsLedger == Spec => LedgerSpec
<1>1. Init => BatchReceived
  BY DEF Init, BatchReceived
<1>2. TypeOK /\ UploadInv /\ CoverInv /\ OrderInv /\ BatchReceived /\ [Next]_vars
        => [Ledger!Next]_(Ledger!vars)
  BY LedgerStep
<1>3. QED
  BY <1>1, <1>2, BatchReceivedStep, LedgerInit, TypeCorrect, CoverInvariant,
     OrderInvariant, PTL DEF Spec, LedgerSpec, Ledger!Spec

\* What the rules of the ledger keep true by themselves.
LedgerInv ==
  /\ receivedAt \in [Entries -> Int]
  /\ checkpoint.cutoff \in Int
  /\ Ledger!NoGap

(***************************************************************************)
(* The promise of ArchiveLedger rests on its own rules: whoever follows    *)
(* them, this export or another, never leaves an entry behind the mark's   *)
(* horizon out of the archive.                                             *)
(***************************************************************************)
THEOREM LedgerHasNoGap == LedgerSpec => []Ledger!NoGap
<1>1. Ledger!Init => LedgerInv
  BY DEF Ledger!Init, LedgerInv, Ledger!NoGap
<1>2. ASSUME LedgerInv, [Ledger!Next]_(Ledger!vars) PROVE LedgerInv'
  <2> USE DEF LedgerInv, Ledger!NoGap, Ledger!Settled
  <2>1. Overlap \in Int
    BY TimeAssumption
  <2>2. ASSUME NEW e \in Entries, Ledger!Arrive(e) PROVE LedgerInv'
    <3>1. \A x \in {y \in Entries : stage[y] # "unwritten"} : receivedAt'[x] = receivedAt[x]
      BY <2>2 DEF Ledger!Arrive
    <3>2. QED BY <1>2, <2>1, <2>2, <3>1 DEF Ledger!Arrive
  <2>3. ASSUME NEW e \in Entries, Ledger!Lose(e) PROVE LedgerInv'
    BY <1>2, <2>3 DEF Ledger!Lose
  <2>4. CASE Ledger!Publish
    BY <1>2, <2>4 DEF Ledger!Publish
  <2>5. CASE Ledger!MoveMark
    BY <1>2, <2>5 DEF Ledger!MoveMark
  <2>6. CASE UNCHANGED Ledger!vars
    BY <1>2, <2>6 DEF Ledger!vars
  <2>7. QED BY <1>2, <2>2, <2>3, <2>4, <2>5, <2>6 DEF Ledger!Next
<1>3. LedgerInv => Ledger!NoGap
  BY DEF LedgerInv
<1>4. QED BY <1>1, <1>2, <1>3, PTL DEF LedgerSpec, Ledger!Spec
===============================================================================
