------------------------------- MODULE LiveCost -------------------------------
(***************************************************************************)
(* engine/cli.py cost-check-live: a deployment's monthly cost from the     *)
(* Cloud Billing Catalog (engine/live_cost.py), from the static table for  *)
(* whatever has no live rate, and engine/cost_engine.py's estimate from    *)
(* that table alone, which validate warns by.                              *)
(*                                                                         *)
(* The catalog is listed page by page for the first VM that needs it and   *)
(* kept for the others.  A listing that fails is not: its VM falls back    *)
(* to the static table and the next one lists again.  What is not a        *)
(* LiveCostError (a timeout, an answer without the expected fields) ends   *)
(* the command.  The catalog does not change while it is read.             *)
(*                                                                         *)
(* A machine type is the sequence of its parts, its third a number (-1 for *)
(* one that int() refuses); Null is `machine_type: null`.  Rates are       *)
(* counted in quarters, since N1 has 3.75 GB to a vCPU.                    *)
(***************************************************************************)
EXTENDS Integers, Sequences

CONSTANTS
  Inputs,      \* deployments, each with the tables and the catalog it meets
  MaxFaults    \* bound: failures of credentials and of the catalog service

Null == <<>>
Families == {"e2", "n2", "n2d", "n1"}

\* What the code reads of a SKU.  family is the one whose prefix starts its
\* description, special is Custom, Sole Tenancy or Premium.
SkuType == [family: Families \cup {"other"}, component: {"Core", "Ram", "other"},
            usage: {"OnDemand", "Preemptible"}, special: BOOLEAN,
            regions: SUBSET STRING, price: Nat]

ASSUME FaultAssumption == MaxFaults \in Nat

ASSUME InputAssumption ==
  \A g \in Inputs :
     /\ g.pages \in Seq(SUBSET SkuType) /\ g.pages # <<>>
     /\ \A t \in {"vm", "cloudsql"} : Len(g.instances[t]) \in Nat
     /\ \A t \in {"vm", "cloudsql"} :
          \A kind \in DOMAIN g.rates[t] : g.rates[t][kind] \in Nat
     /\ \A k \in 1 .. Len(g.instances["vm"]) :
          LET m == g.instances["vm"][k]
          IN Len(m) = 3 => m[3] \in Int

VARIABLES
  given,    \* the deployment, cost.yaml and the catalog
  pc,
  page,     \* the next page of the listing
  found,    \* the SKUs of the listing so far
  cache,    \* skus_cache: the catalog once it was listed, <<>> until then
  rows,     \* the lines printed: where a rate comes from, why, and the rate
  total,    \* total_monthly
  faults

vars == <<given, pc, page, found, cache, rows, total, faults>>

Hours == 730
RamQuarters == [f \in Families |-> IF f = "n1" THEN 15 ELSE 16]

Instances(t) == IF t \in given.enabled THEN given.instances[t] ELSE <<>>
Vms == Instances("vm")
Sqls == Instances("cloudsql")
Turn == Len(rows) + 1
Catalog == UNION {given.pages[p] : p \in 1 .. Len(given.pages)}

TypeOK ==
  /\ given \in Inputs
  /\ pc \in {"start", "token", "price", "list", "done", "refused", "crashed"}
  /\ page \in 1 .. Len(given.pages)
  /\ found \subseteq SkuType
  /\ cache \in Seq(SUBSET SkuType) /\ Len(cache) <= 1
  /\ rows \in Seq([from: {"live", "static", "none"},
                   why: {"live", "shape", "http", "unoffered", "sql"}, rate: Nat])
  /\ Len(rows) <= Len(Vms) + Len(Sqls)
  /\ total \in Nat
  /\ faults \in 0 .. MaxFaults

Init ==
  /\ given \in Inputs
  /\ pc = "start" /\ page = 1 /\ found = {} /\ cache = <<>>
  /\ rows = <<>> /\ total = 0 /\ faults = 0
-------------------------------------------------------------------------------
\* _parse_standard_shape
Standard(m) == Len(m) = 3 /\ m[2] = "standard" /\ m[1] \in Families /\ m[3] >= 0

\* _find_component_rate: any of these may come first.
Matches(skus, family, component) ==
  {s \in skus : s.usage = "OnDemand" /\ s.family = family
                /\ s.component = component /\ ~s.special /\ given.region \in s.regions}

Hourly(m, core, ram) == m[3] * (4 * core.price + RamQuarters[m[1]] * ram.price)

Fault == faults < MaxFaults /\ faults' = faults + 1

\* A step that may be refused: then the command returns 1.
Try(from, to) ==
  /\ pc = from
  /\ \/ pc' = to /\ UNCHANGED faults
     \/ pc' = "refused" /\ Fault
  /\ UNCHANGED <<given, page, found, cache, rows, total>>

Load == Try("start", "token")
Authenticate == Try("token", "price")

Line(from, why, rate) ==
  /\ rows' = Append(rows, [from |-> from, why |-> why, rate |-> rate])
  /\ total' = total + rate * Hours

\* Mutant: a rate of the static table is printed and not added.
StaticUncounted(t, kind, why) ==
  IF kind \in DOMAIN given.rates[t]
    THEN /\ rows' = Append(rows, [from |-> "static", why |-> why,
                                  rate |-> given.rates[t][kind]])
         /\ UNCHANGED total
    ELSE Line("none", why, 0)

Static(t, kind, why) ==
  IF kind \in DOMAIN given.rates[t]
    THEN Line("static", why, given.rates[t][kind]) ELSE Line("none", why, 0)

\* The loop is at a VM of type m.
At(m) == pc = "price" /\ Len(rows) < Len(Vms) /\ m = Vms[Turn]

Unsupported(m) ==
  /\ At(m) /\ m # Null /\ ~Standard(m)
  /\ Static("vm", m, "shape")
  /\ UNCHANGED <<given, pc, page, found, cache, faults>>

\* None.split
NoType(m) ==
  /\ At(m) /\ m = Null
  /\ pc' = "crashed"
  /\ UNCHANGED <<given, page, found, cache, rows, total, faults>>

\* Mutant: the catalog is listed for every VM.
ListAgain(m) ==
  /\ At(m) /\ Standard(m) /\ (cache = <<>> \/ rows # <<>>)
  /\ pc' = "list" /\ page' = 1 /\ found' = {} /\ cache' = <<>>
  /\ UNCHANGED <<given, rows, total, faults>>

List(m) ==
  /\ At(m) /\ Standard(m) /\ cache = <<>>
  /\ pc' = "list" /\ page' = 1 /\ found' = {}
  /\ UNCHANGED <<given, cache, rows, total, faults>>

\* Mutant: the next request asks for the same page.
FetchSame ==
  /\ pc = "list"
  /\ found' = found \cup given.pages[page]
  /\ IF page = Len(given.pages) THEN pc' = "price" /\ cache' = <<found'>>
                                ELSE UNCHANGED <<pc, cache>>
  /\ UNCHANGED <<given, page, rows, total, faults>>

\* Mutant: the cache is filled while the pages arrive.
FetchCaches ==
  /\ pc = "list"
  /\ found' = found \cup given.pages[page]
  /\ cache' = <<found'>>
  /\ IF page = Len(given.pages) THEN pc' = "price" /\ UNCHANGED page
                                ELSE page' = page + 1 /\ UNCHANGED pc
  /\ UNCHANGED <<given, rows, total, faults>>

\* One turn of _list_skus, and the cache entry after the last.
Fetch ==
  /\ pc = "list"
  /\ found' = found \cup given.pages[page]
  /\ IF page = Len(given.pages)
       THEN pc' = "price" /\ cache' = <<found'>> /\ UNCHANGED page
       ELSE page' = page + 1 /\ UNCHANGED <<pc, cache>>
  /\ UNCHANGED <<given, rows, total, faults>>

\* An answer's nextPageToken leads back; nothing in the loop notices.
Repeat ==
  /\ pc = "list" /\ Fault
  /\ found' = found \cup given.pages[page]
  /\ page' \in 1 .. page
  /\ UNCHANGED <<given, pc, cache, rows, total>>

\* A status other than 200.
HttpError ==
  /\ pc = "list" /\ Fault
  /\ Static("vm", Vms[Turn], "http")
  /\ pc' = "price"
  /\ UNCHANGED <<given, page, found, cache>>

\* A timeout, or an answer that is not what the code expects.
Crash ==
  /\ pc = "list" /\ Fault
  /\ pc' = "crashed"
  /\ UNCHANGED <<given, page, found, cache, rows, total>>

\* estimate_live_vm_hourly_rate with the catalog at hand
Price(m) ==
  /\ At(m) /\ Standard(m) /\ cache # <<>>
  /\ LET cores == Matches(cache[1], m[1], "Core")
         rams  == Matches(cache[1], m[1], "Ram")
     IN \/ \E core \in cores, ram \in rams : Line("live", "live", Hourly(m, core, ram))
        \/ (cores = {} \/ rams = {}) /\ Static("vm", m, "unoffered")
  /\ UNCHANGED <<given, pc, page, found, cache, faults>>

Sql ==
  /\ pc = "price"
  /\ Len(rows) >= Len(Vms) /\ Len(rows) < Len(Vms) + Len(Sqls)
  /\ Static("cloudsql", Sqls[Turn - Len(Vms)], "sql")
  /\ UNCHANGED <<given, pc, page, found, cache, faults>>

Finish ==
  /\ pc = "price" /\ Len(rows) = Len(Vms) + Len(Sqls)
  /\ pc' = "done"
  /\ UNCHANGED <<given, page, found, cache, rows, total, faults>>
-------------------------------------------------------------------------------
Step ==
  \/ Load \/ Authenticate
  \/ \E m \in {Vms[k] : k \in 1 .. Len(Vms)} :
       Unsupported(m) \/ NoType(m) \/ List(m) \/ Price(m)
  \/ Fetch \/ Sql \/ Finish

Next == Step \/ Repeat \/ HttpError \/ Crash

Spec == Init /\ [][Next]_vars

\* One process that nothing holds up; every request has a timeout.
FairSpec == Spec /\ WF_vars(Step)
-------------------------------------------------------------------------------
\* cost_engine.validate_cost: the same deployment by the static table alone.
StaticRate(t, kind) ==
  IF kind \in DOMAIN given.rates[t] THEN given.rates[t][kind] ELSE 0

\* f[1] + ... + f[n]
SumTo(f, n) ==
  LET sum[k \in 0 .. n] == IF k = 0 THEN 0 ELSE sum[k - 1] + f[k] IN sum[n]

Monthly(t) ==
  SumTo([k \in 1 .. Len(Instances(t)) |-> StaticRate(t, Instances(t)[k]) * Hours],
        Len(Instances(t)))

Estimated == Monthly("vm") + Monthly("cloudsql")

\* The catalog's offers for a machine type: on demand, in the deployment's
\* region, a core and its memory of the type's own family.
Offers(m) ==
  LET parts(c) == {s \in Catalog : s.family = m[1] /\ s.component = c
                     /\ s.usage = "OnDemand" /\ ~s.special /\ given.region \in s.regions}
  IN {Hourly(m, core, ram) : core \in parts("Core"), ram \in parts("Ram")}

(***************************************************************************)
(* A VM is priced live exactly when the catalog, all pages of it, has an   *)
(* offer for its shape, and then by that offer; only a listing that failed *)
(* for this very VM excuses a row.  A page that fails, repeats or was read *)
(* for an earlier VM never turns into "no such SKU" (live_cost.py warns of *)
(* that: no error is raised, it "silently falls back").                    *)
(***************************************************************************)
LiveIfOffered ==
  \A k \in 1 .. Len(rows) : k <= Len(Vms) =>
    LET m == Vms[k]
    IN /\ rows[k].from = "live" => Standard(m) /\ rows[k].rate \in Offers(m)
       /\ rows[k].why = "unoffered" => Standard(m) /\ Offers(m) = {}

(***************************************************************************)
(* skus_cache: a catalog once read serves all VMs that follow, so none of  *)
(* them falls back for a failing request, and all are priced by the same   *)
(* catalog.                                                                *)
(***************************************************************************)
ListedOnce ==
  \A j, k \in 1 .. Len(rows) :
    j < k /\ rows[j].why \in {"live", "unoffered"} => rows[k].why # "http"

(***************************************************************************)
(* What the command totals is what validate estimates, but for the rows    *)
(* with a live rate: the two may only disagree about the budget where      *)
(* list prices moved, whatever failed on the way.                          *)
(***************************************************************************)
AgreesWithValidate ==
  LET moved(k) == IF rows[k].from = "live" THEN rows[k].rate - StaticRate("vm", Vms[k]) ELSE 0
  IN pc = "done" =>
       total - Estimated = Hours * SumTo([k \in 1 .. Len(Vms) |-> moved(k)], Len(Vms))

\* The command ends, if the service repeats a page only finitely often.
CheckEnds == <>(pc \in {"done", "refused", "crashed"})

(***************************************************************************)
(* Why it ends: every step uses up a fault, prints a line, or goes on to   *)
(* a later phase or page of the same line, and there are finitely many of  *)
(* each.  Only a page token that repeats takes the listing back.           *)
(***************************************************************************)
Phase ==
  CASE pc = "start" -> 5
    [] pc = "token" -> 4
    [] pc = "price" /\ cache = <<>> -> 3
    [] pc = "list" -> 2
    [] pc = "price" /\ cache # <<>> -> 1
    [] OTHER -> 0

Nearer ==
  \/ faults' > faults
  \/ faults' = faults /\ Len(rows') > Len(rows)
  \/ faults' = faults /\ rows' = rows /\ Phase' < Phase
  \/ faults' = faults /\ rows' = rows /\ Phase' = Phase /\ page' > page

EachStepIsNearer == [][Nearer]_vars
===============================================================================
