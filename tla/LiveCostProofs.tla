---------------------------- MODULE LiveCostProofs ----------------------------
(***************************************************************************)
(* Proofs about LiveCost, for all deployments, catalogs and faults.        *)
(*                                                                         *)
(* The rows are right because the cache, once filled, is the catalog:      *)
(* ListingInv says of a listing in progress that it has every page before  *)
(* the next one, however often the service led it back.  CountedInv says   *)
(* of the total that it is the sum of the lines printed, and where each of *)
(* them comes from.                                                        *)
(***************************************************************************)
EXTENDS LiveCost, WellFoundedInduction, TLAPS

\* What a listing has read, and what the cache holds.
ListingInv ==
  /\ found \subseteq Catalog
  /\ pc = "list" => /\ \A p \in 1 .. page - 1 : given.pages[p] \subseteq found
                    /\ cache = <<>>
                    /\ Len(rows) < Len(Vms) /\ Standard(Vms[Turn])
  /\ cache # <<>> => cache = <<Catalog>>

\* A row that needed the catalog found it.
CachedInv ==
  \A k \in 1 .. Len(rows) : rows[k].why \in {"live", "unoffered"} => cache # <<>>

IInv == TypeOK /\ ListingInv /\ CachedInv

\* What validate counts for the k-th line, the VMs coming first.
StaticOf(k) ==
  IF k <= Len(Vms) THEN StaticRate("vm", Vms[k])
                   ELSE StaticRate("cloudsql", Sqls[k - Len(Vms)])

Rates == [k \in 1 .. Len(rows) |-> rows[k].rate]

\* The total is what was printed, and what is not live is the static table's.
CountedInv ==
  /\ total = Hours * SumTo(Rates, Len(rows))
  /\ \A k \in 1 .. Len(rows) :
       IF rows[k].from = "live" THEN k <= Len(Vms) ELSE rows[k].rate = StaticOf(k)
  /\ pc = "done" => Len(rows) = Len(Vms) + Len(Sqls)

Froms == {"live", "static", "none"}
Whys == {"live", "shape", "http", "unoffered", "sql"}
-------------------------------------------------------------------------------
LEMMA CatalogType == ASSUME given \in Inputs PROVE Catalog \subseteq SkuType
BY InputAssumption DEF Catalog

LEMMA LengthsAreNat ==
  ASSUME given \in Inputs PROVE Len(Vms) \in Nat /\ Len(Sqls) \in Nat
BY InputAssumption DEF Vms, Sqls, Instances

LEMMA FaultType == ASSUME TypeOK, Fault PROVE faults' \in 0 .. MaxFaults
<1>1. faults \in 0 .. MaxFaults
  BY DEF TypeOK
<1>2. QED BY <1>1, FaultAssumption DEF Fault

LEMMA TypeFacts ==
  ASSUME TypeOK
  PROVE  /\ given \in Inputs
         /\ page \in 1 .. Len(given.pages) /\ Len(given.pages) \in Nat \ {0}
         /\ found \subseteq SkuType
         /\ cache \in Seq(SUBSET SkuType) /\ Len(cache) <= 1
         /\ faults \in 0 .. MaxFaults
<1>1. /\ given \in Inputs /\ page \in 1 .. Len(given.pages) /\ found \subseteq SkuType
      /\ cache \in Seq(SUBSET SkuType) /\ Len(cache) <= 1
      /\ faults \in 0 .. MaxFaults
  BY DEF TypeOK
<1>2. given.pages \in Seq(SUBSET SkuType) /\ given.pages # <<>>
  BY <1>1, InputAssumption
<1>3. Len(given.pages) \in Nat \ {0}
  BY <1>2
<1>4. QED BY <1>1, <1>3

Rows == Seq([from: Froms, why: Whys, rate: Nat])

LEMMA RowsType ==
  ASSUME TypeOK
  PROVE  /\ rows \in Rows /\ Len(rows) \in Nat /\ total \in Nat
         /\ Len(Vms) \in Nat /\ Len(Sqls) \in Nat
<1>1. rows \in Rows
  BY DEF TypeOK, Rows, Froms, Whys
<1>2. total \in Nat /\ given \in Inputs
  BY DEF TypeOK
<1>3. QED BY <1>1, <1>2, LengthsAreNat DEF Rows

\* A standard shape has a number of vCPUs, so its rate is a number.
LEMMA HourlyType ==
  ASSUME given \in Inputs, NEW k \in 1 .. Len(Vms), Standard(Vms[k]),
         NEW core \in SkuType, NEW ram \in SkuType
  PROVE  Hourly(Vms[k], core, ram) \in Nat
<1> DEFINE m == Vms[k]
<1>1. m[3] \in Nat /\ m[1] \in Families
  <2>1. Vms = given.instances["vm"]
    BY DEF Vms, Instances
  <2>2. m[3] \in Int
    BY <2>1, InputAssumption DEF Standard
  <2>3. QED BY <2>2 DEF Standard
<1>2. RamQuarters[m[1]] \in Nat /\ core.price \in Nat /\ ram.price \in Nat
  BY <1>1 DEF RamQuarters, SkuType
<1> HIDE DEF m
<1>3. \A a, b, c, d \in Nat : a * (4 * b + c * d) \in Nat
  OBVIOUS
<1>4. m[3] * (4 * core.price + RamQuarters[m[1]] * ram.price) \in Nat
  BY <1>1, <1>2, <1>3
<1>5. QED BY <1>4 DEF Hourly, m

\* A line is the last one, and leaves the others as they were.
LEMMA LineAppends ==
  ASSUME TypeOK, Len(rows) < Len(Vms) + Len(Sqls),
         NEW from \in Froms, NEW why \in Whys, NEW rate \in Nat, Line(from, why, rate)
  PROVE  /\ rows' \in Rows
         /\ total' \in Nat
         /\ Len(rows') = Len(rows) + 1
         /\ \A k \in 1 .. Len(rows) : rows'[k] = rows[k]
         /\ rows'[Turn].from = from /\ rows'[Turn].why = why /\ rows'[Turn].rate = rate
<1> DEFINE row == [from |-> from, why |-> why, rate |-> rate]
<1>1. row \in [from: Froms, why: Whys, rate: Nat]
  OBVIOUS
<1>2. rows' = Append(rows, row) /\ total' = total + rate * 730
  BY DEF Line, Hours
<1> HIDE DEF row
<1>3. total' \in Nat
  BY <1>2, RowsType
<1>4. rows'[Turn] = row
  BY <1>1, <1>2, RowsType DEF Rows, Turn
<1>5. /\ rows' \in Rows /\ Len(rows') = Len(rows) + 1
      /\ \A k \in 1 .. Len(rows) : rows'[k] = rows[k]
  BY <1>1, <1>2, RowsType DEF Rows
<1>6. QED BY <1>3, <1>4, <1>5 DEF row

LEMMA StaticAppends ==
  ASSUME TypeOK, Len(rows) < Len(Vms) + Len(Sqls),
         NEW t \in {"vm", "cloudsql"}, NEW kind, NEW why \in Whys, Static(t, kind, why)
  PROVE  /\ rows' \in Rows
         /\ total' \in Nat
         /\ Len(rows') = Len(rows) + 1
         /\ \A k \in 1 .. Len(rows) : rows'[k] = rows[k]
         /\ rows'[Turn].from \in {"static", "none"} /\ rows'[Turn].why = why
<1> DEFINE rate == given.rates[t][kind]
<1>1. CASE kind \in DOMAIN given.rates[t]
  <2>1. rate \in Nat
    BY <1>1, InputAssumption DEF TypeOK
  <2>2. Line("static", why, rate)
    BY <1>1 DEF Static
  <2> HIDE DEF rate
  <2>3. "static" \in Froms
    BY DEF Froms
  <2>4. QED BY <2>1, <2>2, <2>3, LineAppends
<1>2. CASE kind \notin DOMAIN given.rates[t]
  <2>1. Line("none", why, 0)
    BY <1>2 DEF Static
  <2>2. "none" \in Froms
    BY DEF Froms
  <2>3. QED BY <2>1, <2>2, LineAppends
<1>3. QED BY <1>1, <1>2

LEMMA CostInit == Init => IInv
<1>1. ASSUME Init PROVE TypeOK
  <2>1. given \in Inputs /\ 1 \in 1 .. Len(given.pages)
    BY <1>1, InputAssumption DEF Init
  <2>2. Len(rows) <= Len(Vms) + Len(Sqls)
    BY <1>1, <2>1, LengthsAreNat DEF Init
  <2>3. rows \in Rows /\ cache \in Seq(SUBSET SkuType) /\ Len(cache) <= 1
    BY <1>1 DEF Init, Rows
  <2>4. QED BY <1>1, <2>1, <2>2, <2>3, FaultAssumption DEF Init, TypeOK, Rows, Froms, Whys
<1>2. Init => ListingInv /\ CachedInv
  BY DEF Init, ListingInv, CachedInv
<1>3. QED BY <1>1, <1>2 DEF IInv

LEMMA AtFacts ==
  ASSUME TypeOK, NEW m, At(m)
  PROVE  /\ pc = "price" /\ Turn \in 1 .. Len(Vms) /\ m = Vms[Turn]
         /\ Len(rows) < Len(Vms) + Len(Sqls)
BY RowsType DEF At, Turn

\* The two outcomes of a VM whose catalog is at hand.
LEMMA PriceAppends ==
  ASSUME IInv, NEW m, Price(m)
  PROVE  /\ Standard(m) /\ cache = <<Catalog>>
         /\ rows' \in Rows
         /\ total' \in Nat
         /\ Len(rows') = Len(rows) + 1
         /\ \A j \in 1 .. Len(rows) : rows'[j] = rows[j]
         /\ \/ /\ rows'[Turn].from = "live" /\ rows'[Turn].why = "live"
               /\ rows'[Turn].rate \in Offers(m)
            \/ /\ rows'[Turn].from # "live" /\ rows'[Turn].why = "unoffered"
               /\ Offers(m) = {}
<1> USE DEF IInv
<1> DEFINE cores == Matches(cache[1], m[1], "Core")
           rams  == Matches(cache[1], m[1], "Ram")
<1>1. At(m) /\ Standard(m) /\ cache = <<Catalog>>
  BY DEF Price, ListingInv
<1>2. /\ Turn \in 1 .. Len(Vms) /\ m = Vms[Turn]
      /\ Len(rows) < Len(Vms) + Len(Sqls) /\ given \in Inputs
  BY <1>1, AtFacts DEF TypeOK
<1>3. cores \subseteq SkuType /\ rams \subseteq SkuType
  BY <1>1, <1>2, CatalogType DEF Matches
<1>4. Offers(m) = {Hourly(m, core, ram) : core \in cores, ram \in rams}
  BY <1>1 DEF Offers, Matches
<1>5. ASSUME NEW core \in cores, NEW ram \in rams, Line("live", "live", Hourly(m, core, ram))
      PROVE  /\ rows' \in Rows
             /\ total' \in Nat
             /\ Len(rows') = Len(rows) + 1
             /\ \A j \in 1 .. Len(rows) : rows'[j] = rows[j]
             /\ rows'[Turn].from = "live" /\ rows'[Turn].why = "live"
             /\ rows'[Turn].rate \in Offers(m)
  <2> DEFINE rate == Hourly(m, core, ram)
  <2>1. rate \in Nat
    BY <1>1, <1>2, <1>3, HourlyType
  <2>2. rate \in Offers(m)
    BY <1>4
  <2>3. Line("live", "live", rate)
    BY <1>5
  <2> HIDE DEF rate
  <2>4. "live" \in Froms /\ "live" \in Whys
    BY DEF Froms, Whys
  <2>5. QED BY <1>2, <2>1, <2>2, <2>3, <2>4, LineAppends
<1>6. CASE (cores = {} \/ rams = {}) /\ Static("vm", m, "unoffered")
  <2>1. Offers(m) = {}
    <3>1. cores = {} \/ rams = {}
      BY <1>6
    <3> HIDE DEF cores, rams
    <3>2. QED BY <1>4, <3>1
  <2>2. "unoffered" \in Whys
    BY DEF Whys
  <2>3. QED BY <1>1, <1>2, <1>6, <2>1, <2>2, StaticAppends
<1>7. \/ \E core \in cores, ram \in rams : Line("live", "live", Hourly(m, core, ram))
      \/ (cores = {} \/ rams = {}) /\ Static("vm", m, "unoffered")
  BY DEF Price
<1> HIDE DEF cores, rams
<1>8. CASE \E core \in cores, ram \in rams : Line("live", "live", Hourly(m, core, ram))
  <2>1. PICK core \in cores, ram \in rams : Line("live", "live", Hourly(m, core, ram))
    BY <1>8
  <2>2. QED BY <1>1, <1>5, <2>1
<1>9. QED BY <1>6, <1>7, <1>8
-------------------------------------------------------------------------------
\* A step that prints adds a line to rows that keep their type.
LEMMA PrintedType ==
  ASSUME TypeOK, rows' \in Rows, total' \in Nat, Len(rows') = Len(rows) + 1,
         Len(rows) < Len(Vms) + Len(Sqls), faults' \in 0 .. MaxFaults,
         pc' \in {"price", "list"}, UNCHANGED <<given, page, found, cache>>
  PROVE  TypeOK'
<1>1. Vms' = Vms /\ Sqls' = Sqls
  BY DEF Vms, Sqls, Instances
<1>2. Len(rows') <= Len(Vms) + Len(Sqls)
  BY RowsType
<1>3. rows' \in Seq([from: Froms, why: Whys, rate: Nat])
  BY DEF Rows
<1>4. QED BY <1>1, <1>2, <1>3 DEF TypeOK, Froms, Whys

LEMMA LastOrBefore == \A n \in Nat : \A j \in 1 .. n + 1 : j \in 1 .. n \/ j = n + 1
OBVIOUS

LEMMA EarlierIsBefore ==
  \A n \in Nat : \A j, k \in 1 .. n + 1 : j < k => j \in 1 .. n
OBVIOUS

\* A line that did not need the catalog.
LEMMA PrintedCached ==
  ASSUME TypeOK, CachedInv, Len(rows') = Len(rows) + 1,
         \A k \in 1 .. Len(rows) : rows'[k] = rows[k],
         rows'[Turn].why \notin {"live", "unoffered"}, UNCHANGED cache
  PROVE  CachedInv'
<1>1. ASSUME NEW k \in 1 .. Len(rows'), rows'[k].why \in {"live", "unoffered"}
      PROVE  cache' # <<>>
  <2>1. k \in 1 .. Len(rows) + 1 /\ Len(rows) \in Nat
    BY RowsType
  <2>2. k \in 1 .. Len(rows) \/ k = Turn
    BY <2>1, LastOrBefore DEF Turn
  <2>3. QED BY <1>1, <2>2 DEF CachedInv
<1>2. QED BY <1>1 DEF CachedInv

\* The rows of a step that prints nothing keep what they mean.
LEMMA QuietType ==
  ASSUME TypeOK, pc' \in {"token", "price", "list", "done", "refused", "crashed"},
         page' \in 1 .. Len(given.pages), found' \subseteq SkuType,
         cache' \in Seq(SUBSET SkuType), Len(cache') <= 1,
         faults' \in 0 .. MaxFaults, UNCHANGED <<given, rows, total>>
  PROVE  TypeOK'
BY DEF TypeOK, Vms, Sqls, Instances

\* What one more page makes of a listing.
LEMMA PageRead ==
  ASSUME TypeOK, ListingInv, pc = "list", found' = found \cup given.pages[page]
  PROVE  /\ found' \subseteq Catalog /\ found' \subseteq SkuType
         /\ \A p \in 1 .. page : given.pages[p] \subseteq found'
         /\ page = Len(given.pages) => found' = Catalog
<1>1. page \in 1 .. Len(given.pages) /\ given \in Inputs /\ Len(given.pages) \in Nat
  BY TypeFacts
<1>2. found' \subseteq Catalog
  BY <1>1 DEF ListingInv, Catalog
<1>3. \A p \in 1 .. page : given.pages[p] \subseteq found'
  <2> TAKE p \in 1 .. page
  <2>1. CASE p = page
    BY <2>1
  <2>2. CASE p \in 1 .. page - 1
    BY <2>2 DEF ListingInv
  <2>3. QED BY <1>1, <2>1, <2>2
<1>4. page = Len(given.pages) => found' = Catalog
  BY <1>2, <1>3 DEF Catalog
<1>5. QED BY <1>1, <1>2, <1>3, <1>4, CatalogType

LEMMA CostStep == ASSUME IInv, [Next]_vars PROVE IInv'
<1> USE DEF IInv
<1>1. CASE Load \/ Authenticate
  <2>1. TypeOK'
    BY <1>1, QuietType, FaultType, TypeFacts DEF Load, Authenticate, Try
  <2>2. QED BY <1>1, <2>1 DEF Load, Authenticate, Try, ListingInv, CachedInv, Catalog, Vms, Instances, Turn
<1>2. ASSUME NEW m, Unsupported(m) PROVE IInv'
  <2>1. /\ rows' \in Rows /\ total' \in Nat /\ Len(rows') = Len(rows) + 1
        /\ \A k \in 1 .. Len(rows) : rows'[k] = rows[k]
        /\ rows'[Turn].why = "shape" /\ Len(rows) < Len(Vms) + Len(Sqls)
        /\ pc = "price"
    BY <1>2, AtFacts, StaticAppends DEF Unsupported, Whys
  <2>2. TypeOK'
    BY <1>2, <2>1, PrintedType, TypeFacts DEF Unsupported
  <2>3. ListingInv'
    BY <1>2, <2>1 DEF Unsupported, ListingInv, Catalog
  <2>4. CachedInv'
    BY <1>2, <2>1, PrintedCached DEF Unsupported
  <2>5. QED BY <2>2, <2>3, <2>4
<1>3. ASSUME NEW m, NoType(m) PROVE IInv'
  <2>1. TypeOK'
    BY <1>3, QuietType, TypeFacts DEF NoType
  <2>2. QED BY <1>3, <2>1 DEF NoType, ListingInv, CachedInv, Catalog
<1>4. ASSUME NEW m, List(m) PROVE IInv'
  <2>1. /\ Turn \in 1 .. Len(Vms) /\ m = Vms[Turn] /\ 1 \in 1 .. Len(given.pages)
    BY <1>4, AtFacts, TypeFacts DEF List
  <2>2. TypeOK'
    BY <1>4, <2>1, QuietType, TypeFacts DEF List
  <2>3. ListingInv'
    BY <1>4, <2>1, RowsType DEF List, At, ListingInv, Catalog, Vms, Instances, Turn
  <2>4. CachedInv'
    BY <1>4 DEF List, CachedInv
  <2>5. QED BY <2>2, <2>3, <2>4
<1>5. ASSUME NEW m, Price(m) PROVE IInv'
  <2>1. At(m) /\ cache # <<>> /\ Len(rows) < Len(Vms) + Len(Sqls)
    BY <1>5, AtFacts DEF Price
  <2>2. TypeOK'
    BY <1>5, <2>1, PriceAppends, PrintedType, TypeFacts DEF Price, At
  <2>3. ListingInv'
    BY <1>5, <2>1 DEF Price, At, ListingInv, Catalog
  <2>4. CachedInv'
    BY <1>5, <2>1 DEF Price, CachedInv
  <2>5. QED BY <2>2, <2>3, <2>4
<1>6. CASE Fetch
  <2>1. pc = "list" /\ found' = found \cup given.pages[page]
    BY <1>6 DEF Fetch
  <2>2. CASE page = Len(given.pages)
    <3>1. pc' = "price" /\ cache' = <<found'>> /\ UNCHANGED <<given, page, rows, total, faults>>
      BY <1>6, <2>2 DEF Fetch
    <3>2. TypeOK'
      BY <2>1, <3>1, PageRead, QuietType, TypeFacts
    <3>3. QED BY <2>1, <2>2, <3>1, <3>2, PageRead DEF ListingInv, CachedInv, Catalog
  <2>3. CASE page # Len(given.pages)
    <3>1. page' = page + 1 /\ UNCHANGED <<given, pc, cache, rows, total, faults>>
      BY <1>6, <2>3 DEF Fetch
    <3>2. page \in 1 .. Len(given.pages) /\ page' - 1 = page /\ Len(given.pages) \in Nat
      BY <3>1, TypeFacts
    <3>3. page' \in 1 .. Len(given.pages)
      BY <2>3, <3>1, <3>2
    <3>4. TypeOK'
      BY <2>1, <3>1, <3>3, PageRead, QuietType, TypeFacts
    <3>5. ListingInv'
      BY <2>1, <3>1, <3>2, PageRead DEF ListingInv, Catalog, Vms, Instances, Turn
    <3>6. QED BY <3>1, <3>4, <3>5 DEF CachedInv
  <2>4. QED BY <2>2, <2>3
<1>7. CASE Repeat
  <2>1. /\ pc = "list" /\ found' = found \cup given.pages[page] /\ page' \in 1 .. page
        /\ UNCHANGED <<given, pc, cache, rows, total>>
    BY <1>7 DEF Repeat
  <2>2. page \in 1 .. Len(given.pages) /\ Len(given.pages) \in Nat
    BY TypeFacts
  <2>3. page' \in 1 .. Len(given.pages)
    BY <2>1, <2>2
  <2>4. TypeOK'
    BY <1>7, <2>1, <2>3, PageRead, QuietType, FaultType, TypeFacts DEF Repeat
  <2>5. ListingInv'
    <3>1. ASSUME NEW p \in 1 .. page' - 1 PROVE p \in 1 .. page
      <4>1. \A n \in Nat : \A c \in 1 .. n : \A q \in 1 .. c - 1 : q \in 1 .. n
        OBVIOUS
      <4>2. page \in Nat /\ page' \in 1 .. page
        BY <2>1, <2>2
      <4>3. QED BY <4>1, <4>2
    <3>2. Vms' = Vms /\ Turn' = Turn /\ Catalog' = Catalog
      BY <2>1 DEF Vms, Instances, Turn, Catalog
    <3>3. QED BY <2>1, <3>1, <3>2, PageRead DEF ListingInv
  <2>6. QED BY <2>1, <2>4, <2>5 DEF CachedInv
<1>8. CASE HttpError
  <2>1. pc = "list" /\ Len(rows) < Len(Vms) + Len(Sqls) /\ cache = <<>>
    BY <1>8, RowsType DEF HttpError, ListingInv
  <2>2. /\ rows' \in Rows /\ total' \in Nat /\ Len(rows') = Len(rows) + 1
        /\ \A k \in 1 .. Len(rows) : rows'[k] = rows[k]
        /\ rows'[Turn].why = "http"
    BY <1>8, <2>1, StaticAppends DEF HttpError, Whys
  <2>3. TypeOK'
    BY <1>8, <2>1, <2>2, PrintedType, FaultType DEF HttpError
  <2>4. ListingInv'
    BY <1>8 DEF HttpError, ListingInv, Catalog
  <2>5. CachedInv'
    BY <1>8, <2>2, PrintedCached DEF HttpError
  <2>6. QED BY <2>3, <2>4, <2>5
<1>9. CASE Crash
  <2>1. TypeOK'
    BY <1>9, QuietType, FaultType, TypeFacts DEF Crash
  <2>2. QED BY <1>9, <2>1 DEF Crash, ListingInv, CachedInv, Catalog
<1>10. CASE Sql
  <2>1. pc = "price" /\ Len(rows) < Len(Vms) + Len(Sqls)
    BY <1>10 DEF Sql
  <2>2. /\ rows' \in Rows /\ total' \in Nat /\ Len(rows') = Len(rows) + 1
        /\ \A k \in 1 .. Len(rows) : rows'[k] = rows[k]
        /\ rows'[Turn].why = "sql"
    BY <1>10, <2>1, StaticAppends DEF Sql, Whys
  <2>3. TypeOK'
    BY <1>10, <2>1, <2>2, PrintedType, TypeFacts DEF Sql
  <2>4. ListingInv'
    BY <1>10, <2>1 DEF Sql, ListingInv, Catalog
  <2>5. CachedInv'
    BY <1>10, <2>2, PrintedCached DEF Sql
  <2>6. QED BY <2>3, <2>4, <2>5
<1>11. CASE Finish
  <2>1. TypeOK'
    BY <1>11, QuietType, TypeFacts DEF Finish
  <2>2. QED BY <1>11, <2>1 DEF Finish, ListingInv, CachedInv, Catalog
<1>12. CASE UNCHANGED vars
  BY <1>12 DEF vars, TypeOK, ListingInv, CachedInv, Catalog, Vms, Sqls, Instances, Turn
<1>13. QED
  BY <1>1, <1>2, <1>3, <1>4, <1>5, <1>6, <1>7, <1>8, <1>9, <1>10, <1>11, <1>12 DEF Next, Step

\* The invariant the theorems below rest on.
LEMMA CostIsInvariant == Spec => []IInv
BY CostInit, CostStep, PTL DEF Spec

\* What a step can do to the rows: nothing, or one more line.
LEMMA StepRows ==
  ASSUME IInv, [Next]_vars
  PROVE  /\ given' = given
         /\ \/ rows' = rows
            \/ /\ Len(rows') = Len(rows) + 1
               /\ \A k \in 1 .. Len(rows) : rows'[k] = rows[k]
               /\ \/ /\ rows'[Turn].from # "live" /\ rows'[Turn].why \in {"shape", "sql"}
                  \/ rows'[Turn].from # "live" /\ rows'[Turn].why = "http" /\ cache = <<>>
                  \/ /\ Turn \in 1 .. Len(Vms) /\ Standard(Vms[Turn])
                     /\ \/ /\ rows'[Turn].why = "live"
                           /\ rows'[Turn].rate \in Offers(Vms[Turn])
                        \/ /\ rows'[Turn].from # "live" /\ rows'[Turn].why = "unoffered"
                           /\ Offers(Vms[Turn]) = {}
<1> USE DEF IInv
<1>1. ASSUME NEW m, Unsupported(m)
      PROVE  /\ given' = given /\ Len(rows') = Len(rows) + 1
             /\ \A k \in 1 .. Len(rows) : rows'[k] = rows[k]
             /\ rows'[Turn].from # "live" /\ rows'[Turn].why = "shape"
  BY <1>1, AtFacts, StaticAppends DEF Unsupported, Whys
<1>2. CASE Sql
  BY <1>2, StaticAppends DEF Sql, Whys
<1>3. CASE HttpError
  <2>1. Len(rows) < Len(Vms) + Len(Sqls) /\ cache = <<>>
    BY <1>3, RowsType DEF HttpError, ListingInv
  <2>2. QED BY <1>3, <2>1, StaticAppends DEF HttpError, Whys
<1>4. ASSUME NEW m, Price(m)
      PROVE  /\ given' = given /\ Len(rows') = Len(rows) + 1
             /\ \A k \in 1 .. Len(rows) : rows'[k] = rows[k]
             /\ Turn \in 1 .. Len(Vms) /\ Standard(Vms[Turn])
             /\ \/ rows'[Turn].why = "live" /\ rows'[Turn].rate \in Offers(Vms[Turn])
                \/ /\ rows'[Turn].from # "live" /\ rows'[Turn].why = "unoffered"
                   /\ Offers(Vms[Turn]) = {}
  <2>1. Turn \in 1 .. Len(Vms) /\ m = Vms[Turn] /\ given' = given
    BY <1>4, AtFacts DEF Price
  <2>2. QED BY <1>4, <2>1, PriceAppends
<1>5. ASSUME NEW m, NoType(m) \/ List(m) PROVE given' = given /\ rows' = rows
  BY <1>5 DEF NoType, List
<1>6. CASE Load \/ Authenticate \/ Fetch \/ Repeat \/ Crash \/ Finish
  BY <1>6 DEF Load, Authenticate, Try, Fetch, Repeat, Crash, Finish
<1>7. CASE UNCHANGED vars
  BY <1>7 DEF vars
<1>8. QED
  BY <1>1, <1>2, <1>3, <1>4, <1>5, <1>6, <1>7 DEF Next, Step

LEMMA NoRows == Init => 1 .. Len(rows) = {}
<1>1. 1 .. Len(<<>>) = {}
  OBVIOUS
<1>2. QED BY <1>1 DEF Init

LEMMA LiveStep ==
  ASSUME IInv, LiveIfOffered, [Next]_vars
  PROVE  LiveIfOffered'
<1>1. Vms' = Vms /\ (\A m : Offers(m)' = Offers(m))
  <2>1. given' = given
    BY StepRows
  <2>2. QED BY <2>1 DEF Vms, Instances, Offers, Catalog
<1>2. CASE rows' = rows
  BY <1>1, <1>2 DEF LiveIfOffered
<1>3. CASE /\ Len(rows') = Len(rows) + 1
           /\ \A k \in 1 .. Len(rows) : rows'[k] = rows[k]
           /\ \/ rows'[Turn].from # "live" /\ rows'[Turn].why \in {"shape", "sql", "http"}
              \/ /\ Turn \in 1 .. Len(Vms) /\ Standard(Vms[Turn])
                 /\ \/ /\ rows'[Turn].why = "live"
                       /\ rows'[Turn].rate \in Offers(Vms[Turn])
                    \/ /\ rows'[Turn].from # "live" /\ rows'[Turn].why = "unoffered"
                       /\ Offers(Vms[Turn]) = {}
  <2>1. ASSUME NEW k \in 1 .. Len(rows'), k <= Len(Vms)
        PROVE  /\ rows'[k].from = "live" =>
                    Standard(Vms[k]) /\ rows'[k].rate \in Offers(Vms[k])
               /\ rows'[k].why = "unoffered" => Standard(Vms[k]) /\ Offers(Vms[k]) = {}
    <3>1. k \in 1 .. Len(rows) \/ k = Turn
      BY <1>3, RowsType, LastOrBefore DEF Turn, IInv
    <3>2. CASE k \in 1 .. Len(rows)
      BY <1>3, <2>1, <3>2 DEF LiveIfOffered
    <3>3. CASE k = Turn
      BY <1>3, <3>3
    <3>4. QED BY <3>1, <3>2, <3>3
  <2>2. QED BY <1>1, <2>1 DEF LiveIfOffered
<1>4. QED BY <1>2, <1>3, StepRows

LEMMA OnceStep ==
  ASSUME IInv, ListedOnce, [Next]_vars
  PROVE  ListedOnce'
<1>1. CASE rows' = rows
  BY <1>1 DEF ListedOnce
<1>2. CASE /\ Len(rows') = Len(rows) + 1
           /\ \A k \in 1 .. Len(rows) : rows'[k] = rows[k]
           /\ rows'[Turn].why = "http" => cache = <<>>
  <2>1. ASSUME NEW j \in 1 .. Len(rows'), NEW k \in 1 .. Len(rows'), j < k,
               rows'[j].why \in {"live", "unoffered"}
        PROVE  rows'[k].why # "http"
    <3>1. Len(rows) \in Nat /\ (k \in 1 .. Len(rows) \/ k = Turn)
      BY <1>2, RowsType, LastOrBefore DEF Turn, IInv
    <3>2. j \in 1 .. Len(rows)
      BY <1>2, <2>1, <3>1, EarlierIsBefore
    <3>3. CASE k \in 1 .. Len(rows)
      BY <1>2, <2>1, <3>2, <3>3 DEF ListedOnce
    <3>4. CASE k = Turn
      BY <1>2, <2>1, <3>2, <3>4 DEF IInv, CachedInv
    <3>5. QED BY <3>1, <3>3, <3>4
  <2>2. QED BY <2>1 DEF ListedOnce
<1>3. QED BY <1>1, <1>2, StepRows
-------------------------------------------------------------------------------
(***************************************************************************)
(* Sums.  Nothing is known of SumTo until its recursive function exists:   *)
(* that it does, and that two sums of the same numbers are the same, is    *)
(* shown by induction, over a set of numbers rather than a predicate.      *)
(***************************************************************************)
LEMMA Least ==
  ASSUME NEW T, T \subseteq Nat, T # {}
  PROVE  \E m \in T : \A n \in T : m <= n
<1> DEFINE R == OpToRel(<, Nat)
<1>1. IsWellFoundedOn(R, Nat)
  BY NatLessThanWellFounded
<1>2. \A x, y \in Nat : x < y => <<x, y>> \in R
  BY DEF OpToRel
<1> HIDE DEF R
<1>3. PICK x \in T : \A y \in T : <<y, x>> \notin R
  BY <1>1, WFMin
<1>4. \A y \in T : ~(y < x)
  BY <1>2, <1>3
<1>5. \A y \in T : x <= y
  BY <1>4
<1>6. QED BY <1>5

LEMMA Induct ==
  ASSUME NEW S, 0 \in S, \A n \in Nat : n \in S => n + 1 \in S
  PROVE  Nat \subseteq S
<1> DEFINE T == Nat \ S
<1>1. SUFFICES ASSUME T # {} PROVE FALSE
  OBVIOUS
<1>2. PICK m \in T : \A n \in T : m <= n
  <2>1. T \subseteq Nat
    OBVIOUS
  <2> HIDE DEF T
  <2>2. QED BY <1>1, <2>1, Least
<1>3. m # 0 /\ m - 1 \in Nat /\ m - 1 \notin T
  BY <1>2
<1>4. QED BY <1>3

\* s holds the partial sums of f up to n.
Sums(f, n, s) ==
  s \in [0 .. n -> Int] /\ s[0] = 0 /\ \A k \in 1 .. n : s[k] = s[k - 1] + f[k]

Numbers(f, n) == \A k \in 1 .. n : f[k] \in Int

LEMMA SumsExist ==
  ASSUME NEW f, NEW n \in Nat, Numbers(f, n)
  PROVE  \E s : Sums(f, n, s)
<1> DEFINE S == {m \in Nat : m <= n => \E s : Sums(f, m, s)}
<1>1. 0 \in S
  <2>1. Sums(f, 0, [k \in 0 .. 0 |-> 0])
    BY DEF Sums
  <2>2. QED BY <2>1
<1>2. ASSUME NEW m \in Nat, m \in S PROVE m + 1 \in S
  <2>1. SUFFICES ASSUME m + 1 <= n PROVE \E s : Sums(f, m + 1, s)
    OBVIOUS
  <2>2. PICK s : Sums(f, m, s)
    BY <1>2, <2>1
  <2> DEFINE t == [k \in 0 .. m + 1 |-> IF k = m + 1 THEN s[m] + f[m + 1] ELSE s[k]]
  <2>3. f[m + 1] \in Int /\ s[m] \in Int
    BY <2>1, <2>2 DEF Numbers, Sums
  <2>4. t \in [0 .. m + 1 -> Int]
    BY <2>2, <2>3 DEF Sums
  <2>5. t[0] = 0 /\ \A k \in 1 .. m + 1 : t[k] = t[k - 1] + f[k]
    BY <2>2 DEF Sums
  <2>6. QED BY <2>4, <2>5 DEF Sums
<1>3. Nat \subseteq S
  <2> HIDE DEF S
  <2>1. QED BY <1>1, <1>2, Induct
<1>4. n \in S
  BY <1>3
<1>5. QED BY <1>4

LEMMA SumsAgree ==
  ASSUME NEW f, NEW g, NEW n \in Nat, NEW m \in Nat, m <= n, NEW s, NEW t,
         Sums(f, n, s), Sums(g, m, t), \A k \in 1 .. m : f[k] = g[k]
  PROVE  s[m] = t[m]
<1> DEFINE S == {k \in Nat : k <= m => s[k] = t[k]}
<1>1. 0 \in S
  BY DEF Sums
<1>2. ASSUME NEW k \in Nat, k \in S PROVE k + 1 \in S
  <2>1. SUFFICES ASSUME k + 1 <= m PROVE s[k + 1] = t[k + 1]
    OBVIOUS
  <2>2. k + 1 \in 1 .. m /\ k + 1 \in 1 .. n /\ (k + 1) - 1 = k
    BY <2>1
  <2>3. s[k] = t[k]
    BY <1>2, <2>1
  <2>4. s[k + 1] = s[k] + f[k + 1] /\ t[k + 1] = t[k] + g[k + 1]
    BY <2>2 DEF Sums
  <2>5. QED BY <2>2, <2>3, <2>4
<1>3. Nat \subseteq S
  <2> HIDE DEF S
  <2>1. QED BY <1>1, <1>2, Induct
<1>4. m \in S
  BY <1>3
<1>5. QED BY <1>4

\* The recursive function of SumTo is the one of partial sums.
LEMMA SumIsSums ==
  ASSUME NEW f, NEW n \in Nat, NEW s, Sums(f, n, s)
  PROVE  SumTo(f, n) = s[n]
<1> DEFINE body(r) == [k \in 0 .. n |-> IF k = 0 THEN 0 ELSE r[k - 1] + f[k]]
           c == CHOOSE r : r = body(r)
<1>1. s = body(s)
  BY DEF Sums
<1>2. c = body(c)
  BY <1>1
<1>3. SumTo(f, n) = c[n]
  BY DEF SumTo
<1> HIDE DEF c
<1> DEFINE S == {k \in Nat : k <= n => c[k] = s[k]}
<1>4. 0 \in S
  <2>1. c[0] = 0
    BY <1>2
  <2>2. QED BY <2>1 DEF Sums
<1>5. ASSUME NEW k \in Nat, k \in S PROVE k + 1 \in S
  <2>1. SUFFICES ASSUME k + 1 <= n PROVE c[k + 1] = s[k + 1]
    OBVIOUS
  <2>2. k + 1 \in 1 .. n /\ (k + 1) - 1 = k
    BY <2>1
  <2>3. c[k + 1] = c[k] + f[k + 1]
    BY <1>2, <2>2
  <2>4. QED BY <1>5, <2>1, <2>2, <2>3 DEF Sums
<1>6. Nat \subseteq S
  <2> HIDE DEF S
  <2>1. QED BY <1>4, <1>5, Induct
<1>7. n \in S
  BY <1>6
<1>8. QED BY <1>3, <1>7

LEMMA SumOfNone == ASSUME NEW f PROVE SumTo(f, 0) = 0
<1>1. Numbers(f, 0)
  BY DEF Numbers
<1>2. PICK s : Sums(f, 0, s)
  BY <1>1, SumsExist
<1>3. SumTo(f, 0) = s[0]
  BY <1>2, SumIsSums
<1>4. QED BY <1>2, <1>3 DEF Sums

LEMMA SumIsInt ==
  ASSUME NEW f, NEW n \in Nat, Numbers(f, n)
  PROVE  SumTo(f, n) \in Int
<1>1. PICK s : Sums(f, n, s)
  BY SumsExist
<1>2. SumTo(f, n) = s[n]
  BY <1>1, SumIsSums
<1>3. n \in 0 .. n
  OBVIOUS
<1>4. QED BY <1>1, <1>2, <1>3 DEF Sums

\* A sum goes on by what comes next.
LEMMA SumGoesOn ==
  ASSUME NEW f, NEW g, NEW n \in Nat, Numbers(g, n + 1), \A k \in 1 .. n : f[k] = g[k]
  PROVE  SumTo(f, n) \in Int /\ SumTo(g, n + 1) = SumTo(f, n) + g[n + 1]
<1>1. Numbers(f, n)
  BY DEF Numbers
<1>2. PICK s : Sums(f, n, s)
  BY <1>1, SumsExist
<1>3. PICK t : Sums(g, n + 1, t)
  BY SumsExist
<1>4. t[n] = s[n]
  BY <1>2, <1>3, SumsAgree
<1>5. t[n + 1] = t[n] + g[n + 1]
  BY <1>3 DEF Sums
<1>6. SumTo(f, n) = s[n] /\ SumTo(g, n + 1) = t[n + 1]
  BY <1>2, <1>3, SumIsSums
<1>7. SumTo(f, n) \in Int
  BY <1>1, SumIsInt
<1>8. QED BY <1>4, <1>5, <1>6, <1>7

\* Term by term, d is what f has above g.
LEMMA SumOfDifferences ==
  ASSUME NEW f, NEW g, NEW d, NEW n \in Nat, Numbers(f, n), Numbers(g, n), Numbers(d, n),
         \A k \in 1 .. n : 730 * f[k] = g[k] + 730 * d[k]
  PROVE  730 * SumTo(f, n) = SumTo(g, n) + 730 * SumTo(d, n)
<1> DEFINE S == {m \in Nat : m <= n => 730 * SumTo(f, m) = SumTo(g, m) + 730 * SumTo(d, m)}
<1>1. 0 \in S
  BY SumOfNone
<1>2. ASSUME NEW m \in Nat, m \in S PROVE m + 1 \in S
  <2>1. SUFFICES ASSUME m + 1 <= n
                 PROVE  730 * SumTo(f, m + 1) = SumTo(g, m + 1) + 730 * SumTo(d, m + 1)
    OBVIOUS
  <2>2. Numbers(f, m + 1) /\ Numbers(g, m + 1) /\ Numbers(d, m + 1)
    BY <2>1 DEF Numbers
  <2>3. /\ SumTo(f, m) \in Int /\ SumTo(f, m + 1) = SumTo(f, m) + f[m + 1]
        /\ SumTo(g, m) \in Int /\ SumTo(g, m + 1) = SumTo(g, m) + g[m + 1]
        /\ SumTo(d, m) \in Int /\ SumTo(d, m + 1) = SumTo(d, m) + d[m + 1]
    BY <2>2, SumGoesOn
  <2>4. m + 1 \in 1 .. n /\ f[m + 1] \in Int /\ g[m + 1] \in Int /\ d[m + 1] \in Int
    BY <2>1, <2>2 DEF Numbers
  <2>5. 730 * SumTo(f, m) = SumTo(g, m) + 730 * SumTo(d, m)
    BY <1>2, <2>1
  <2>6. QED BY <2>3, <2>4, <2>5
<1>3. Nat \subseteq S
  <2> HIDE DEF S
  <2>1. QED BY <1>1, <1>2, Induct
<1>4. n \in S
  BY <1>3
<1>5. QED BY <1>4

\* The first m terms of f, and the n terms of g that follow them.
LEMMA SumOfTwo ==
  ASSUME NEW f, NEW g, NEW m \in Nat, NEW n \in Nat, Numbers(f, m + n), Numbers(g, n),
         \A k \in 1 .. n : 730 * f[m + k] = g[k]
  PROVE  730 * SumTo(f, m + n) = 730 * SumTo(f, m) + SumTo(g, n)
<1> DEFINE S == {j \in Nat : j <= n => 730 * SumTo(f, m + j) = 730 * SumTo(f, m) + SumTo(g, j)}
<1>1. 0 \in S
  <2>1. Numbers(f, m)
    BY DEF Numbers
  <2>2. SumTo(f, m) \in Int
    BY <2>1, SumIsInt
  <2>3. QED BY <2>2, SumOfNone
<1>2. ASSUME NEW j \in Nat, j \in S PROVE j + 1 \in S
  <2>1. SUFFICES ASSUME j + 1 <= n
                 PROVE  730 * SumTo(f, m + (j + 1)) = 730 * SumTo(f, m) + SumTo(g, j + 1)
    OBVIOUS
  <2>2. Numbers(f, (m + j) + 1) /\ Numbers(g, j + 1) /\ m + j \in Nat
        /\ m + (j + 1) = (m + j) + 1
    BY <2>1 DEF Numbers
  <2>3. /\ SumTo(f, m + j) \in Int /\ SumTo(f, (m + j) + 1) = SumTo(f, m + j) + f[(m + j) + 1]
        /\ SumTo(g, j) \in Int /\ SumTo(g, j + 1) = SumTo(g, j) + g[j + 1]
    BY <2>2, SumGoesOn
  <2>4. f[(m + j) + 1] \in Int /\ g[j + 1] \in Int /\ 730 * f[(m + j) + 1] = g[j + 1]
    BY <2>1, <2>2 DEF Numbers
  <2>5. Numbers(f, m)
    BY DEF Numbers
  <2>6. SumTo(f, m) \in Int
    BY <2>5, SumIsInt
  <2>7. 730 * SumTo(f, m + j) = 730 * SumTo(f, m) + SumTo(g, j)
    BY <1>2, <2>1
  <2>8. QED BY <2>2, <2>3, <2>4, <2>6, <2>7
<1>3. Nat \subseteq S
  <2> HIDE DEF S
  <2>1. QED BY <1>1, <1>2, Induct
<1>4. n \in S
  BY <1>3
<1>5. QED BY <1>4

LEMMA StaticPays ==
  ASSUME TypeOK, Len(rows) < Len(Vms) + Len(Sqls),
         NEW t \in {"vm", "cloudsql"}, NEW kind, NEW why \in Whys, Static(t, kind, why)
  PROVE  /\ rows'[Turn].from # "live" /\ rows'[Turn].rate = StaticRate(t, kind)
         /\ total' = total + rows'[Turn].rate * Hours
<1>1. CASE kind \in DOMAIN given.rates[t]
  <2> DEFINE rate == given.rates[t][kind]
  <2>1. rate \in Nat /\ rate = StaticRate(t, kind)
    BY <1>1, InputAssumption DEF TypeOK, StaticRate
  <2>2. Line("static", why, rate)
    BY <1>1 DEF Static
  <2> HIDE DEF rate
  <2>3. "static" \in Froms
    BY DEF Froms
  <2>4. rows'[Turn].from = "static" /\ rows'[Turn].rate = rate
    BY <2>1, <2>2, <2>3, LineAppends
  <2>5. QED BY <2>1, <2>2, <2>4 DEF Line
<1>2. CASE kind \notin DOMAIN given.rates[t]
  <2>1. Line("none", why, 0) /\ StaticRate(t, kind) = 0
    BY <1>2 DEF Static, StaticRate
  <2>2. "none" \in Froms
    BY DEF Froms
  <2>3. rows'[Turn].from = "none" /\ rows'[Turn].rate = 0
    BY <2>1, <2>2, LineAppends
  <2>4. QED BY <2>1, <2>3 DEF Line
<1>3. QED BY <1>1, <1>2

\* The same of a VM whose catalog is at hand.
LEMMA PricePays ==
  ASSUME IInv, NEW m, Price(m)
  PROVE  /\ rows'[Turn].from # "live" => rows'[Turn].rate = StaticRate("vm", m)
         /\ total' = total + rows'[Turn].rate * Hours
<1> USE DEF IInv
<1> DEFINE cores == Matches(cache[1], m[1], "Core")
           rams  == Matches(cache[1], m[1], "Ram")
<1>1. At(m) /\ Standard(m) /\ cache = <<Catalog>>
  BY DEF Price, ListingInv
<1>2. /\ Turn \in 1 .. Len(Vms) /\ m = Vms[Turn]
      /\ Len(rows) < Len(Vms) + Len(Sqls) /\ given \in Inputs
  BY <1>1, AtFacts DEF TypeOK
<1>3. cores \subseteq SkuType /\ rams \subseteq SkuType
  BY <1>1, <1>2, CatalogType DEF Matches
<1>4. ASSUME NEW core \in cores, NEW ram \in rams, Line("live", "live", Hourly(m, core, ram))
      PROVE  rows'[Turn].from = "live" /\ total' = total + rows'[Turn].rate * Hours
  <2> DEFINE rate == Hourly(m, core, ram)
  <2>1. rate \in Nat
    BY <1>1, <1>2, <1>3, HourlyType
  <2>2. Line("live", "live", rate)
    BY <1>4
  <2> HIDE DEF rate
  <2>3. "live" \in Froms /\ "live" \in Whys
    BY DEF Froms, Whys
  <2>4. rows'[Turn].from = "live" /\ rows'[Turn].rate = rate
    BY <1>2, <2>1, <2>2, <2>3, LineAppends
  <2>5. QED BY <2>2, <2>4 DEF Line
<1>5. ASSUME Static("vm", m, "unoffered")
      PROVE  /\ rows'[Turn].rate = StaticRate("vm", m)
             /\ total' = total + rows'[Turn].rate * Hours
  BY <1>2, <1>5, StaticPays DEF Whys
<1>6. QED BY <1>4, <1>5 DEF Price

\* A step prints nothing and adds nothing, or adds the rate of the line it prints.
LEMMA StepPays ==
  ASSUME IInv, [Next]_vars
  PROVE  \/ rows' = rows /\ total' = total
         \/ /\ Len(rows') = Len(rows) + 1
            /\ pc' # "done"
            /\ total' = total + rows'[Turn].rate * Hours
            /\ IF rows'[Turn].from = "live" THEN Turn <= Len(Vms)
                                            ELSE rows'[Turn].rate = StaticOf(Turn)
<1> USE DEF IInv
<1>1. ASSUME NEW m, Unsupported(m)
      PROVE  /\ Len(rows') = Len(rows) + 1 /\ pc' # "done"
             /\ total' = total + rows'[Turn].rate * Hours
             /\ rows'[Turn].from # "live" /\ rows'[Turn].rate = StaticOf(Turn)
  <2>1. /\ pc = "price" /\ pc' = pc /\ Turn \in 1 .. Len(Vms) /\ m = Vms[Turn]
        /\ Len(rows) < Len(Vms) + Len(Sqls) /\ Static("vm", m, "shape")
    BY <1>1, AtFacts DEF Unsupported
  <2>2. QED BY <2>1, RowsType, StaticAppends, StaticPays DEF Whys, StaticOf
<1>2. ASSUME Sql
      PROVE  /\ Len(rows') = Len(rows) + 1 /\ pc' # "done"
             /\ total' = total + rows'[Turn].rate * Hours
             /\ rows'[Turn].from # "live" /\ rows'[Turn].rate = StaticOf(Turn)
  <2>1. /\ pc = "price" /\ pc' = pc /\ ~(Turn <= Len(Vms))
        /\ Len(rows) < Len(Vms) + Len(Sqls)
        /\ Static("cloudsql", Sqls[Turn - Len(Vms)], "sql")
    BY <1>2, RowsType DEF Sql, Turn
  <2>2. QED BY <2>1, StaticAppends, StaticPays DEF Whys, StaticOf
<1>3. ASSUME HttpError
      PROVE  /\ Len(rows') = Len(rows) + 1 /\ pc' # "done"
             /\ total' = total + rows'[Turn].rate * Hours
             /\ rows'[Turn].from # "live" /\ rows'[Turn].rate = StaticOf(Turn)
  <2>1. /\ pc' = "price" /\ Turn <= Len(Vms)
        /\ Len(rows) < Len(Vms) + Len(Sqls) /\ Static("vm", Vms[Turn], "http")
    BY <1>3, RowsType DEF HttpError, ListingInv, Turn
  <2>2. QED BY <2>1, StaticAppends, StaticPays DEF Whys, StaticOf
<1>4. ASSUME NEW m, Price(m)
      PROVE  /\ Len(rows') = Len(rows) + 1 /\ pc' # "done"
             /\ total' = total + rows'[Turn].rate * Hours
             /\ IF rows'[Turn].from = "live" THEN Turn <= Len(Vms)
                                             ELSE rows'[Turn].rate = StaticOf(Turn)
  <2>1. pc = "price" /\ pc' = pc /\ Turn \in 1 .. Len(Vms) /\ m = Vms[Turn]
    BY <1>4, AtFacts DEF Price
  <2>2. QED BY <1>4, <2>1, PriceAppends, PricePays DEF StaticOf
<1>5. ASSUME NEW m, NoType(m) \/ List(m) PROVE rows' = rows /\ total' = total
  BY <1>5 DEF NoType, List
<1>6. CASE Load \/ Authenticate \/ Fetch \/ Repeat \/ Crash \/ Finish
  BY <1>6 DEF Load, Authenticate, Try, Fetch, Repeat, Crash, Finish
<1>7. CASE UNCHANGED vars
  BY <1>7 DEF vars
<1>8. QED
  BY <1>1, <1>2, <1>3, <1>4, <1>5, <1>6, <1>7 DEF Next, Step

\* The command is done when a line was printed for every instance.
LEMMA DoneComplete ==
  ASSUME IInv, CountedInv, [Next]_vars, pc' = "done"
  PROVE  rows' = rows /\ Len(rows) = Len(Vms) + Len(Sqls)
<1>1. \/ Finish
      \/ UNCHANGED vars
  BY DEF Next, Step, Load, Authenticate, Try, Unsupported, NoType, List, Price, At, Sql,
         Fetch, Repeat, HttpError, Crash
<1>2. QED BY <1>1 DEF Finish, vars, CountedInv

LEMMA RatesAreNumbers ==
  ASSUME NEW r \in Rows
  PROVE  Numbers([k \in 1 .. Len(r) |-> r[k].rate], Len(r))
<1>1. ASSUME NEW k \in 1 .. Len(r) PROVE r[k].rate \in Int
  <2> DEFINE R == [from: Froms, why: Whys, rate: Nat]
  <2>1. r \in Seq(R)
    BY DEF Rows
  <2>2. \A row \in R : row.rate \in Int
    OBVIOUS
  <2> HIDE DEF R
  <2>3. r[k] \in R
    BY <2>1
  <2>4. QED BY <2>2, <2>3
<1>2. QED BY <1>1 DEF Numbers

LEMMA CountedStep ==
  ASSUME IInv, CountedInv, [Next]_vars
  PROVE  CountedInv'
<1> USE DEF IInv
<1>1. Vms' = Vms /\ Sqls' = Sqls /\ (\A k : StaticOf(k)' = StaticOf(k))
  <2>1. given' = given
    BY StepRows
  <2>2. QED BY <2>1 DEF Vms, Sqls, Instances, StaticOf, StaticRate
<1>2. TypeOK'
  BY CostStep
<1>3. pc' = "done" => Len(rows') = Len(Vms') + Len(Sqls')
  BY <1>1, DoneComplete
<1>4. CASE rows' = rows /\ total' = total
  <2>1. SumTo(Rates, Len(rows))' = SumTo(Rates, Len(rows))
    BY <1>4 DEF Rates
  <2>2. QED BY <1>1, <1>3, <1>4, <2>1 DEF CountedInv
<1>5. CASE /\ Len(rows') = Len(rows) + 1
           /\ \A k \in 1 .. Len(rows) : rows'[k] = rows[k]
           /\ total' = total + rows'[Turn].rate * Hours
           /\ IF rows'[Turn].from = "live" THEN Turn <= Len(Vms)
                                           ELSE rows'[Turn].rate = StaticOf(Turn)
  <2> DEFINE f == Rates
             g == Rates'
             n == Len(rows)
  <2>1. n \in Nat /\ Turn = n + 1 /\ Len(rows') = n + 1
    BY <1>5, RowsType DEF Turn
  <2>2. \A k \in 1 .. n : f[k] = g[k]
    BY <1>5, <2>1 DEF Rates
  <2>3. Numbers(g, n + 1) /\ g[n + 1] = rows'[Turn].rate
    <3>1. rows' \in Rows
      BY <1>2 DEF TypeOK, Rows, Froms, Whys
    <3>2. Numbers([k \in 1 .. Len(rows') |-> rows'[k].rate], Len(rows'))
      BY <3>1, RatesAreNumbers
    <3>3. QED BY <2>1, <3>2 DEF Numbers, Rates
  <2> HIDE DEF f, g
  <2>4. SumTo(f, n) \in Int /\ SumTo(g, n + 1) = SumTo(f, n) + g[n + 1]
    BY <2>1, <2>2, <2>3, SumGoesOn
  <2>5. g[n + 1] \in Int
    BY <2>1, <2>3 DEF Numbers
  <2>6. total' = Hours * SumTo(g, n + 1)
    <3>1. total = 730 * SumTo(f, n)
      BY DEF CountedInv, Hours, f
    <3>2. total' = total + g[n + 1] * 730
      BY <1>5, <2>3 DEF Hours
    <3>3. QED BY <2>4, <2>5, <3>1, <3>2 DEF Hours
  <2>7. (total = Hours * SumTo(Rates, Len(rows)))'
    BY <2>1, <2>6 DEF g, Hours
  <2>8. ASSUME NEW k \in 1 .. Len(rows')
        PROVE  IF rows'[k].from = "live" THEN k <= Len(Vms) ELSE rows'[k].rate = StaticOf(k)
    <3>1. k \in 1 .. n \/ k = Turn
      BY <2>1, LastOrBefore
    <3>2. CASE k \in 1 .. n
      BY <1>5, <3>2 DEF CountedInv
    <3>3. QED BY <1>5, <3>1, <3>2
  <2>9. QED BY <1>1, <1>3, <2>7, <2>8 DEF CountedInv
<1>6. QED BY <1>4, <1>5, StepRows, StepPays

LEMMA CostIsCounted == Spec => []CountedInv
<1>1. Init => CountedInv
  <2>1. ASSUME Init PROVE CountedInv
    <3>1. SumTo(Rates, 0) = 0
      BY SumOfNone
    <3>2. Len(rows) = 0 /\ total = 0 /\ pc # "done" /\ 1 .. Len(rows) = {}
      BY <2>1, NoRows DEF Init
    <3>3. QED BY <3>1, <3>2 DEF CountedInv, Hours
  <2>2. QED BY <2>1
<1>2. QED BY <1>1, CostIsInvariant, CountedStep, PTL DEF Spec
-------------------------------------------------------------------------------
(***************************************************************************)
(* Every variable of the command keeps its type.                           *)
(***************************************************************************)
THEOREM TypeCorrect == Spec => []TypeOK
BY CostIsInvariant, PTL DEF IInv

(***************************************************************************)
(* For any catalog, in any pages, and any failures of the service, a live  *)
(* rate is an offer of the whole catalog, and "no such SKU" is only said   *)
(* of a catalog that has none.                                             *)
(***************************************************************************)
THEOREM RatesAreOffers == Spec => []LiveIfOffered
<1>1. Init => LiveIfOffered
  BY NoRows DEF LiveIfOffered
<1>2. QED BY <1>1, CostIsInvariant, LiveStep, PTL DEF Spec

(***************************************************************************)
(* Once a VM was answered from the catalog, no later VM falls back because *)
(* a request failed.                                                       *)
(***************************************************************************)
THEOREM OneCatalog == Spec => []ListedOnce
<1>1. Init => ListedOnce
  BY NoRows DEF ListedOnce
<1>2. QED BY <1>1, CostIsInvariant, OnceStep, PTL DEF Spec

LEMMA StaticIsNat ==
  ASSUME given \in Inputs, NEW t \in {"vm", "cloudsql"}, NEW kind
  PROVE  StaticRate(t, kind) \in Nat
BY InputAssumption DEF StaticRate

LEMMA TotalAgrees ==
  ASSUME IInv, CountedInv
  PROVE  AgreesWithValidate
<1> USE DEF IInv
<1> DEFINE v == Len(Vms)
           q == Len(Sqls)
           moved == [k \in 1 .. v |-> IF rows[k].from = "live"
                                        THEN rows[k].rate - StaticRate("vm", Vms[k]) ELSE 0]
           vmStatic == [k \in 1 .. v |-> StaticRate("vm", Vms[k]) * 730]
           sqlStatic == [k \in 1 .. q |-> StaticRate("cloudsql", Sqls[k]) * 730]
<1>1. SUFFICES ASSUME pc = "done"
               PROVE  total - Estimated = 730 * SumTo(moved, v)
  BY DEF AgreesWithValidate, Hours
<1>2. v \in Nat /\ q \in Nat /\ Len(rows) = v + q /\ rows \in Rows /\ given \in Inputs
  BY <1>1, RowsType DEF CountedInv, TypeOK
<1>3. Estimated = SumTo(vmStatic, v) + SumTo(sqlStatic, q)
  BY DEF Estimated, Monthly, Hours, Vms, Sqls
<1>4. total = 730 * SumTo(Rates, v + q)
  BY <1>2 DEF CountedInv, Hours
<1>5. Numbers(Rates, v + q)
  BY <1>2, RatesAreNumbers DEF Rates
<1>6. Numbers(vmStatic, v) /\ Numbers(sqlStatic, q)
  BY <1>2, StaticIsNat DEF Numbers
<1>7. Numbers(Rates, v)
  BY <1>2, <1>5 DEF Numbers
<1>8. Numbers(moved, v)
  <2>1. ASSUME NEW k \in 1 .. v PROVE moved[k] \in Int
    <3>1. k \in 1 .. Len(rows)
      BY <1>2
    <3>2. Rates[k] \in Int /\ Rates[k] = rows[k].rate
      BY <1>7, <3>1 DEF Numbers, Rates
    <3>3. StaticRate("vm", Vms[k]) \in Int
      BY <1>2, StaticIsNat
    <3>4. QED BY <3>2, <3>3
  <2>2. QED BY <2>1 DEF Numbers
<1>9. \A k \in 1 .. v : 730 * Rates[k] = vmStatic[k] + 730 * moved[k]
  <2>1. TAKE k \in 1 .. v
  <2>2. k \in 1 .. Len(rows) /\ k <= Len(Vms)
    BY <1>2
  <2>3. Rates[k] \in Int /\ Rates[k] = rows[k].rate
    BY <1>7, <2>2 DEF Numbers, Rates
  <2>4. StaticRate("vm", Vms[k]) \in Int
    BY <1>2, StaticIsNat
  <2>5. rows[k].from # "live" => rows[k].rate = StaticRate("vm", Vms[k])
    BY <2>2 DEF CountedInv, StaticOf
  <2>6. QED BY <2>3, <2>4, <2>5
<1>10. \A k \in 1 .. q : 730 * Rates[v + k] = sqlStatic[k]
  <2>1. TAKE k \in 1 .. q
  <2>2. v + k \in 1 .. Len(rows) /\ ~(v + k <= Len(Vms)) /\ (v + k) - Len(Vms) = k
    BY <1>2
  <2>3. Rates[v + k] = StaticRate("cloudsql", Sqls[k])
    BY <2>2 DEF CountedInv, StaticOf, Rates
  <2>4. StaticRate("cloudsql", Sqls[k]) \in Int
    BY <1>2, StaticIsNat
  <2>5. QED BY <2>3, <2>4
<1> HIDE DEF moved, vmStatic, sqlStatic, v, q
<1>11. 730 * SumTo(Rates, v) = SumTo(vmStatic, v) + 730 * SumTo(moved, v)
  BY <1>2, <1>6, <1>7, <1>8, <1>9, SumOfDifferences
<1>12. 730 * SumTo(Rates, v + q) = 730 * SumTo(Rates, v) + SumTo(sqlStatic, q)
  BY <1>2, <1>5, <1>6, <1>10, SumOfTwo
<1>13. /\ SumTo(Rates, v) \in Int /\ SumTo(vmStatic, v) \in Int
       /\ SumTo(moved, v) \in Int /\ SumTo(sqlStatic, q) \in Int
  BY <1>2, <1>6, <1>7, <1>8, SumIsInt
<1>14. QED BY <1>3, <1>4, <1>11, <1>12, <1>13

(***************************************************************************)
(* The live total and the estimate of validate differ by the rows with a   *)
(* live rate and by nothing else, for any number of instances and whatever *)
(* failed on the way.                                                      *)
(***************************************************************************)
THEOREM TotalsAgree == Spec => []AgreesWithValidate
BY CostIsInvariant, CostIsCounted, TotalAgrees, PTL
-------------------------------------------------------------------------------
(***************************************************************************)
(* The command runs out of steps, given that faults do.                    *)
(***************************************************************************)
LEMMA FaultIsNearer == ASSUME TypeOK, Fault PROVE Nearer
<1>1. faults \in Nat
  BY DEF TypeOK
<1>2. QED BY <1>1 DEF Fault, Nearer

LEMMA LineIsNearer ==
  ASSUME TypeOK, Len(rows') = Len(rows) + 1, faults' = faults
  PROVE  Nearer
BY RowsType DEF Nearer

LEMMA PhaseIsNearer ==
  ASSUME IInv, [Next]_vars, rows' = rows, faults' = faults, pc' # pc
  PROVE  Nearer
<1> USE DEF IInv
<1>1. CASE Load \/ Authenticate
  BY <1>1 DEF Load, Authenticate, Try, Fault, Phase, Nearer, TypeOK
<1>2. ASSUME NEW m, List(m) PROVE Nearer
  BY <1>2 DEF List, At, Phase, Nearer
<1>3. ASSUME NEW m, NoType(m) PROVE Nearer
  BY <1>3 DEF NoType, At, Phase, Nearer
<1>4. CASE Fetch
  <2>1. pc' = "price" /\ cache' # <<>> /\ pc = "list"
    BY <1>4 DEF Fetch
  <2>2. QED BY <2>1 DEF Phase, Nearer
<1>5. CASE Finish
  BY <1>5 DEF Finish, Phase, Nearer
<1>6. ASSUME NEW m PROVE Unsupported(m) \/ Price(m) \/ Sql => UNCHANGED pc
  BY DEF Unsupported, Price, Sql
<1>7. CASE Repeat \/ HttpError \/ Crash
  BY <1>7, FaultIsNearer DEF Repeat, HttpError, Crash
<1>8. QED
  BY <1>1, <1>2, <1>3, <1>4, <1>5, <1>6, <1>7 DEF Next, Step, vars

LEMMA StepIsNearer == ASSUME IInv, Next PROVE Nearer
<1> USE DEF IInv
<1>1. CASE rows' # rows /\ faults' = faults
  <2>1. [Next]_vars
    OBVIOUS
  <2>2. Len(rows') = Len(rows) + 1
    BY <1>1, <2>1, StepRows
  <2>3. QED BY <1>1, <2>2, LineIsNearer
<1>2. CASE rows' = rows /\ faults' = faults /\ pc' # pc
  BY <1>2, PhaseIsNearer
<1>3. CASE rows' = rows /\ faults' = faults /\ pc' = pc
  <2>1. ASSUME NEW m, Unsupported(m) \/ Price(m) \/ Sql PROVE FALSE
    BY <1>3, <2>1, AtFacts, StaticAppends, PriceAppends, RowsType DEF Unsupported, Sql, Whys
  <2>2. ASSUME NEW m PROVE ~List(m) /\ ~NoType(m)
    BY <1>3 DEF List, NoType, At
  <2>3. ~Load /\ ~Authenticate /\ ~Finish /\ ~Crash
    BY <1>3 DEF Load, Authenticate, Try, Finish, Crash
  <2>4. CASE Repeat \/ HttpError
    BY <2>4, FaultIsNearer DEF Repeat, HttpError
  <2>5. CASE Fetch
    <3>1. page' = page + 1 /\ UNCHANGED <<pc, cache>>
      BY <1>3, <2>5 DEF Fetch
    <3>2. page \in Int /\ Phase' = Phase
      BY <3>1 DEF Phase, TypeOK
    <3>3. QED BY <1>3, <3>1, <3>2 DEF Nearer
  <2>6. QED BY <2>1, <2>2, <2>3, <2>4, <2>5 DEF Next, Step
<1>4. CASE faults' # faults
  <2>1. ~UNCHANGED faults
    BY <1>4
  <2>2. Fault
    BY <2>1 DEF Next, Step, Load, Authenticate, Try, Unsupported, NoType, List, Price, Fetch,
       Sql, Finish, Repeat, HttpError, Crash
  <2>3. QED BY <2>2, FaultIsNearer
<1>5. QED BY <1>1, <1>2, <1>3, <1>4

(***************************************************************************)
(* For any deployment and catalog, every step but a fault brings the       *)
(* command closer to its end, also when listings fail and are repeated.    *)
(***************************************************************************)
THEOREM StepsRunOut == Spec => EachStepIsNearer
<1>1. IInv /\ [Next]_vars => [Nearer]_vars
  BY StepIsNearer
<1>2. QED BY <1>1, CostIsInvariant, PTL DEF Spec, EachStepIsNearer
===============================================================================
