------------------------------ MODULE MCLiveCost ------------------------------
\* LiveCost on small instances, for TLC.
EXTENDS LiveCost

E2(n) == <<"e2", "standard", n>>
N1(n) == <<"n1", "standard", n>>
Medium == <<"e2", "medium">>

Sku(family, component, region, price) ==
  [family |-> family, component |-> component, usage |-> "OnDemand",
   special |-> FALSE, regions |-> {region}, price |-> price]

\* What each SKU of the region has beside it: other regions, spot and custom.
Decoys == {Sku("e2", "Core", "us", 9), [Sku("e2", "Core", "in", 8) EXCEPT !.special = TRUE],
           [Sku("e2", "Ram", "in", 7) EXCEPT !.usage = "Preemptible"]}

Core == Sku("e2", "Core", "in", 3)
Ram == Sku("e2", "Ram", "in", 1)
N1Core == Sku("n1", "Core", "in", 2)
N1Ram == Sku("n1", "Ram", "in", 1)

Catalogs == {<<{Core, Ram, N1Core, N1Ram} \cup Decoys>>,
             <<{Core, N1Core} \cup Decoys, {Ram, N1Ram}>>,
             <<Decoys, {Ram, N1Core}, {Core}>>, <<Decoys, {}>>}

VmLists == UNION {[1 .. n -> {E2(2), N1(1), E2(-1), Medium, Null}] : n \in 0 .. 2}
             \cup [1 .. 3 -> {E2(2), N1(1), Medium}]

Deployments ==
  {[region |-> "in", enabled |-> on, pages |-> c,
    instances |-> [vm |-> vms, cloudsql |-> <<<<"db">>, <<"other">>>>],
    rates |-> [vm |-> [m \in {E2(2), Medium} |-> IF m = Medium THEN 5 ELSE 6],
               cloudsql |-> [m \in {<<"db">>} |-> 4]]] :
     on \in {{"vm", "cloudsql"}, {"vm"}, {"cloudsql"}}, c \in Catalogs, vms \in VmLists}
===============================================================================
