--------------------------- MODULE DeploymentChecks ---------------------------
(***************************************************************************)
(* What engine/cli.py run_validation makes of a loaded deployment:         *)
(* schema_validator, dependency_engine, security_engine and region_engine, *)
(* one after the other, over whatever the loader has left in the           *)
(* instances.  DeploymentConfig has the loader; nothing is supposed of it  *)
(* here but that it keeps the instances' names.                            *)
(*                                                                         *)
(* YAML is modelled as a tree of texts, nulls, false and dicts; a text is  *)
(* one word in lower case.  Five resource types stand for all: the ones    *)
(* that a Direct VPC service, the longest chain of references in the       *)
(* tables of the code, needs, and the one with a conditional requirement.  *)
(***************************************************************************)
EXTENDS Integers, Sequences

CONSTANTS
  Inputs,     \* deployments, each with the global configuration it meets
  Approved,   \* regions.yaml: approved regions,
  Locations,  \*   the wider locations allowed besides
  ZoneSuffixes, \*   and the suffixes of zones
  Split       \* words that end in "-<suffix>": what comes before it, and it

VARIABLES
  given,      \* the deployment that is loaded
  pc,
  normalized, \* Deployment.normalized["resources"]
  findings

checkVars == <<given, pc, normalized, findings>>

Types == {"vpc", "subnet", "cloudrun", "vm", "service_accounts"}
Rules == {"REQUIRED", "DEPENDENCY_MISSING", "REFERENCED_RESOURCE_TYPE_DISABLED",
          "INVALID_REFERENCE", "CLOUDRUN_VPC_MISMATCH", "NO_DELETION_PROTECTION",
          "REGION_NOT_APPROVED", "ZONE_NOT_APPROVED"}

\* The envelope that validate_schema sees to; a policy is a list.
ASSUME InputAssumption ==
  \A g \in Inputs :
     /\ g.enabled \subseteq Types
     /\ Len(g.policy) \in Nat

Null == [null |-> TRUE]
No == [bool |-> FALSE]
Text(word) == [text |-> word]
Dict(fields) == [dict |-> fields]
IsText(v) == DOMAIN v = {"text"}
IsDict(v) == DOMAIN v = {"dict"}
NoFields == Dict(<<>>)

Empty == {Null, Text("")}
Falsy == Empty \cup {No, NoFields}

Names(t) == DOMAIN given.instances[t]

\* Whatever the policy file has for a severity.
Severities == {"ERROR"} \cup {given.policy[k].severity : k \in 1 .. Len(given.policy)}

TypeOK ==
  /\ given \in Inputs
  /\ pc \in {"load", "types", "references", "security", "regions", "done", "raised"}
  /\ \A t \in Types : DOMAIN normalized[t] = Names(t)
  /\ findings \subseteq [rule: Rules, type: Types \cup {"primary"}, severity: Severities]

CheckInit ==
  /\ given \in Inputs
  /\ pc = "load"
  /\ normalized = given.instances
  /\ findings = {}

\* A loader, as far as the checks rely on it.
Load ==
  /\ pc = "load" /\ pc' \in {"load", "raised"}
  /\ \A t \in Types : DOMAIN normalized'[t] = Names(t)
  /\ UNCHANGED <<given, findings>>
-------------------------------------------------------------------------------
Field(v, part) == IF IsDict(v) /\ part \in DOMAIN v.dict THEN v.dict[part] ELSE Null

\* _get_path: None for what is missing and for what is null.
GetPath(v, path) ==
  LET node[k \in 0 .. Len(path)] == IF k = 0 THEN v ELSE Field(node[k - 1], path[k])
  IN node[Len(path)]

Graded(severity, rule, t) == [rule |-> rule, type |-> t, severity |-> severity]
Found(rule, t) == Graded("ERROR", rule, t)

\* Mutant: a service's vpc_access may be incomplete.
RequiredFixed(t, v) ==
  CASE t = "subnet"   -> {<<"vpc">>, <<"region">>}
    [] t = "cloudrun" -> {<<"location">>}
    [] OTHER          -> {}

\* Mutant: a VM names its service account only if it begins the field.
AccountRequiredIfAsked(v) ==
  IF GetPath(v, <<"service_account">>) = Null THEN {} ELSE {<<"service_account", "name">>}

\* A VM without a service account, or with a foreign one, names none.
AccountRequired(v) ==
  IF \/ GetPath(v, <<"service_account", "enabled">>) = No
     \/ GetPath(v, <<"service_account", "email">>) \notin Empty
    THEN {} ELSE {<<"service_account", "name">>}

\* RESOURCE_RULES, and what a service with vpc_access needs besides.
Required(t, v) ==
  CASE t = "subnet"   -> {<<"vpc">>, <<"region">>}
    [] t = "cloudrun" ->
         {<<"location">>} \cup
         (IF GetPath(v, <<"vpc_access">>) = Null
            THEN {} ELSE {<<"vpc_access", "network">>, <<"vpc_access", "subnet">>})
    [] t = "vm"       -> {<<"zone">>, <<"subnet">>} \cup AccountRequired(v)
    [] OTHER          -> {}

Lacking ==
  {Found("REQUIRED", t) : t \in {t \in given.enabled :
     \E n \in Names(t) : \E p \in Required(t, normalized[t][n]) :
       GetPath(normalized[t][n], p) \in Empty}}

\* config/global/dependencies.yaml
Requires(t) == CASE t = "subnet" -> {"vpc"} [] t = "vm" -> {"subnet"} [] OTHER -> {}

\* INSTANCE_REFERENCES
References(t) ==
  CASE t = "subnet"   -> {[field |-> <<"vpc">>, target |-> "vpc"]}
    [] t = "cloudrun" -> {[field |-> <<"vpc_access", "network">>, target |-> "vpc"],
                          [field |-> <<"vpc_access", "subnet">>, target |-> "subnet"]}
    [] t = "vm"       -> {[field |-> <<"subnet">>, target |-> "subnet"],
                          [field |-> <<"service_account", "name">>, target |-> "service_accounts"]}
    [] OTHER          -> {}

Has(t, v) == IsText(v) /\ v.text \in Names(t)

Values(t, ref) == {GetPath(normalized[t][n], ref.field) : n \in Names(t)} \ Empty

\* _check_reference of every reference of an instance of t.
BadReferences(t) ==
  {Found("REFERENCED_RESOURCE_TYPE_DISABLED", t) :
     ref \in {x \in References(t) : x.target \notin given.enabled /\ Values(t, x) # {}}}
  \cup
  {Found("INVALID_REFERENCE", t) :
     ref \in {x \in References(t) : /\ x.target \in given.enabled
                                    /\ \E v \in Values(t, x) : ~Has(x.target, v)}}

Differ(v, w) == v \notin Falsy /\ w \notin Falsy /\ v # w

Access(service) == GetPath(service, <<"vpc_access">>)

\* The subnet a service names, if there is one of that name.
SubnetOf(service) ==
  LET name == GetPath(Access(service), <<"subnet">>)
  IN IF Has("subnet", name) THEN normalized["subnet"][name.text] ELSE Null

\* "Direct VPC needs a subnet in the selected network and service region."
Mismatched(service) ==
  \/ Differ(GetPath(SubnetOf(service), <<"vpc">>), GetPath(Access(service), <<"network">>))
  \/ Differ(GetPath(SubnetOf(service), <<"region">>), GetPath(service, <<"location">>))

Misconnected ==
  {Found("CLOUDRUN_VPC_MISMATCH", t) :
     t \in {t \in given.enabled \cap {"cloudrun"} :
              \E n \in Names(t) : Mismatched(normalized[t][n])}}

\* Mutant: a rule the policy does not list is a warning.
SeverityIfListed(rule) ==
  LET listed == {k \in 1 .. Len(given.policy) : given.policy[k].id = rule}
  IN IF listed = {} THEN "WARNING"
     ELSE given.policy[CHOOSE k \in listed : \A j \in listed : k <= j].severity

\* security.yaml: the first entry for the rule, or ERROR.
Severity(rule) ==
  LET listed == {k \in 1 .. Len(given.policy) : given.policy[k].id = rule}
  IN IF listed = {} THEN "ERROR"
     ELSE given.policy[CHOOSE k \in listed : \A j \in listed : k <= j].severity

\* What the policy protects must not say otherwise, nor say null.
Unprotected(v) == "deletion_protection" \in DOMAIN v.dict /\ v.dict["deletion_protection"] \in Falsy

Exposed ==
  {Graded(Severity("NO_DELETION_PROTECTION"), "NO_DELETION_PROTECTION", t) :
     t \in {t \in given.protected \cap given.enabled \cap {"cloudrun"} :
              \E n \in Names(t) : Unprotected(normalized[t][n])}}

Zones == {w \in DOMAIN Split : Split[w].region \in Approved /\ Split[w].suffix \in ZoneSuffixes}

RegionsAllowed == Approved \cup Locations \cup Zones

\* Fields that are given, but not by one of these words.
BadPlaces(v, fields, words) ==
  {f \in fields : GetPath(v, <<f>>) \notin Falsy /\ GetPath(v, <<f>>).text \notin words}

\* The findings of validate_regions about instances as resources gives them.
BadRegions(resources) ==
  {Found("REGION_NOT_APPROVED", t) : t \in {t \in given.enabled :
     \E n \in Names(t) : BadPlaces(resources[t][n], {"region", "location"}, RegionsAllowed) # {}}}
  \cup
  {Found("ZONE_NOT_APPROVED", t) : t \in {t \in given.enabled :
     \E n \in Names(t) : BadPlaces(resources[t][n], {"zone"}, Zones) # {}}}
  \cup
  {Found("REGION_NOT_APPROVED", "primary") : r \in {given.region} \ ({""} \cup Approved)}
-------------------------------------------------------------------------------
EnabledInstances(types) ==
  UNION {{normalized[t][n] : n \in Names(t)} : t \in types \cap given.enabled}

\* What a check does without asking: .get of an instance that is no dict, a
\* dict looked up by name, .lower() of a place that is no text.
Readable ==
  CASE pc = "load" -> \A v \in EnabledInstances({"cloudrun"}) : IsDict(v)
    [] pc = "references" ->
         /\ \A t \in given.enabled : \A ref \in References(t) :
              ref.target \in given.enabled => \A v \in Values(t, ref) : ~IsDict(v)
         /\ \A v \in EnabledInstances({"cloudrun"}) :
              /\ ~IsDict(GetPath(Access(v), <<"subnet">>))
              /\ SubnetOf(v) \in Falsy \/ IsDict(SubnetOf(v))
    [] pc = "security" ->
         \A v \in EnabledInstances({"vm", "cloudrun", "service_accounts"}) : IsDict(v)
    [] pc = "regions" ->
         \A v \in EnabledInstances(Types) : \A f \in {"region", "location", "zone"} :
           GetPath(v, <<f>>) \in Falsy \/ IsText(GetPath(v, <<f>>))
    [] OTHER -> TRUE

\* One check: it only adds to the findings.
Check(at, next, new) ==
  /\ pc = at /\ Readable
  /\ pc' = next
  /\ findings' = findings \cup new
  /\ UNCHANGED <<given, normalized>>

CheckRequired == Check("load", "types", Lacking)

CheckTypes ==
  Check("types", "references",
        {Found("DEPENDENCY_MISSING", t) :
           t \in {t \in given.enabled : ~(Requires(t) \subseteq given.enabled)}})

CheckReferences ==
  Check("references", "security",
        (UNION {BadReferences(t) : t \in given.enabled}) \cup Misconnected)

CheckSecurity == Check("security", "regions", Exposed)

\* Mutant: the file is checked, not what was made of it.
CheckRegionsAsWritten == Check("regions", "done", BadRegions(given.instances))

CheckRegions == Check("regions", "done", BadRegions(normalized))

\* The command ends with a traceback and without a verdict.
Raise ==
  /\ pc \in {"load", "references", "security", "regions"} /\ ~Readable
  /\ pc' = "raised"
  /\ UNCHANGED <<given, normalized, findings>>

Validate ==
  CheckRequired \/ CheckTypes \/ CheckReferences \/ CheckSecurity \/ CheckRegions \/ Raise

CheckNext == Load \/ Validate

CheckSpec == CheckInit /\ [][CheckNext]_checkVars

\* The verdict.
Blocked == \E f \in findings : f.severity = "ERROR"
Accepted == pc = "done" /\ ~Blocked
-------------------------------------------------------------------------------
\* A place as the file gives it; the code lets `false` and `{}` pass.
PlaceIn(v, words) == v \in {No, NoFields} \/ (IsText(v) /\ v.text \in words)

(***************************************************************************)
(* The checks together: a service with Direct VPC that is accepted has its *)
(* subnet, in the network and region it says itself.  It takes the         *)
(* required fields of service and subnet, the references of both, and the  *)
(* comparison between them.                                                *)
(***************************************************************************)
DirectVpcIsConsistent ==
  Accepted /\ "cloudrun" \in given.enabled =>
    \A n \in Names("cloudrun") :
      LET service == normalized["cloudrun"][n]
          subnet  == SubnetOf(service)
          places  == {GetPath(subnet, <<"region">>), GetPath(service, <<"location">>)}
      IN Access(service) # Null =>
           /\ Has("subnet", GetPath(Access(service), <<"subnet">>))
           /\ Has("vpc", GetPath(subnet, <<"vpc">>))
           /\ GetPath(subnet, <<"vpc">>) = GetPath(Access(service), <<"network">>)
           /\ places \cap {No, NoFields} = {} =>
                GetPath(subnet, <<"region">>) = GetPath(service, <<"location">>)

\* The outputs of other modules that a Terraform module looks up for an
\* instance: modules/networking/subnet, compute/cloudrun and compute/vm.
Lookups(t, v) ==
  LET account == GetPath(v, <<"service_account">>)
      access  == GetPath(v, <<"vpc_access">>)
  IN CASE t = "subnet" -> {<<"vpc", GetPath(v, <<"vpc">>)>>}
       [] t = "cloudrun" /\ access # Null ->
            {<<"vpc", GetPath(access, <<"network">>)>>, <<"subnet", GetPath(access, <<"subnet">>)>>}
       [] t = "vm" ->
            {<<"subnet", GetPath(v, <<"subnet">>)>>} \cup
            (IF GetPath(account, <<"enabled">>) = No \/ (IsDict(account) /\ "email" \in DOMAIN account.dict)
               THEN {} ELSE {<<"service_accounts", GetPath(account, <<"name">>)>>})
       [] OTHER -> {}

(***************************************************************************)
(* What Terraform looks up for an accepted instance is there: it names an  *)
(* instance, and its type is enabled.  The conditions under which the      *)
(* checks require a field and those under which the modules read it are    *)
(* written twice, in two languages.                                        *)
(***************************************************************************)
LookupsResolve ==
  Accepted =>
    \A t \in given.enabled : \A n \in Names(t) : \A l \in Lookups(t, normalized[t][n]) :
      l[1] \in given.enabled /\ Has(l[1], l[2])

(***************************************************************************)
(* Every enabled instance of an accepted deployment is in a place that     *)
(* regions.yaml approves, and says so: neither a default, nor a token that *)
(* was not resolved, nor a missing field gets past the checks.             *)
(***************************************************************************)
PlacesApproved ==
  Accepted =>
    \A t \in given.enabled : \A n \in Names(t) :
      LET place(f) == GetPath(normalized[t][n], <<f>>)
      IN CASE t = "subnet"   -> PlaceIn(place("region"), RegionsAllowed)
           [] t = "cloudrun" -> PlaceIn(place("location"), RegionsAllowed)
           [] t = "vm"       -> PlaceIn(place("zone"), Zones)
           [] OTHER          -> TRUE

(***************************************************************************)
(* A service that Terraform would leave unprotected is accepted only if    *)
(* the policy does not protect services, or lists this very rule as less   *)
(* than an error: "unknown/removed rule ids fall back to ERROR".           *)
(***************************************************************************)
TypoNeverDisables ==
  Accepted /\ "cloudrun" \in given.enabled \cap given.protected =>
    \A n \in Names("cloudrun") :
      GetPath(normalized["cloudrun"][n], <<"deletion_protection">>) = No =>
        \E k \in 1 .. Len(given.policy) :
          /\ given.policy[k].id = "NO_DELETION_PROTECTION"
          /\ given.policy[k].severity # "ERROR"
===============================================================================
