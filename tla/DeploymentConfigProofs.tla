------------------------ MODULE DeploymentConfigProofs ------------------------
(***************************************************************************)
(* Proofs about DeploymentConfig and DeploymentChecks: for every           *)
(* deployment, every tree of defaults and fields, and every policy.        *)
(*                                                                         *)
(* First the checks, whatever a loader makes of the instances: FoundInv    *)
(* carries what each check has found to the verdict, for the instances as  *)
(* they are then; no check changes them, and no finding is ever taken      *)
(* back.  Then the loader: LoaderInv says what it has made of each         *)
(* instance, and the lemmas before it what that is, place by place.  Last  *)
(* the two together: LoaderServesChecks.                                   *)
(***************************************************************************)
EXTENDS DeploymentConfig, WellFoundedInduction, TLAPS

AllPlacesReadable ==
  \A v \in EnabledInstances(Types) : \A f \in {"region", "location", "zone"} :
    GetPath(v, <<f>>) \in Falsy \/ IsText(GetPath(v, <<f>>))

FoundInv ==
  /\ pc \in {"types", "references", "security", "regions", "done"} => Lacking \subseteq findings
  /\ pc \in {"security", "regions", "done"} =>
       /\ UNION {BadReferences(t) : t \in given.enabled} \subseteq findings
       /\ Misconnected \subseteq findings
  /\ pc \in {"regions", "done"} => Exposed \subseteq findings
  /\ pc = "done" => BadRegions(normalized) \subseteq findings /\ AllPlacesReadable

IInv == TypeOK /\ FoundInv
-------------------------------------------------------------------------------
(***************************************************************************)
(* _get_path on the paths of the tables, which have one part or two.       *)
(***************************************************************************)
LEMMA GetOne == ASSUME NEW v, NEW a PROVE GetPath(v, <<a>>) = Field(v, a)
<1> DEFINE path == <<a>>
           body(r) == [k \in 0 .. Len(path) |-> IF k = 0 THEN v ELSE Field(r[k - 1], path[k])]
           s == [k \in 0 .. 1 |-> IF k = 0 THEN v ELSE Field(v, a)]
           c == CHOOSE r : r = body(r)
<1>1. Len(path) = 1 /\ path[1] = a
  OBVIOUS
<1> HIDE DEF path
<1>2. s = body(s)
  BY <1>1
<1>3. c = body(c)
  BY <1>2
<1>4. GetPath(v, path) = c[Len(path)]
  BY DEF GetPath
<1> HIDE DEF c
<1>5. c[0] = v /\ c[1] = Field(c[0], a)
  BY <1>1, <1>3
<1>6. QED BY <1>1, <1>4, <1>5 DEF path

LEMMA GetTwo ==
  ASSUME NEW v, NEW a, NEW b PROVE GetPath(v, <<a, b>>) = Field(Field(v, a), b)
<1> DEFINE path == <<a, b>>
           body(r) == [k \in 0 .. Len(path) |-> IF k = 0 THEN v ELSE Field(r[k - 1], path[k])]
           s == [k \in 0 .. 2 |-> IF k = 0 THEN v
                                  ELSE IF k = 1 THEN Field(v, a) ELSE Field(Field(v, a), b)]
           c == CHOOSE r : r = body(r)
<1>1. Len(path) = 2 /\ path[1] = a /\ path[2] = b
  OBVIOUS
<1> HIDE DEF path
<1>2. s = body(s)
  BY <1>1
<1>3. c = body(c)
  BY <1>2
<1>4. GetPath(v, path) = c[Len(path)]
  BY DEF GetPath
<1> HIDE DEF c
<1>5. c[0] = v /\ c[1] = Field(c[0], a) /\ c[2] = Field(c[1], b)
  BY <1>1, <1>3
<1>6. QED BY <1>1, <1>4, <1>5 DEF path
-------------------------------------------------------------------------------
LEMMA Least ==
  ASSUME NEW T, T \subseteq Nat, T # {}
  PROVE  \E m \in T : \A n \in T : m <= n
<1> DEFINE R == OpToRel(<, Nat)
<1>1. IsWellFoundedOn(R, Nat)
  BY NatLessThanWellFounded
<1>2. \A x, y \in Nat : x < y => <<x, y>> \in R
  BY DEF OpToRel
<1> HIDE DEF R
<1>3. PICK x \in T : \A y \in T : <<y, x>> \notin R
  BY <1>1, WFMin
<1>4. \A y \in T : ~(y < x)
  BY <1>2, <1>3
<1>5. \A y \in T : x <= y
  BY <1>4
<1>6. QED BY <1>5

\* A rule that is not listed is an error, a listed one what one of its
\* entries says.
LEMMA SeverityIsListed ==
  ASSUME given \in Inputs, NEW rule
  PROVE  \/ Severity(rule) = "ERROR"
         \/ \E k \in 1 .. Len(given.policy) :
              given.policy[k].id = rule /\ given.policy[k].severity = Severity(rule)
<1> DEFINE listed == {k \in 1 .. Len(given.policy) : given.policy[k].id = rule}
           first == CHOOSE k \in listed : \A j \in listed : k <= j
<1>1. Severity(rule) = IF listed = {} THEN "ERROR" ELSE given.policy[first].severity
  BY Zenon DEF Severity
<1>2. \A k \in listed : k \in 1 .. Len(given.policy) /\ given.policy[k].id = rule
  OBVIOUS
<1>3. listed \subseteq Nat
  BY InputAssumption
<1> HIDE DEF listed, first
<1>4. CASE listed = {}
  BY <1>1, <1>4
<1>5. CASE listed # {}
  <2>1. \E k \in listed : \A j \in listed : k <= j
    BY <1>3, <1>5, Least
  <2>2. first \in listed
    BY <2>1, Zenon DEF first
  <2>3. QED BY <1>1, <1>2, <1>5, <2>2
<1>6. QED BY <1>4, <1>5
-------------------------------------------------------------------------------
Findings == [rule: Rules, type: Types \cup {"primary"}, severity: Severities]

LEMMA NewFindings ==
  ASSUME TypeOK
  PROVE  /\ Lacking \subseteq Findings
         /\ {Found("DEPENDENCY_MISSING", t) :
               t \in {t \in given.enabled : ~(Requires(t) \subseteq given.enabled)}} \subseteq Findings
         /\ UNION {BadReferences(t) : t \in given.enabled} \subseteq Findings
         /\ Misconnected \subseteq Findings
         /\ Exposed \subseteq Findings
         /\ BadRegions(normalized) \subseteq Findings
<1>1. given \in Inputs /\ given.enabled \subseteq Types
  BY InputAssumption DEF TypeOK
<1>2. \A rule \in Rules, t \in Types \cup {"primary"} : Found(rule, t) \in Findings
  <2>1. TAKE rule \in Rules, t \in Types \cup {"primary"}
  <2>2. "ERROR" \in Severities
    BY DEF Severities
  <2>3. QED BY <2>2 DEF Found, Graded, Findings
<1>3. /\ "REQUIRED" \in Rules /\ "DEPENDENCY_MISSING" \in Rules /\ "INVALID_REFERENCE" \in Rules
      /\ "REFERENCED_RESOURCE_TYPE_DISABLED" \in Rules /\ "CLOUDRUN_VPC_MISMATCH" \in Rules
      /\ "NO_DELETION_PROTECTION" \in Rules /\ "REGION_NOT_APPROVED" \in Rules
      /\ "ZONE_NOT_APPROVED" \in Rules
  BY DEF Rules
<1>4. Lacking \subseteq Findings
  BY <1>1, <1>2, <1>3 DEF Lacking
<1>5. {Found("DEPENDENCY_MISSING", t) :
         t \in {t \in given.enabled : ~(Requires(t) \subseteq given.enabled)}} \subseteq Findings
  BY <1>1, <1>2, <1>3
<1>6. \A t \in given.enabled : BadReferences(t) \subseteq Findings
  BY <1>1, <1>2, <1>3 DEF BadReferences
<1>7. Misconnected \subseteq Findings
  BY <1>1, <1>2, <1>3 DEF Misconnected
<1>8. Exposed \subseteq Findings
  <2>1. \A t \in Types :
          Graded(Severity("NO_DELETION_PROTECTION"), "NO_DELETION_PROTECTION", t) \in Findings
    BY <1>1, <1>3, SeverityIsListed DEF Graded, Findings, Severities
  <2>2. QED BY <1>1, <2>1 DEF Exposed
<1>9. BadRegions(normalized) \subseteq Findings
  BY <1>1, <1>2, <1>3 DEF BadRegions
<1>10. QED BY <1>4, <1>5, <1>6, <1>7, <1>8, <1>9

\* What a check would find depends on the instances only.
LEMMA SameFindings ==
  ASSUME UNCHANGED <<given, normalized>>
  PROVE  /\ Lacking' = Lacking /\ Misconnected' = Misconnected /\ Exposed' = Exposed
         /\ (UNION {BadReferences(t) : t \in given.enabled})'
              = UNION {BadReferences(t) : t \in given.enabled}
         /\ BadRegions(normalized)' = BadRegions(normalized)
         /\ AllPlacesReadable' = AllPlacesReadable
<1>1. /\ Lacking' = Lacking
      /\ BadRegions(normalized)' = BadRegions(normalized)
      /\ AllPlacesReadable' = AllPlacesReadable
  BY DEF Lacking, BadRegions, AllPlacesReadable, EnabledInstances, Names
<1>2. Misconnected' = Misconnected
  BY DEF Misconnected, Mismatched, SubnetOf, Has, Names
<1>3. Exposed' = Exposed
  BY DEF Exposed, Severity, Names
<1>4. (UNION {BadReferences(t) : t \in given.enabled})'
        = UNION {BadReferences(t) : t \in given.enabled}
  BY DEF BadReferences, Values, Has, Names
<1>5. QED BY <1>1, <1>2, <1>3, <1>4

LEMMA ChecksStep == ASSUME IInv, [CheckNext]_checkVars PROVE IInv'
<1> USE DEF IInv
<1>1. ASSUME Load PROVE IInv'
  BY <1>1 DEF Load, TypeOK, Names, Severities, FoundInv
<1>2. ASSUME NEW at, NEW next, NEW new \in SUBSET Findings, Check(at, next, new),
             next \in {"types", "references", "security", "regions", "done"}
      PROVE  TypeOK'
  BY <1>2 DEF Check, TypeOK, Names, Findings, Severities
<1>3. ASSUME CheckRequired PROVE IInv'
  <2>1. TypeOK'
    BY <1>2, <1>3, NewFindings DEF CheckRequired
  <2>2. /\ UNCHANGED <<given, normalized>> /\ pc' = "types"
        /\ Lacking \subseteq findings'
    BY <1>3 DEF CheckRequired, Check
  <2>3. QED BY <2>1, <2>2, SameFindings DEF FoundInv
<1>4. ASSUME CheckTypes PROVE IInv'
  <2>1. TypeOK'
    BY <1>2, <1>4, NewFindings DEF CheckTypes
  <2>2. /\ UNCHANGED <<given, normalized>> /\ pc = "types" /\ pc' = "references"
        /\ findings \subseteq findings'
    BY <1>4 DEF CheckTypes, Check
  <2>3. QED BY <2>1, <2>2, SameFindings DEF FoundInv
<1>5. ASSUME CheckReferences PROVE IInv'
  <2> DEFINE new == (UNION {BadReferences(t) : t \in given.enabled}) \cup Misconnected
  <2>0. Check("references", "security", new) /\ new \in SUBSET Findings
    BY <1>5, NewFindings DEF CheckReferences
  <2> HIDE DEF new
  <2>1. TypeOK'
    BY <1>2, <2>0
  <2>2. /\ UNCHANGED <<given, normalized>> /\ pc = "references" /\ pc' = "security"
        /\ findings \subseteq findings'
        /\ UNION {BadReferences(t) : t \in given.enabled} \subseteq findings'
        /\ Misconnected \subseteq findings'
    BY <2>0 DEF Check, new
  <2>3. QED BY <2>1, <2>2, SameFindings DEF FoundInv
<1>6. ASSUME CheckSecurity PROVE IInv'
  <2>1. TypeOK'
    BY <1>2, <1>6, NewFindings DEF CheckSecurity
  <2>2. /\ UNCHANGED <<given, normalized>> /\ pc = "security" /\ pc' = "regions"
        /\ findings \subseteq findings' /\ Exposed \subseteq findings'
    BY <1>6 DEF CheckSecurity, Check
  <2>3. QED BY <2>1, <2>2, SameFindings DEF FoundInv
<1>7. ASSUME CheckRegions PROVE IInv'
  <2>1. TypeOK'
    BY <1>2, <1>7, NewFindings DEF CheckRegions
  <2>2. /\ UNCHANGED <<given, normalized>> /\ pc = "regions" /\ pc' = "done"
        /\ findings \subseteq findings' /\ BadRegions(normalized) \subseteq findings'
        /\ AllPlacesReadable
    BY <1>7 DEF CheckRegions, Check, Readable, AllPlacesReadable
  <2>3. QED BY <2>1, <2>2, SameFindings DEF FoundInv
<1>8. ASSUME Raise PROVE IInv'
  BY <1>8 DEF Raise, TypeOK, Names, Severities, FoundInv
<1>9. CASE UNCHANGED checkVars
  <2>1. UNCHANGED <<given, normalized>> /\ pc' = pc /\ findings' = findings
    BY <1>9 DEF checkVars
  <2>2. TypeOK'
    BY <2>1 DEF TypeOK, Names, Severities
  <2>3. QED BY <2>1, <2>2, SameFindings DEF FoundInv
<1>10. QED
  BY <1>1, <1>3, <1>4, <1>5, <1>6, <1>7, <1>8, <1>9 DEF CheckNext, Validate

LEMMA ChecksInvariant == CheckSpec => []IInv
<1>1. CheckInit => IInv
  BY DEF CheckInit, IInv, TypeOK, FoundInv, Names
<1>2. QED BY <1>1, ChecksStep, PTL DEF CheckSpec
-------------------------------------------------------------------------------
\* An accepted deployment lacks no required field,
LEMMA NothingLacks ==
  ASSUME IInv, Accepted, NEW t \in given.enabled, NEW n \in Names(t),
         NEW p \in Required(t, normalized[t][n])
  PROVE  GetPath(normalized[t][n], p) \notin Empty
<1>1. SUFFICES ASSUME GetPath(normalized[t][n], p) \in Empty PROVE FALSE
  OBVIOUS
<1>2. Found("REQUIRED", t) \in Lacking
  BY <1>1 DEF Lacking
<1>3. Found("REQUIRED", t) \in findings
  BY <1>2 DEF IInv, FoundInv, Accepted
<1>4. QED BY <1>3 DEF Accepted, Blocked, Found, Graded

\* and each of its references names an instance of an enabled type.
LEMMA ReferenceHolds ==
  ASSUME IInv, Accepted, NEW t \in given.enabled, NEW n \in Names(t), NEW ref \in References(t),
         GetPath(normalized[t][n], ref.field) \notin Empty
  PROVE  /\ ref.target \in given.enabled
         /\ Has(ref.target, GetPath(normalized[t][n], ref.field))
<1>1. GetPath(normalized[t][n], ref.field) \in Values(t, ref)
  BY DEF Values
<1>2. \A f \in BadReferences(t) : f \in findings
  BY DEF IInv, FoundInv, Accepted
<1>3. \A rule : Found(rule, t) \notin findings
  BY DEF Accepted, Blocked, Found, Graded
<1>4. CASE ref.target \notin given.enabled
  <2>1. Found("REFERENCED_RESOURCE_TYPE_DISABLED", t) \in BadReferences(t)
    BY <1>1, <1>4 DEF BadReferences
  <2>2. QED BY <1>2, <1>3, <2>1
<1>5. CASE ref.target \in given.enabled /\ ~Has(ref.target, GetPath(normalized[t][n], ref.field))
  <2>1. Found("INVALID_REFERENCE", t) \in BadReferences(t)
    BY <1>1, <1>5 DEF BadReferences
  <2>2. QED BY <1>2, <1>3, <2>1
<1>6. QED BY <1>4, <1>5

\* Neither null, nor "", nor false, nor {}.
LEMMA TextIsNotFalsy ==
  ASSUME NEW v, IsText(v), v \notin Empty
  PROVE  v \notin Falsy
<1>1. DOMAIN No = {"bool"} /\ DOMAIN NoFields = {"dict"}
  BY DEF No, NoFields, Dict
<1>2. "bool" # "text" /\ "dict" # "text"
  OBVIOUS
<1>3. QED BY <1>1, <1>2 DEF IsText, Falsy

LEMMA FieldOfNull == ASSUME NEW a PROVE Field(Null, a) = Null
<1>1. DOMAIN Null = {"null"}
  BY DEF Null
<1>2. QED BY <1>1 DEF Field, IsDict

LEMMA NullIsEmpty == Null \in Empty /\ No \notin Empty /\ NoFields \notin Empty
<1>1. DOMAIN No = {"bool"} /\ DOMAIN NoFields = {"dict"} /\ DOMAIN Null = {"null"}
      /\ DOMAIN Text("") = {"text"}
  BY DEF No, NoFields, Dict, Null, Text
<1>2. QED BY <1>1 DEF Empty

LEMMA VpcConsistent == ASSUME IInv, Accepted PROVE DirectVpcIsConsistent
<1>1. SUFFICES ASSUME "cloudrun" \in given.enabled, NEW n \in Names("cloudrun"),
                      Access(normalized["cloudrun"][n]) # Null
               PROVE  LET service == normalized["cloudrun"][n]
                          subnet  == SubnetOf(service)
                          places  == {GetPath(subnet, <<"region">>), GetPath(service, <<"location">>)}
                      IN /\ Has("subnet", GetPath(Access(service), <<"subnet">>))
                         /\ Has("vpc", GetPath(subnet, <<"vpc">>))
                         /\ GetPath(subnet, <<"vpc">>) = GetPath(Access(service), <<"network">>)
                         /\ places \cap {No, NoFields} = {} =>
                              GetPath(subnet, <<"region">>) = GetPath(service, <<"location">>)
  BY Zenon DEF DirectVpcIsConsistent
<1> DEFINE service  == normalized["cloudrun"][n]
           network  == GetPath(Access(service), <<"network">>)
           name     == GetPath(Access(service), <<"subnet">>)
           location == GetPath(service, <<"location">>)
           subnet   == SubnetOf(service)
           vpc      == GetPath(subnet, <<"vpc">>)
           region   == GetPath(subnet, <<"region">>)
<1>2. /\ network = GetPath(service, <<"vpc_access", "network">>)
      /\ name = GetPath(service, <<"vpc_access", "subnet">>)
  BY GetOne, GetTwo DEF Access
<1>3. /\ <<"location">> \in Required("cloudrun", service)
      /\ <<"vpc_access", "network">> \in Required("cloudrun", service)
      /\ <<"vpc_access", "subnet">> \in Required("cloudrun", service)
  BY <1>1 DEF Required, Access
<1>4. network \notin Empty /\ name \notin Empty /\ location \notin Empty
  BY <1>1, <1>2, <1>3, NothingLacks
<1>5. "vpc" \in given.enabled /\ Has("vpc", network)
  <2> DEFINE ref == [field |-> <<"vpc_access", "network">>, target |-> "vpc"]
  <2>1. ref \in References("cloudrun") /\ ref.field = <<"vpc_access", "network">>
        /\ ref.target = "vpc"
    BY DEF References
  <2> HIDE DEF ref
  <2>2. QED BY <1>1, <1>2, <1>4, <2>1, ReferenceHolds
<1>6. "subnet" \in given.enabled /\ Has("subnet", name)
  <2> DEFINE ref == [field |-> <<"vpc_access", "subnet">>, target |-> "subnet"]
  <2>1. ref \in References("cloudrun") /\ ref.field = <<"vpc_access", "subnet">>
        /\ ref.target = "subnet"
    BY DEF References
  <2> HIDE DEF ref
  <2>2. QED BY <1>1, <1>2, <1>4, <2>1, ReferenceHolds
<1>7. name.text \in Names("subnet") /\ subnet = normalized["subnet"][name.text]
  BY <1>6 DEF Has, SubnetOf
<1>8. <<"vpc">> \in Required("subnet", subnet) /\ <<"region">> \in Required("subnet", subnet)
  BY DEF Required
<1>9. vpc \notin Empty /\ region \notin Empty
  BY <1>6, <1>7, <1>8, NothingLacks
<1>10. Has("vpc", vpc)
  <2> DEFINE ref == [field |-> <<"vpc">>, target |-> "vpc"]
  <2>1. ref \in References("subnet") /\ ref.field = <<"vpc">> /\ ref.target = "vpc"
    BY DEF References
  <2> HIDE DEF ref
  <2>2. QED BY <1>6, <1>7, <1>9, <2>1, ReferenceHolds
<1>11. ~Mismatched(service)
  <2>1. SUFFICES ASSUME Mismatched(service) PROVE FALSE
    OBVIOUS
  <2>2. Found("CLOUDRUN_VPC_MISMATCH", "cloudrun") \in Misconnected
    BY <1>1, <2>1 DEF Misconnected
  <2>3. Found("CLOUDRUN_VPC_MISMATCH", "cloudrun") \in findings
    BY <2>2 DEF IInv, FoundInv, Accepted
  <2>4. QED BY <2>3 DEF Accepted, Blocked, Found, Graded
<1>12. ~Differ(vpc, network) /\ ~Differ(region, location)
  BY <1>11 DEF Mismatched
<1>13. vpc \notin Falsy /\ network \notin Falsy
  BY <1>4, <1>5, <1>9, <1>10, TextIsNotFalsy DEF Has
<1>14. vpc = network
  BY <1>12, <1>13 DEF Differ
<1>15. region \notin {No, NoFields} /\ location \notin {No, NoFields} => region = location
  BY <1>4, <1>9, <1>12 DEF Differ, Falsy
<1>16. QED BY <1>6, <1>10, <1>14, <1>15

LEMMA LooksUpWhatIsThere ==
  ASSUME IInv, Accepted
  PROVE  LookupsResolve
<1>1. SUFFICES ASSUME NEW t \in given.enabled, NEW n \in Names(t),
                      NEW l \in Lookups(t, normalized[t][n])
               PROVE  l[1] \in given.enabled /\ Has(l[1], l[2])
  BY DEF LookupsResolve
<1> DEFINE v == normalized[t][n]
<1>2. ASSUME NEW path, NEW target, path \in Required(t, v),
             [field |-> path, target |-> target] \in References(t)
      PROVE  target \in given.enabled /\ Has(target, GetPath(v, path))
  <2> DEFINE ref == [field |-> path, target |-> target]
  <2>1. ref \in References(t) /\ ref.field = path /\ ref.target = target
    BY <1>2
  <2> HIDE DEF ref
  <2>2. GetPath(v, path) \notin Empty
    BY <1>2, NothingLacks
  <2>3. QED BY <2>1, <2>2, ReferenceHolds
<1>3. CASE t = "subnet"
  <2>1. l = <<"vpc", GetPath(v, <<"vpc">>)>>
    BY <1>3 DEF Lookups
  <2>2. <<"vpc">> \in Required(t, v) /\ [field |-> <<"vpc">>, target |-> "vpc"] \in References(t)
    BY <1>3 DEF Required, References
  <2>3. QED BY <1>2, <2>1, <2>2
<1>4. CASE t = "cloudrun" /\ GetPath(v, <<"vpc_access">>) # Null
  <2>1. \/ l = <<"vpc", GetPath(GetPath(v, <<"vpc_access">>), <<"network">>)>>
        \/ l = <<"subnet", GetPath(GetPath(v, <<"vpc_access">>), <<"subnet">>)>>
    BY <1>4 DEF Lookups
  <2>2. /\ GetPath(GetPath(v, <<"vpc_access">>), <<"network">>) = GetPath(v, <<"vpc_access", "network">>)
        /\ GetPath(GetPath(v, <<"vpc_access">>), <<"subnet">>) = GetPath(v, <<"vpc_access", "subnet">>)
    BY GetOne, GetTwo
  <2>3. /\ <<"vpc_access", "network">> \in Required(t, v)
        /\ <<"vpc_access", "subnet">> \in Required(t, v)
        /\ [field |-> <<"vpc_access", "network">>, target |-> "vpc"] \in References(t)
        /\ [field |-> <<"vpc_access", "subnet">>, target |-> "subnet"] \in References(t)
    BY <1>4 DEF Required, References
  <2>4. /\ "vpc" \in given.enabled /\ Has("vpc", GetPath(v, <<"vpc_access", "network">>))
        /\ "subnet" \in given.enabled /\ Has("subnet", GetPath(v, <<"vpc_access", "subnet">>))
    BY <1>2, <2>3
  <2>5. QED BY <2>1, <2>2, <2>4
<1>5. CASE t = "vm"
  <2> DEFINE account == GetPath(v, <<"service_account">>)
  <2>1. /\ GetPath(account, <<"enabled">>) = GetPath(v, <<"service_account", "enabled">>)
        /\ GetPath(account, <<"name">>) = GetPath(v, <<"service_account", "name">>)
        /\ GetPath(v, <<"service_account", "email">>) = Field(account, "email")
    BY GetOne, GetTwo
  <2>2. CASE l = <<"subnet", GetPath(v, <<"subnet">>)>>
    <3>1. <<"subnet">> \in Required(t, v)
          /\ [field |-> <<"subnet">>, target |-> "subnet"] \in References(t)
      BY <1>5 DEF Required, References
    <3>2. QED BY <1>2, <2>2, <3>1
  <2>3. CASE /\ l = <<"service_accounts", GetPath(account, <<"name">>)>>
             /\ GetPath(account, <<"enabled">>) # No
             /\ ~(IsDict(account) /\ "email" \in DOMAIN account.dict)
    <3>1. GetPath(v, <<"service_account", "email">>) \in Empty
      BY <2>1, <2>3, NullIsEmpty DEF Field
    <3>2. <<"service_account", "name">> \in AccountRequired(v)
      BY <2>1, <2>3, <3>1 DEF AccountRequired
    <3>3. <<"service_account", "name">> \in Required(t, v)
      BY <1>5, <3>2 DEF Required
    <3>4. [field |-> <<"service_account", "name">>, target |-> "service_accounts"] \in References(t)
      BY <1>5 DEF References
    <3>5. "service_accounts" \in given.enabled
          /\ Has("service_accounts", GetPath(v, <<"service_account", "name">>))
      BY <1>2, <3>3, <3>4
    <3>6. QED BY <2>1, <2>3, <3>5
  <2>4. QED BY <1>5, <2>2, <2>3 DEF Lookups
<1>6. CASE t \notin {"subnet", "vm"} /\ ~(t = "cloudrun" /\ GetPath(v, <<"vpc_access">>) # Null)
  BY <1>6 DEF Lookups
<1>7. QED BY <1>3, <1>4, <1>5, <1>6

\* A field that is required and checked for its place has a place.
LEMMA PlaceIsApproved ==
  ASSUME IInv, Accepted, NEW t \in given.enabled, NEW n \in Names(t),
         NEW f, NEW fields, NEW words, NEW rule,
         f \in fields, f \in {"region", "location", "zone"},
         <<f>> \in Required(t, normalized[t][n]),
         BadPlaces(normalized[t][n], fields, words) # {} =>
           Found(rule, t) \in BadRegions(normalized)
  PROVE  PlaceIn(GetPath(normalized[t][n], <<f>>), words)
<1> DEFINE place == GetPath(normalized[t][n], <<f>>)
<1>1. place \notin Empty
  BY NothingLacks
<1>2. BadPlaces(normalized[t][n], fields, words) = {}
  <2>1. Found(rule, t) \notin findings
    BY DEF Accepted, Blocked, Found, Graded
  <2>2. QED BY <2>1 DEF IInv, FoundInv, Accepted
<1>3. place \notin Falsy => place.text \in words
  BY <1>2 DEF BadPlaces
<1>4. place \in Falsy \/ IsText(place)
  <2>1. normalized[t][n] \in EnabledInstances(Types)
    BY InputAssumption DEF EnabledInstances, IInv, TypeOK
  <2>2. QED BY <2>1 DEF IInv, FoundInv, Accepted, AllPlacesReadable
<1>5. QED BY <1>1, <1>3, <1>4 DEF PlaceIn, Falsy

LEMMA PlacesAreApproved == ASSUME IInv, Accepted PROVE PlacesApproved
<1>1. ASSUME NEW t \in given.enabled, NEW n \in Names(t)
      PROVE  /\ BadPlaces(normalized[t][n], {"region", "location"}, RegionsAllowed) # {} =>
                  Found("REGION_NOT_APPROVED", t) \in BadRegions(normalized)
             /\ BadPlaces(normalized[t][n], {"zone"}, Zones) # {} =>
                  Found("ZONE_NOT_APPROVED", t) \in BadRegions(normalized)
  BY DEF BadRegions
<1>2. ASSUME "subnet" \in given.enabled, NEW n \in Names("subnet")
      PROVE  PlaceIn(GetPath(normalized["subnet"][n], <<"region">>), RegionsAllowed)
  <2>1. <<"region">> \in Required("subnet", normalized["subnet"][n])
    BY DEF Required
  <2>2. QED BY <1>1, <1>2, <2>1, PlaceIsApproved
<1>3. ASSUME "cloudrun" \in given.enabled, NEW n \in Names("cloudrun")
      PROVE  PlaceIn(GetPath(normalized["cloudrun"][n], <<"location">>), RegionsAllowed)
  <2>1. <<"location">> \in Required("cloudrun", normalized["cloudrun"][n])
    BY DEF Required
  <2>2. QED BY <1>1, <1>3, <2>1, PlaceIsApproved
<1>4. ASSUME "vm" \in given.enabled, NEW n \in Names("vm")
      PROVE  PlaceIn(GetPath(normalized["vm"][n], <<"zone">>), Zones)
  <2>1. <<"zone">> \in Required("vm", normalized["vm"][n])
    BY DEF Required
  <2>2. QED BY <1>1, <1>4, <2>1, PlaceIsApproved
<1>5. QED BY <1>2, <1>3, <1>4 DEF PlacesApproved

LEMMA RuleIsListed == ASSUME IInv, Accepted PROVE TypoNeverDisables
<1> DEFINE rule == "NO_DELETION_PROTECTION"
<1>1. SUFFICES ASSUME "cloudrun" \in given.enabled \cap given.protected,
                      NEW n \in Names("cloudrun"),
                      GetPath(normalized["cloudrun"][n], <<"deletion_protection">>) = No
               PROVE  \E k \in 1 .. Len(given.policy) :
                        given.policy[k].id = rule /\ given.policy[k].severity # "ERROR"
  BY DEF TypoNeverDisables
<1> DEFINE service == normalized["cloudrun"][n]
<1>2. Unprotected(service)
  <2>1. Field(service, "deletion_protection") = No
    BY <1>1, GetOne
  <2>2. No # Null
    BY NullIsEmpty
  <2>3. QED BY <2>1, <2>2 DEF Field, Unprotected, Falsy
<1>3. Graded(Severity(rule), rule, "cloudrun") \in Exposed
  BY <1>1, <1>2 DEF Exposed
<1>4. Graded(Severity(rule), rule, "cloudrun") \in findings
  BY <1>3 DEF IInv, FoundInv, Accepted
<1>5. Severity(rule) # "ERROR"
  BY <1>4 DEF Accepted, Blocked, Graded
<1>6. given \in Inputs
  BY DEF IInv, TypeOK
<1>7. QED BY <1>5, <1>6, SeverityIsListed
-------------------------------------------------------------------------------
(***************************************************************************)
(* Whatever a loader does, the checks come to their verdict with findings  *)
(* of the known kinds and without touching an instance.                    *)
(***************************************************************************)
THEOREM TypeCorrect == CheckSpec => []TypeOK
BY ChecksInvariant, PTL DEF IInv

(***************************************************************************)
(* An accepted Direct VPC service has its subnet, in its network and       *)
(* region, whatever the loader made of any of them.                        *)
(***************************************************************************)
THEOREM DirectVpcChecked == CheckSpec => []DirectVpcIsConsistent
<1>1. IInv => DirectVpcIsConsistent
  BY VpcConsistent DEF DirectVpcIsConsistent
<1>2. QED BY <1>1, ChecksInvariant, PTL

(***************************************************************************)
(* Terraform finds what it looks up for an accepted deployment.            *)
(***************************************************************************)
THEOREM LookupsChecked == CheckSpec => []LookupsResolve
<1>1. IInv => LookupsResolve
  BY LooksUpWhatIsThere DEF LookupsResolve
<1>2. QED BY <1>1, ChecksInvariant, PTL

(***************************************************************************)
(* An accepted deployment is where regions.yaml allows it to be, for every *)
(* set of regions, locations and zones.                                    *)
(***************************************************************************)
THEOREM PlacesChecked == CheckSpec => []PlacesApproved
<1>1. IInv => PlacesApproved
  BY PlacesAreApproved DEF PlacesApproved
<1>2. QED BY <1>1, ChecksInvariant, PTL

(***************************************************************************)
(* No policy file, however long, lets an unprotected service pass without  *)
(* an entry for this very rule.                                            *)
(***************************************************************************)
THEOREM TyposChecked == CheckSpec => []TypoNeverDisables
<1>1. IInv => TypoNeverDisables
  BY RuleIsListed DEF TypoNeverDisables
<1>2. QED BY <1>1, ChecksInvariant, PTL
-------------------------------------------------------------------------------
(***************************************************************************)
(* Trees: what recursion over a path, over the levels of a tree and over   *)
(* its nodes defines is what it says.                                      *)
(***************************************************************************)
LEMMA Induct ==
  ASSUME NEW S, 0 \in S, \A n \in Nat : n \in S => n + 1 \in S
  PROVE  Nat \subseteq S
<1> DEFINE T == Nat \ S
<1>1. SUFFICES ASSUME T # {} PROVE FALSE
  OBVIOUS
<1>2. PICK m \in T : \A n \in T : m <= n
  <2>1. T \subseteq Nat
    OBVIOUS
  <2> HIDE DEF T
  <2>2. QED BY <1>1, <2>1, Least
<1>3. m # 0 /\ m - 1 \in Nat /\ m - 1 \notin T
  BY <1>2
<1>4. QED BY <1>3

LEMMA Kinds ==
  /\ ~IsDict(Null) /\ ~IsText(Null) /\ ~IsDict(No) /\ ~IsText(No) /\ No # Null
  /\ \A w : IsText(Text(w)) /\ ~IsDict(Text(w)) /\ Text(w).text = w /\ Text(w) # Null
  /\ \A f : IsDict(Dict(f)) /\ ~IsText(Dict(f)) /\ Dict(f).dict = f /\ Dict(f) # Null
<1>1. DOMAIN Null = {"null"} /\ DOMAIN No = {"bool"}
  BY DEF Null, No
<1>2. \A w : DOMAIN Text(w) = {"text"} /\ Text(w).text = w
  BY DEF Text
<1>3. \A f : DOMAIN Dict(f) = {"dict"} /\ Dict(f).dict = f
  BY DEF Dict
<1>4. QED BY <1>1, <1>2, <1>3 DEF IsDict, IsText

\* s visits what lies at the first n parts of p in v.
Walk(v, p, s, n) == s[0] = v /\ \A k \in 1 .. n : s[k] = Field(s[k - 1], p[k])

LEMMA WalkExists ==
  ASSUME NEW v, NEW p, NEW n \in Nat
  PROVE  \E s : Walk(v, p, s, n)
<1> DEFINE S == {m \in Nat : \E s : Walk(v, p, s, m)}
<1>1. 0 \in S
  <2>1. Walk(v, p, [k \in {0} |-> v], 0)
    BY DEF Walk
  <2>2. QED BY <2>1
<1>2. ASSUME NEW m \in Nat, m \in S PROVE m + 1 \in S
  <2>1. PICK s : Walk(v, p, s, m)
    BY <1>2
  <2> DEFINE t == [k \in 0 .. m + 1 |-> IF k = m + 1 THEN Field(s[m], p[m + 1]) ELSE s[k]]
  <2>2. t[0] = v
    BY <2>1 DEF Walk
  <2>3. ASSUME NEW k \in 1 .. m + 1 PROVE t[k] = Field(t[k - 1], p[k])
    <3>1. CASE k = m + 1
      BY <3>1
    <3>2. CASE k # m + 1
      <4>1. k \in 1 .. m /\ t[k] = s[k] /\ t[k - 1] = s[k - 1]
        BY <3>2
      <4>2. QED BY <2>1, <4>1 DEF Walk
    <3>3. QED BY <3>1, <3>2
  <2> HIDE DEF t
  <2>4. Walk(v, p, t, m + 1)
    BY <2>2, <2>3 DEF Walk
  <2>5. QED BY <2>4
<1>3. Nat \subseteq S
  <2> HIDE DEF S
  <2>1. QED BY <1>1, <1>2, Induct
<1>4. n \in S
  BY <1>3
<1>5. QED BY <1>4

\* Two walks that meet go on together.
LEMMA WalksMeet ==
  ASSUME NEW v, NEW w, NEW p, NEW q, NEW s, NEW t, NEW n \in Nat, NEW m \in 0 .. n,
         Walk(v, p, s, n), Walk(w, q, t, n), s[m] = t[m], \A k \in 1 .. n : p[k] = q[k]
  PROVE  s[n] = t[n]
<1> DEFINE S == {k \in Nat : m <= k /\ k <= n => s[k] = t[k]}
<1>1. 0 \in S
  OBVIOUS
<1>2. ASSUME NEW k \in Nat, k \in S PROVE k + 1 \in S
  <2>1. SUFFICES ASSUME m <= k + 1, k + 1 <= n PROVE s[k + 1] = t[k + 1]
    OBVIOUS
  <2>2. CASE m = k + 1
    BY <2>2
  <2>3. CASE m <= k
    <3>1. s[k] = t[k] /\ k + 1 \in 1 .. n /\ (k + 1) - 1 = k
      BY <1>2, <2>1, <2>3
    <3>2. s[k + 1] = Field(s[k], p[k + 1]) /\ t[k + 1] = Field(t[k], q[k + 1])
      BY <3>1 DEF Walk
    <3>3. QED BY <3>1, <3>2
  <2>4. QED BY <2>1, <2>2, <2>3
<1>3. Nat \subseteq S
  <2> HIDE DEF S
  <2>1. QED BY <1>1, <1>2, Induct
<1>4. n \in S
  BY <1>3
<1>5. QED BY <1>4

LEMMA PathWalks ==
  ASSUME NEW v, NEW p \in Seq(STRING), NEW s, Walk(v, p, s, Len(p))
  PROVE  GetPath(v, p) = s[Len(p)]
<1> DEFINE body(r) == [k \in 0 .. Len(p) |-> IF k = 0 THEN v ELSE Field(r[k - 1], p[k])]
           c == CHOOSE r : r = body(r)
           t == [k \in 0 .. Len(p) |-> s[k]]
<1>1. Len(p) \in Nat
  OBVIOUS
<1>2. t = body(t)
  <2>1. ASSUME NEW k \in 0 .. Len(p)
        PROVE  t[k] = IF k = 0 THEN v ELSE Field(t[k - 1], p[k])
    <3>1. CASE k = 0
      BY <3>1 DEF Walk
    <3>2. CASE k # 0
      <4>1. k \in 1 .. Len(p) /\ k - 1 \in 0 .. Len(p)
        BY <1>1, <3>2
      <4>2. QED BY <3>2, <4>1 DEF Walk
    <3>3. QED BY <3>1, <3>2
  <2>2. QED BY <2>1
<1>3. c = body(c)
  BY <1>2
<1>4. GetPath(v, p) = c[Len(p)]
  BY DEF GetPath
<1> HIDE DEF c
<1>5. Walk(v, p, c, Len(p))
  <2>1. c[0] = v
    BY <1>1, <1>3
  <2>2. ASSUME NEW k \in 1 .. Len(p) PROVE c[k] = Field(c[k - 1], p[k])
    BY <1>1, <1>3
  <2>3. QED BY <2>1, <2>2 DEF Walk
<1>6. c[0] = s[0] /\ 0 \in 0 .. Len(p)
  BY <1>1, <1>5 DEF Walk
<1>7. c[Len(p)] = s[Len(p)]
  BY <1>1, <1>5, <1>6, WalksMeet
<1>8. QED BY <1>4, <1>7

\* One walk shows what is at a path and where the path begins.
LEMMA Along ==
  ASSUME NEW v, NEW p \in Seq(STRING)
  PROVE  \E s : /\ Walk(v, p, s, Len(p)) /\ GetPath(v, p) = s[Len(p)]
                /\ \A k \in 0 .. Len(p) : GetPath(v, SubSeq(p, 1, k)) = s[k]
<1>1. Len(p) \in Nat
  OBVIOUS
<1>2. PICK s : Walk(v, p, s, Len(p))
  BY <1>1, WalkExists
<1>3. ASSUME NEW k \in 0 .. Len(p) PROVE GetPath(v, SubSeq(p, 1, k)) = s[k]
  <2> DEFINE q == SubSeq(p, 1, k)
  <2>1. q \in Seq(STRING) /\ Len(q) = k /\ \A j \in 1 .. k : q[j] = p[j]
    BY <1>1
  <2> HIDE DEF q
  <2>2. Walk(v, q, s, Len(q))
    BY <1>1, <1>2, <2>1 DEF Walk
  <2>3. GetPath(v, q) = s[Len(q)]
    BY <2>1, <2>2, PathWalks
  <2>4. QED BY <2>1, <2>3 DEF q
<1>4. GetPath(v, p) = s[Len(p)]
  BY <1>2, PathWalks
<1>5. QED BY <1>2, <1>3, <1>4

LEMMA LevelIs ==
  ASSUME NEW v
  PROVE  /\ Level(v)[0] = {v}
         /\ \A d \in 1 .. Depth : Level(v)[d] = UNION {Children(u) : u \in Level(v)[d - 1]}
<1> DEFINE Below(X) == UNION {Children(u) : u \in X}
           body(r) == [d \in 0 .. Depth |-> IF d = 0 THEN {v} ELSE Below(r[d - 1])]
           c == CHOOSE r : r = body(r)
           Good(r, n) == r[0] = {v} /\ \A d \in 1 .. n : r[d] = Below(r[d - 1])
           S == {n \in Nat : \E r : Good(r, n)}
<1>1. Depth \in Nat
  BY ConfigAssumption
<1>2. 0 \in S
  <2>1. Good([d \in {0} |-> {v}], 0)
    OBVIOUS
  <2>2. QED BY <2>1
<1>3. ASSUME NEW n \in Nat, n \in S PROVE n + 1 \in S
  <2>1. PICK r : Good(r, n)
    BY <1>3
  <2> DEFINE q == [d \in 0 .. n + 1 |-> IF d = n + 1 THEN Below(r[n]) ELSE r[d]]
  <2>2. q[0] = {v}
    BY <2>1
  <2>3. ASSUME NEW d \in 1 .. n + 1 PROVE q[d] = Below(q[d - 1])
    <3> HIDE DEF Below
    <3>1. CASE d = n + 1
      BY <3>1
    <3>2. CASE d # n + 1
      <4>1. d \in 1 .. n /\ q[d] = r[d] /\ q[d - 1] = r[d - 1]
        BY <3>2
      <4>2. QED BY <2>1, <4>1
    <3>3. QED BY <3>1, <3>2
  <2> HIDE DEF q, Below
  <2>4. Good(q, n + 1)
    BY <2>2, <2>3
  <2>5. QED BY <2>4
<1>4. Depth \in S
  <2> HIDE DEF S
  <2>1. Nat \subseteq S
    BY <1>2, <1>3, Induct
  <2>2. QED BY <1>1, <2>1
<1>5. PICK r : Good(r, Depth)
  BY <1>4
<1> DEFINE t == [d \in 0 .. Depth |-> r[d]]
<1>6. t = body(t)
  <2> HIDE DEF Below
  <2>1. ASSUME NEW d \in 0 .. Depth
        PROVE  t[d] = IF d = 0 THEN {v} ELSE Below(t[d - 1])
    <3>1. CASE d = 0
      BY <1>5, <3>1
    <3>2. CASE d # 0
      <4>1. d \in 1 .. Depth /\ d - 1 \in 0 .. Depth
        BY <1>1, <3>2
      <4>2. QED BY <1>5, <3>2, <4>1
    <3>3. QED BY <3>1, <3>2
  <2>2. QED BY <2>1
<1>7. c = body(c)
  <2> HIDE DEF t
  <2>1. \E x : x = body(x)
    BY <1>6
  <2> HIDE DEF body
  <2>2. QED BY <2>1
<1>8. Level(v) = c
  BY DEF Level
<1> HIDE DEF c, Below
<1>9. c[0] = {v}
  BY <1>1, <1>7
<1>10. \A d \in 1 .. Depth : c[d] = Below(c[d - 1])
  <2>1. ASSUME NEW d \in 1 .. Depth PROVE c[d] = Below(c[d - 1])
    <3>1. d \in 0 .. Depth /\ d # 0
      BY <1>1
    <3>2. c[d] = body(c)[d]
      BY <1>7
    <3> HIDE <1>7
    <3>3. QED BY <3>1, <3>2
  <2>2. QED BY <2>1
<1>11. QED BY <1>8, <1>9, <1>10 DEF Below

Finite(v) == Level(v)[Depth] = {}

\* A node's children are nodes, one level further down.
LEMMA NodesClosed ==
  ASSUME NEW v, Finite(v)
  PROVE  /\ v \in Nodes(v)
         /\ \A d \in 0 .. Depth : \A u \in Level(v)[d] :
              /\ u \in Nodes(v)
              /\ d < Depth
              /\ Children(u) \subseteq Level(v)[d + 1]
         /\ \A u \in Nodes(v) : Children(u) \subseteq Nodes(v)
<1>1. Depth \in Nat
  BY ConfigAssumption
<1>2. ASSUME NEW d \in 0 .. Depth, NEW u \in Level(v)[d]
      PROVE  u \in Nodes(v) /\ d < Depth /\ Children(u) \subseteq Level(v)[d + 1]
  <2>1. u \in Nodes(v)
    BY DEF Nodes
  <2>2. d < Depth
    BY <1>1 DEF Finite
  <2>3. d + 1 \in 1 .. Depth /\ (d + 1) - 1 = d
    BY <1>1, <2>2
  <2>4. Level(v)[d + 1] = UNION {Children(w) : w \in Level(v)[d]}
    BY <2>3, LevelIs
  <2>5. QED BY <2>1, <2>2, <2>4
<1>3. v \in Nodes(v)
  <2>1. 0 \in 0 .. Depth /\ v \in Level(v)[0]
    BY <1>1, LevelIs
  <2>2. QED BY <1>2, <2>1
<1>4. ASSUME NEW u \in Nodes(v) PROVE Children(u) \subseteq Nodes(v)
  <2>1. PICK d \in 0 .. Depth : u \in Level(v)[d]
    BY DEF Nodes
  <2>2. d + 1 \in 0 .. Depth /\ Children(u) \subseteq Level(v)[d + 1]
    BY <1>1, <1>2, <2>1
  <2>3. QED BY <2>2 DEF Nodes
<1>5. QED BY <1>2, <1>3, <1>4

LEMMA FieldIsChild ==
  ASSUME NEW u, NEW k
  PROVE  /\ Field(u, k) = Null \/ Field(u, k) \in Children(u)
         /\ IsDict(u) /\ k \in DOMAIN u.dict => u.dict[k] \in Children(u)
BY DEF Field, Children
-------------------------------------------------------------------------------
(***************************************************************************)
(* Interpolation.                                                          *)
(***************************************************************************)
ValueOf(f, u) ==
  IF IsDict(u) THEN Dict([k \in DOMAIN u.dict |-> f[u.dict[k]]])
  ELSE IF Resolves(u) THEN Text(Tokens[u.text]) ELSE u

\* It takes no more of f than what f makes of the children.
LEMMA SameChildren ==
  ASSUME NEW f, NEW g, NEW u, \A x \in Children(u) : f[x] = g[x]
  PROVE  ValueOf(f, u) = ValueOf(g, u)
<1>1. CASE IsDict(u)
  <2>1. \A k \in DOMAIN u.dict : f[u.dict[k]] = g[u.dict[k]]
    BY <1>1 DEF Children
  <2>2. [k \in DOMAIN u.dict |-> f[u.dict[k]]] = [k \in DOMAIN u.dict |-> g[u.dict[k]]]
    BY <2>1
  <2>3. QED BY <2>2 DEF ValueOf
<1>2. CASE ~IsDict(u)
  BY <1>2 DEF ValueOf
<1>3. QED BY <1>1, <1>2

LEMMA InterpolateIs ==
  ASSUME NEW v, Finite(v)
  PROVE  \E f : Interpolate(v) = f[v] /\ \A u \in Nodes(v) : f[u] = ValueOf(f, u)
<1> DEFINE Good(f, m) == \A d \in 0 .. Depth : d >= Depth - m =>
                           \A u \in Level(v)[d] : f[u] = ValueOf(f, u)
           S == {m \in Nat : m <= Depth => \E f : Good(f, m)}
           body(f) == [u \in Nodes(v) |-> ValueOf(f, u)]
           c == CHOOSE f : f = body(f)
<1>1. Depth \in Nat
  BY ConfigAssumption
<1>2. 0 \in S
  <2>1. Good([u \in {} |-> u], 0)
    BY <1>1 DEF Finite
  <2>2. QED BY <2>1
<1>3. ASSUME NEW m \in Nat, m \in S PROVE m + 1 \in S
  <2>1. SUFFICES ASSUME m + 1 <= Depth PROVE \E f : Good(f, m + 1)
    OBVIOUS
  <2>2. PICK f : Good(f, m)
    BY <1>1, <1>3, <2>1
  <2> DEFINE e == Depth - (m + 1)
             g == [u \in Nodes(v) |-> IF u \in Level(v)[e] THEN ValueOf(f, u) ELSE f[u]]
  <2>3. e \in 0 .. Depth /\ e + 1 = Depth - m
    BY <1>1, <2>1
  <2>4. ASSUME NEW d \in 0 .. Depth, d >= Depth - m, NEW u \in Level(v)[d]
        PROVE  u \in Nodes(v) /\ g[u] = f[u] /\ f[u] = ValueOf(f, u)
    <3>1. f[u] = ValueOf(f, u)
      BY <2>2, <2>4
    <3>2. u \in Nodes(v)
      BY NodesClosed
    <3>3. QED BY <3>1, <3>2
  <2>5. ASSUME NEW d \in 0 .. Depth, d >= e, NEW u \in Level(v)[d]
        PROVE  g[u] = ValueOf(g, u)
    <3>1. u \in Nodes(v) /\ d + 1 \in 0 .. Depth /\ Children(u) \subseteq Level(v)[d + 1]
      BY <1>1, NodesClosed
    <3>2. d + 1 >= Depth - m
      BY <1>1, <2>3, <2>5
    <3>3. \A x \in Children(u) : f[x] = g[x]
      BY <2>4, <3>1, <3>2
    <3>4. g[u] = ValueOf(f, u)
      <4>1. CASE d = e
        BY <3>1, <4>1
      <4>2. CASE d # e
        <5>1. d >= Depth - m
          BY <1>1, <2>3, <2>5, <4>2
        <5> HIDE DEF g
        <5>2. QED BY <2>4, <5>1
      <4>3. QED BY <4>1, <4>2
    <3> HIDE DEF g
    <3>5. QED BY <3>3, <3>4, SameChildren
  <2> HIDE DEF g, e
  <2>6. Good(g, m + 1)
    BY <2>5 DEF e
  <2>7. QED BY <2>6
<1>4. Depth \in S
  <2> HIDE DEF S
  <2>1. Nat \subseteq S
    BY <1>2, <1>3, Induct
  <2>2. QED BY <1>1, <2>1
<1>5. PICK f : Good(f, Depth)
  BY <1>1, <1>4
<1>6. ASSUME NEW u \in Nodes(v) PROVE f[u] = ValueOf(f, u)
  <2>1. PICK d \in 0 .. Depth : u \in Level(v)[d]
    BY DEF Nodes
  <2>2. QED BY <1>1, <1>5, <2>1
<1> DEFINE t == [u \in Nodes(v) |-> f[u]]
<1>7. t = body(t)
  <2>1. ASSUME NEW u \in Nodes(v) PROVE t[u] = ValueOf(t, u)
    <3>1. \A x \in Children(u) : f[x] = t[x]
      BY NodesClosed
    <3>2. t[u] = ValueOf(f, u)
      BY <1>6
    <3> HIDE DEF t
    <3>3. QED BY <3>1, <3>2, SameChildren
  <2> HIDE DEF t
  <2>2. t = [u \in Nodes(v) |-> t[u]]
    BY DEF t
  <2>3. QED BY <2>1, <2>2
<1>8. c = body(c)
  <2> HIDE DEF t
  <2>1. \E x : x = body(x)
    BY <1>7
  <2> HIDE DEF body
  <2>2. QED BY <2>1
<1>9. Interpolate(v) = c[v]
  BY DEF Interpolate, ValueOf
<1> HIDE DEF c
<1>10. \A u \in Nodes(v) : c[u] = ValueOf(c, u)
  <2>1. ASSUME NEW u \in Nodes(v) PROVE c[u] = ValueOf(c, u)
    <3>1. c[u] = body(c)[u]
      BY <1>8
    <3> HIDE <1>8
    <3>2. QED BY <3>1
  <2>2. QED BY <2>1
<1>11. QED BY <1>9, <1>10

\* Interpolation looks the same from inside a dict.
LEMMA FieldOfValue ==
  ASSUME NEW f, NEW u, NEW k, f[u] = ValueOf(f, u), IsDict(u)
  PROVE  /\ IsDict(f[u]) /\ DOMAIN f[u].dict = DOMAIN u.dict
         /\ Field(f[u], k) = IF k \in DOMAIN u.dict THEN f[u.dict[k]] ELSE Null
<1>1. f[u] = Dict([x \in DOMAIN u.dict |-> f[u.dict[x]]])
  BY DEF ValueOf
<1>3. IsDict(f[u]) /\ f[u].dict = [x \in DOMAIN u.dict |-> f[u.dict[x]]]
  BY <1>1, Kinds
<1>4. QED BY <1>3 DEF Field

LEMMA NoDictBefore ==
  ASSUME NEW f, NEW u, f[u] = ValueOf(f, u), ~IsDict(u)
  PROVE  ~IsDict(f[u])
BY Kinds DEF ValueOf

\* It nests no deeper than what it is made from.
LEMMA InterpolateIsFinite ==
  ASSUME NEW v, Finite(v)
  PROVE  Finite(Interpolate(v))
<1>1. PICK f : Interpolate(v) = f[v] /\ \A u \in Nodes(v) : f[u] = ValueOf(f, u)
  BY InterpolateIs
<1> DEFINE w == Interpolate(v)
           S == {d \in Nat : d <= Depth => Level(w)[d] \subseteq {f[u] : u \in Level(v)[d]}}
<1>2. Depth \in Nat
  BY ConfigAssumption
<1>3. 0 \in S
  BY <1>1, LevelIs
<1>4. ASSUME NEW d \in Nat, d \in S PROVE d + 1 \in S
  <2>1. SUFFICES ASSUME d + 1 <= Depth, NEW y \in Level(w)[d + 1]
                 PROVE  y \in {f[u] : u \in Level(v)[d + 1]}
    OBVIOUS
  <2>2. d + 1 \in 1 .. Depth /\ (d + 1) - 1 = d /\ d \in 0 .. Depth
    BY <1>2, <2>1
  <2>3. PICK x \in Level(w)[d] : y \in Children(x)
    <3>1. Level(w)[d + 1] = UNION {Children(u) : u \in Level(w)[d]}
      BY <2>2, LevelIs
    <3>2. QED BY <2>1, <3>1
  <2>4. PICK u \in Level(v)[d] : x = f[u]
    BY <1>2, <1>4, <2>1, <2>3
  <2>5. f[u] = ValueOf(f, u) /\ Children(u) \subseteq Level(v)[d + 1]
    BY <1>1, <2>2, <2>4, NodesClosed
  <2>6. IsDict(u)
    BY <2>3, <2>4, <2>5, NoDictBefore DEF Children
  <2>7. PICK k \in DOMAIN x.dict : y = x.dict[k]
    BY <2>3 DEF Children
  <2>8. IsDict(x) /\ k \in DOMAIN u.dict /\ Field(x, k) = f[u.dict[k]]
    BY <2>4, <2>5, <2>6, <2>7, FieldOfValue
  <2>9. y = f[u.dict[k]] /\ u.dict[k] \in Level(v)[d + 1]
    BY <2>5, <2>6, <2>7, <2>8, FieldIsChild DEF Field
  <2>10. QED BY <2>9
<1>5. Depth \in S
  <2> HIDE DEF S
  <2>1. Nat \subseteq S
    BY <1>3, <1>4, Induct
  <2>2. QED BY <1>2, <2>1
<1>6. Level(w)[Depth] \subseteq {f[u] : u \in Level(v)[Depth]}
  BY <1>2, <1>5
<1>7. Level(v)[Depth] = {}
  BY DEF Finite
<1>8. QED BY <1>6, <1>7 DEF Finite

\* What a token at p resolves to is at p.
LEMMA TokenAt ==
  ASSUME NEW v, Finite(v), NEW p \in Seq(STRING), Resolves(GetPath(v, p))
  PROVE  GetPath(Interpolate(v), p) = Text(Tokens[GetPath(v, p).text])
<1>1. PICK f : Interpolate(v) = f[v] /\ \A u \in Nodes(v) : f[u] = ValueOf(f, u)
  BY InterpolateIs
<1>2. PICK s : Walk(v, p, s, Len(p)) /\ GetPath(v, p) = s[Len(p)]
  BY Along
<1>3. PICK t : Walk(Interpolate(v), p, t, Len(p)) /\ GetPath(Interpolate(v), p) = t[Len(p)]
  BY Along
<1> DEFINE S == {k \in Nat : k <= Len(p) /\ s[k] # Null => s[k] \in Nodes(v) /\ t[k] = f[s[k]]}
<1>4. 0 \in S
  BY <1>1, <1>2, <1>3, NodesClosed DEF Walk
<1>5. ASSUME NEW k \in Nat, k \in S PROVE k + 1 \in S
  <2>1. SUFFICES ASSUME k + 1 <= Len(p), s[k + 1] # Null
                 PROVE  s[k + 1] \in Nodes(v) /\ t[k + 1] = f[s[k + 1]]
    OBVIOUS
  <2>2. Len(p) \in Nat /\ k + 1 \in 1 .. Len(p) /\ (k + 1) - 1 = k /\ k <= Len(p)
    BY <2>1
  <2>3. s[k + 1] = Field(s[k], p[k + 1]) /\ t[k + 1] = Field(t[k], p[k + 1])
    BY <1>2, <1>3, <2>2 DEF Walk
  <2>4. IsDict(s[k]) /\ p[k + 1] \in DOMAIN s[k].dict /\ s[k + 1] = s[k].dict[p[k + 1]]
    BY <2>1, <2>3 DEF Field
  <2>5. s[k] \in Nodes(v) /\ t[k] = f[s[k]]
    BY <1>5, <2>2, <2>4, Kinds
  <2>6. f[s[k]] = ValueOf(f, s[k])
    BY <1>1, <2>5
  <2>7. Field(f[s[k]], p[k + 1]) = f[s[k].dict[p[k + 1]]]
    <3> DEFINE u == s[k]
               a == p[k + 1]
    <3>1. IsDict(u) /\ f[u] = ValueOf(f, u) /\ a \in DOMAIN u.dict
      BY <2>4, <2>6
    <3> HIDE DEF u, a
    <3>2. Field(f[u], a) = f[u.dict[a]]
      BY <3>1, FieldOfValue
    <3>3. QED BY <3>2 DEF u, a
  <2>8. s[k + 1] \in Children(s[k])
    BY <2>4, FieldIsChild
  <2>9. QED BY <2>3, <2>4, <2>5, <2>7, <2>8, NodesClosed
<1>6. Len(p) \in S
  <2> HIDE DEF S
  <2>1. Nat \subseteq S
    BY <1>4, <1>5, Induct
  <2>2. QED BY <2>1
<1> DEFINE own == s[Len(p)]
<1>7. Resolves(own) /\ own # Null
  BY <1>2, Kinds DEF Resolves
<1>8. own \in Nodes(v) /\ t[Len(p)] = f[own]
  BY <1>6, <1>7
<1>9. f[own] = ValueOf(f, own)
  BY <1>1, <1>8
<1>10. ValueOf(f, own) = Text(Tokens[own.text])
  BY <1>7 DEF ValueOf, Resolves, IsText, IsDict
<1>11. QED BY <1>2, <1>3, <1>8, <1>9, <1>10
-------------------------------------------------------------------------------
(***************************************************************************)
(* Merging.                                                                *)
(***************************************************************************)
MergeOf(f, b, o) ==
  IF IsDict(b) /\ IsDict(o)
    THEN Dict([k \in DOMAIN b.dict \cup DOMAIN o.dict |->
               IF k \notin DOMAIN o.dict THEN b.dict[k]
               ELSE IF k \notin DOMAIN b.dict THEN o.dict[k]
               ELSE f[<<b.dict[k], o.dict[k]>>]])
    ELSE IF o # Null THEN o ELSE b

LEMMA SamePairs ==
  ASSUME NEW f, NEW g, NEW b, NEW o,
         \A x \in Children(b) : \A y \in Children(o) : f[<<x, y>>] = g[<<x, y>>]
  PROVE  MergeOf(f, b, o) = MergeOf(g, b, o)
<1>1. CASE IsDict(b) /\ IsDict(o)
  <2> DEFINE m(h) == [k \in DOMAIN b.dict \cup DOMAIN o.dict |->
                        IF k \notin DOMAIN o.dict THEN b.dict[k]
                        ELSE IF k \notin DOMAIN b.dict THEN o.dict[k]
                        ELSE h[<<b.dict[k], o.dict[k]>>]]
  <2>1. ASSUME NEW k \in DOMAIN b.dict, k \in DOMAIN o.dict
        PROVE  f[<<b.dict[k], o.dict[k]>>] = g[<<b.dict[k], o.dict[k]>>]
    BY <1>1, <2>1, FieldIsChild
  <2>2. m(f) = m(g)
    BY <2>1
  <2>3. MergeOf(f, b, o) = Dict(m(f)) /\ MergeOf(g, b, o) = Dict(m(g))
    BY <1>1 DEF MergeOf
  <2> HIDE DEF m
  <2>4. QED BY <2>2, <2>3
<1>2. CASE ~(IsDict(b) /\ IsDict(o))
  BY <1>2 DEF MergeOf
<1>3. QED BY <1>1, <1>2

LEMMA MergeIs ==
  ASSUME NEW base, NEW override, Finite(base), Finite(override)
  PROVE  \E f : /\ DeepMerge(base, override) = f[<<base, override>>]
                /\ \A b \in Nodes(base) : \A o \in Nodes(override) :
                     f[<<b, o>>] = MergeOf(f, b, o)
<1> DEFINE Pairs == Nodes(base) \X Nodes(override)
           Good(f, m) == \A d \in 0 .. Depth : d >= Depth - m =>
                           \A b \in Level(base)[d] : \A o \in Nodes(override) :
                             f[<<b, o>>] = MergeOf(f, b, o)
           S == {m \in Nat : m <= Depth => \E f : Good(f, m)}
           body(f) == [x \in Pairs |-> MergeOf(f, x[1], x[2])]
           c == CHOOSE f : f = body(f)
<1>1. Depth \in Nat
  BY ConfigAssumption
<1>2. 0 \in S
  <2>1. Good([x \in {} |-> x], 0)
    BY <1>1 DEF Finite
  <2>2. QED BY <2>1
<1>3. ASSUME NEW m \in Nat, m \in S PROVE m + 1 \in S
  <2>1. SUFFICES ASSUME m + 1 <= Depth PROVE \E f : Good(f, m + 1)
    OBVIOUS
  <2>2. PICK f : Good(f, m)
    <3>1. m <= Depth
      BY <1>1, <2>1
    <3> HIDE DEF Good
    <3>2. QED BY <1>3, <3>1
  <2> DEFINE e == Depth - (m + 1)
             g == [x \in Pairs |-> IF x[1] \in Level(base)[e] THEN MergeOf(f, x[1], x[2])
                                                               ELSE f[x]]
  <2>3. e \in 0 .. Depth /\ e + 1 = Depth - m
    BY <1>1, <2>1
  <2>4. ASSUME NEW d \in 0 .. Depth, d >= Depth - m, NEW b \in Level(base)[d],
               NEW o \in Nodes(override)
        PROVE  /\ <<b, o>> \in Pairs /\ g[<<b, o>>] = f[<<b, o>>]
               /\ f[<<b, o>>] = MergeOf(f, b, o)
    <3>1. f[<<b, o>>] = MergeOf(f, b, o)
      BY <2>2, <2>4
    <3>2. b \in Nodes(base)
      BY NodesClosed
    <3>3. <<b, o>> \in Pairs /\ <<b, o>>[1] = b /\ <<b, o>>[2] = o
      BY <3>2
    <3>4. QED BY <3>1, <3>3
  <2>5. ASSUME NEW d \in 0 .. Depth, d >= e, NEW b \in Level(base)[d], NEW o \in Nodes(override)
        PROVE  g[<<b, o>>] = MergeOf(g, b, o)
    <3>1. b \in Nodes(base) /\ d + 1 \in 0 .. Depth /\ Children(b) \subseteq Level(base)[d + 1]
      BY <1>1, NodesClosed
    <3>2. Children(o) \subseteq Nodes(override) /\ d + 1 >= Depth - m
      BY <1>1, <2>3, <2>5, NodesClosed
    <3>3. \A x \in Children(b) : \A y \in Children(o) : f[<<x, y>>] = g[<<x, y>>]
      <4> HIDE DEF g
      <4>1. QED BY <2>4, <3>1, <3>2
    <3>4. g[<<b, o>>] = MergeOf(f, b, o)
      <4>1. CASE d = e
        <5>1. <<b, o>> \in Pairs /\ <<b, o>>[1] = b /\ <<b, o>>[2] = o
          BY <3>1
        <5>2. QED BY <4>1, <5>1
      <4>2. CASE d # e
        <5>1. d >= Depth - m
          BY <1>1, <2>3, <2>5, <4>2
        <5> HIDE DEF g
        <5>2. QED BY <2>4, <5>1
      <4>3. QED BY <4>1, <4>2
    <3> HIDE DEF g
    <3>5. QED BY <3>3, <3>4, SamePairs
  <2> HIDE DEF g, e
  <2>6. Good(g, m + 1)
    BY <2>5 DEF e
  <2>7. QED BY <2>6
<1>4. Depth \in S
  <2> HIDE DEF S
  <2>1. Nat \subseteq S
    BY <1>2, <1>3, Induct
  <2>2. QED BY <1>1, <2>1
<1>5. PICK f : Good(f, Depth)
  BY <1>1, <1>4
<1>6. ASSUME NEW b \in Nodes(base), NEW o \in Nodes(override) PROVE f[<<b, o>>] = MergeOf(f, b, o)
  <2>1. PICK d \in 0 .. Depth : b \in Level(base)[d]
    BY DEF Nodes
  <2>2. QED BY <1>1, <1>5, <2>1
<1> DEFINE t == [x \in Pairs |-> f[x]]
<1>7. t = body(t)
  <2>1. ASSUME NEW x \in Pairs PROVE t[x] = MergeOf(t, x[1], x[2])
    <3>1. PICK b \in Nodes(base), o \in Nodes(override) : x = <<b, o>>
      BY <2>1
    <3>2. Children(b) \subseteq Nodes(base) /\ Children(o) \subseteq Nodes(override)
      BY NodesClosed
    <3>3. \A y \in Children(b) : \A z \in Children(o) : f[<<y, z>>] = t[<<y, z>>]
      BY <3>2
    <3>4. t[x] = MergeOf(f, b, o) /\ x[1] = b /\ x[2] = o
      BY <1>6, <3>1
    <3> HIDE DEF t
    <3>5. QED BY <3>3, <3>4, SamePairs
  <2> HIDE DEF t
  <2>2. t = [x \in Pairs |-> t[x]]
    BY DEF t
  <2>3. QED BY <2>1, <2>2
<1>8. c = body(c)
  <2> HIDE DEF t
  <2>1. \E x : x = body(x)
    BY <1>7
  <2> HIDE DEF body
  <2>2. QED BY <2>1
<1>9. DeepMerge(base, override) = c[<<base, override>>]
  BY DEF DeepMerge, MergeOf
<1> HIDE DEF c
<1>10. ASSUME NEW b \in Nodes(base), NEW o \in Nodes(override)
       PROVE  c[<<b, o>>] = MergeOf(c, b, o)
  <2> DEFINE x == <<b, o>>
  <2>1. x \in Pairs /\ x[1] = b /\ x[2] = o
    OBVIOUS
  <2> HIDE DEF x
  <2>2. c[x] = body(c)[x]
    BY <1>8
  <2> HIDE <1>8
  <2>3. QED BY <2>1, <2>2 DEF x
<1>11. QED BY <1>9, <1>10

\* Place by place: unless the override says something there that is no dict.
LEMMA FieldOfMerge ==
  ASSUME NEW base, NEW override, NEW f,
         \A b \in Nodes(base) : \A o \in Nodes(override) : f[<<b, o>>] = MergeOf(f, b, o),
         Finite(base), Finite(override),
         NEW b \in Nodes(base) \cup {Null}, NEW o \in Nodes(override) \cup {Null}, ~Explicit(o),
         NEW k
  PROVE  /\ Field(MergeOf(f, b, o), k) = MergeOf(f, Field(b, k), Field(o, k))
         /\ Field(b, k) \in Nodes(base) \cup {Null}
         /\ Field(o, k) \in Nodes(override) \cup {Null}
<1>1. Field(b, k) \in Nodes(base) \cup {Null} /\ Field(o, k) \in Nodes(override) \cup {Null}
  BY FieldIsChild, FieldOfNull, NodesClosed
<1>2. \A x : MergeOf(f, x, Null) = x /\ MergeOf(f, Null, x) = x
  BY Kinds DEF MergeOf
<1>3. CASE IsDict(b) /\ IsDict(o)
  <2> DEFINE m == [j \in DOMAIN b.dict \cup DOMAIN o.dict |->
                     IF j \notin DOMAIN o.dict THEN b.dict[j]
                     ELSE IF j \notin DOMAIN b.dict THEN o.dict[j]
                     ELSE f[<<b.dict[j], o.dict[j]>>]]
  <2>1. MergeOf(f, b, o) = Dict(m)
    BY <1>3 DEF MergeOf
  <2>2. Field(MergeOf(f, b, o), k) =
          IF k \in DOMAIN b.dict \cup DOMAIN o.dict
            THEN IF k \notin DOMAIN o.dict THEN b.dict[k]
                 ELSE IF k \notin DOMAIN b.dict THEN o.dict[k]
                 ELSE f[<<b.dict[k], o.dict[k]>>]
            ELSE Null
    <3>1. DOMAIN m = DOMAIN b.dict \cup DOMAIN o.dict
      OBVIOUS
    <3>2. Field(MergeOf(f, b, o), k) = IF k \in DOMAIN m THEN m[k] ELSE Null
      BY <2>1, Kinds DEF Field
    <3>3. QED BY <3>1, <3>2
  <2> HIDE DEF m
  <2>3. CASE k \in DOMAIN b.dict /\ k \in DOMAIN o.dict
    <3>1. Field(b, k) = b.dict[k] /\ Field(o, k) = o.dict[k]
      BY <1>3, <2>3 DEF Field
    <3>2. b.dict[k] \in Children(b) /\ o.dict[k] \in Children(o)
      BY <1>3, <2>3, FieldIsChild
    <3>3. b # Null /\ o # Null
      BY <1>3, Kinds
    <3>4. b.dict[k] \in Nodes(base) /\ o.dict[k] \in Nodes(override)
      BY <3>2, <3>3, NodesClosed
    <3>5. f[<<b.dict[k], o.dict[k]>>] = MergeOf(f, b.dict[k], o.dict[k])
      BY <3>4
    <3>6. QED BY <1>1, <2>2, <2>3, <3>1, <3>5
  <2>4. CASE k \notin DOMAIN o.dict
    <3>1. Field(o, k) = Null /\ Field(b, k) = IF k \in DOMAIN b.dict THEN b.dict[k] ELSE Null
      BY <1>3, <2>4 DEF Field
    <3>2. QED BY <1>1, <1>2, <2>2, <2>4, <3>1
  <2>5. CASE k \in DOMAIN o.dict /\ k \notin DOMAIN b.dict
    <3>1. Field(b, k) = Null /\ Field(o, k) = o.dict[k]
      BY <1>3, <2>5 DEF Field
    <3>2. QED BY <1>1, <1>2, <2>2, <2>5, <3>1
  <2>6. QED BY <2>3, <2>4, <2>5
<1>4. CASE ~IsDict(b) /\ IsDict(o)
  <2>1. MergeOf(f, b, o) = o
    BY <1>4, Kinds DEF MergeOf
  <2>2. Field(b, k) = Null
    BY <1>4 DEF Field
  <2>3. QED BY <1>1, <1>2, <2>1, <2>2
<1>5. CASE ~IsDict(o)
  <2>1. o = Null
    BY <1>5 DEF Explicit
  <2>2. QED BY <1>1, <1>2, <2>1, FieldOfNull
<1>6. QED BY <1>3, <1>4, <1>5

LEMMA MergeByPrecedence ==
  ASSUME NEW base, NEW override, Finite(base), Finite(override), NEW p \in Seq(STRING)
  PROVE  LET own     == GetPath(override, p)
             default == GetPath(base, p)
             result  == GetPath(DeepMerge(base, override), p)
         IN /\ Explicit(own) => result = own
            /\ Omitted(override, p) => result = default
            /\ Explicit(result) => result \in {own, default}
<1>1. PICK f : /\ DeepMerge(base, override) = f[<<base, override>>]
               /\ \A b \in Nodes(base) : \A o \in Nodes(override) : f[<<b, o>>] = MergeOf(f, b, o)
  BY MergeIs
<1>2. PICK s : Walk(base, p, s, Len(p)) /\ GetPath(base, p) = s[Len(p)]
  BY Along
<1>3. PICK t : /\ Walk(override, p, t, Len(p)) /\ GetPath(override, p) = t[Len(p)]
               /\ \A k \in 0 .. Len(p) : GetPath(override, SubSeq(p, 1, k)) = t[k]
  BY Along
<1>4. PICK w : /\ Walk(DeepMerge(base, override), p, w, Len(p))
               /\ GetPath(DeepMerge(base, override), p) = w[Len(p)]
  BY Along
<1> DEFINE Merged(k) == /\ s[k] \in Nodes(base) \cup {Null}
                        /\ t[k] \in Nodes(override) \cup {Null}
                        /\ w[k] = MergeOf(f, s[k], t[k])
           Ended(k) == /\ t[k] = Null /\ w[k] = Null
                       /\ \E j \in 0 .. Len(p) : Explicit(t[j])
           S == {k \in Nat : k <= Len(p) => Merged(k) \/ Ended(k)}
<1>5. Len(p) \in Nat
  OBVIOUS
<1>6. 0 \in S
  <2>1. s[0] = base /\ t[0] = override /\ w[0] = DeepMerge(base, override)
    BY <1>2, <1>3, <1>4 DEF Walk
  <2>2. base \in Nodes(base) /\ override \in Nodes(override)
    BY NodesClosed
  <2>3. Merged(0)
    BY <1>1, <2>1, <2>2
  <2>4. QED BY <2>3
<1>7. ASSUME NEW k \in Nat, k \in S PROVE k + 1 \in S
  <2>1. SUFFICES ASSUME k + 1 <= Len(p) PROVE Merged(k + 1) \/ Ended(k + 1)
    OBVIOUS
  <2>2. k + 1 \in 1 .. Len(p) /\ (k + 1) - 1 = k /\ k \in 0 .. Len(p) /\ k <= Len(p)
    BY <1>5, <2>1
  <2>3. /\ s[k + 1] = Field(s[k], p[k + 1])
        /\ t[k + 1] = Field(t[k], p[k + 1])
        /\ w[k + 1] = Field(w[k], p[k + 1])
    BY <1>2, <1>3, <1>4, <2>2 DEF Walk
  <2>4. CASE Merged(k) /\ ~Explicit(t[k])
    <3> DEFINE b == s[k]
               o == t[k]
               a == p[k + 1]
    <3>1. b \in Nodes(base) \cup {Null} /\ o \in Nodes(override) \cup {Null} /\ ~Explicit(o)
      BY <2>4
    <3> HIDE DEF b, o, a
    <3>2. /\ Field(MergeOf(f, b, o), a) = MergeOf(f, Field(b, a), Field(o, a))
          /\ Field(b, a) \in Nodes(base) \cup {Null}
          /\ Field(o, a) \in Nodes(override) \cup {Null}
      BY <1>1, <3>1, FieldOfMerge
    <3>3. w[k] = MergeOf(f, b, o)
      BY <2>4 DEF b, o
    <3>4. s[k + 1] = Field(b, a) /\ t[k + 1] = Field(o, a) /\ w[k + 1] = Field(w[k], a)
      BY <2>3 DEF b, o, a
    <3>5. Merged(k + 1)
      BY <3>2, <3>3, <3>4
    <3>6. QED BY <3>5
  <2>5. CASE Merged(k) /\ Explicit(t[k])
    <3>1. w[k] = t[k] /\ ~IsDict(t[k])
      BY <2>5 DEF MergeOf, Explicit
    <3>2. t[k + 1] = Null /\ w[k + 1] = Null
      BY <2>3, <3>1 DEF Field
    <3>3. QED BY <2>2, <2>5, <3>2
  <2>6. CASE Ended(k)
    <3>1. t[k + 1] = Null /\ w[k + 1] = Null
      BY <2>3, <2>6, FieldOfNull
    <3>2. QED BY <2>6, <3>1
  <2>7. QED BY <1>7, <2>2, <2>4, <2>5, <2>6
<1>8. Len(p) \in S
  <2> HIDE DEF S
  <2>1. Nat \subseteq S
    BY <1>6, <1>7, Induct
  <2>2. QED BY <1>5, <2>1
<1> DEFINE own     == t[Len(p)]
           default == s[Len(p)]
           result  == w[Len(p)]
<1>9. CASE Merged(Len(p))
  <2>1. result = MergeOf(f, default, own)
    BY <1>9
  <2> HIDE DEF own, default, result
  <2>2. Explicit(own) => result = own
    BY <2>1 DEF Explicit, MergeOf
  <2>3. own = Null => result = default
    BY <2>1, Kinds DEF MergeOf
  <2>4. Explicit(result) => result \in {own, default}
    BY <2>1, Kinds DEF Explicit, MergeOf
  <2>5. Omitted(override, p) => own = Null
    BY <1>3 DEF Omitted, own
  <2>6. QED BY <1>2, <1>3, <1>4, <2>2, <2>3, <2>4, <2>5 DEF own, default, result
<1>10. CASE Ended(Len(p))
  <2>1. own = Null /\ result = Null
    BY <1>10
  <2>2. ~Omitted(override, p)
    BY <1>3, <1>10 DEF Omitted
  <2>3. ~Explicit(own) /\ ~Explicit(result)
    BY <2>1 DEF Explicit
  <2>4. QED BY <1>3, <1>4, <2>2, <2>3
<1>11. QED BY <1>8, <1>5, <1>9, <1>10
-------------------------------------------------------------------------------
(***************************************************************************)
(* Defaults and labels.                                                    *)
(***************************************************************************)
LEMMA NothingIn ==
  ASSUME NEW v, v \in Falsy, NEW p \in Seq(STRING) \ {<<>>}
  PROVE  GetPath(v, p) = Null
<1>1. Len(p) \in Nat \ {0}
  OBVIOUS
<1>2. PICK s : Walk(v, p, s, Len(p)) /\ GetPath(v, p) = s[Len(p)]
  BY Along
<1>3. PICK t : Walk(Null, p, t, Len(p))
  BY <1>1, WalkExists
<1>4. PICK w : Walk(Null, p, w, Len(p)) /\ GetPath(Null, p) = w[Len(p)]
  BY Along
<1>5. Field(v, p[1]) = Null /\ Field(Null, p[1]) = Null
  <2>1. DOMAIN NoFields.dict = {} /\ ~IsDict(Text("")) /\ ~IsDict(No) /\ ~IsDict(Null)
    <3>1. NoFields.dict = <<>>
      BY Kinds DEF NoFields
    <3>2. \A x : x \in DOMAIN <<>> => FALSE
      OBVIOUS
    <3>3. ~IsDict(Text("")) /\ ~IsDict(No) /\ ~IsDict(Null)
      BY Kinds
    <3>4. QED BY <3>1, <3>2, <3>3
  <2>2. QED BY <2>1 DEF Field, Falsy, Empty
<1>6. s[1] = Null
  <2>1. 1 \in 1 .. Len(p) /\ s[0] = v
    BY <1>1, <1>2 DEF Walk
  <2>2. s[1] = Field(s[1 - 1], p[1])
    BY <1>2, <2>1 DEF Walk
  <2>3. QED BY <1>5, <2>1, <2>2
<1> DEFINE S == {k \in Nat : 1 <= k /\ k <= Len(p) => s[k] = Null}
<1>7. 0 \in S
  OBVIOUS
<1>8. ASSUME NEW k \in Nat, k \in S PROVE k + 1 \in S
  <2>1. SUFFICES ASSUME k # 0, k + 1 <= Len(p) PROVE s[k + 1] = Null
    BY <1>6
  <2>2. k + 1 \in 1 .. Len(p) /\ (k + 1) - 1 = k /\ s[k] = Null
    BY <1>1, <1>8, <2>1
  <2>3. s[k + 1] = Field(s[k], p[k + 1])
    BY <1>2, <2>2 DEF Walk
  <2>4. QED BY <2>2, <2>3, FieldOfNull
<1>9. Len(p) \in S
  <2> HIDE DEF S
  <2>1. Nat \subseteq S
    BY <1>7, <1>8, Induct
  <2>2. QED BY <1>1, <2>1
<1>10. QED BY <1>1, <1>2, <1>9

LEMMA DefaultsByPrecedence ==
  ASSUME given \in Inputs, NEW t \in Types, NEW v, Finite(v), NEW p \in Seq(STRING) \ {<<>>}
  PROVE  LET own     == GetPath(v, p)
             default == GetPath(given.defaults[t], p)
             result  == GetPath(WithDefaults(t, v), p)
         IN /\ Explicit(own) => result = own
            /\ Explicit(default) /\ Omitted(v, p) => result = default
            /\ Explicit(result) => result \in {own, default}
<1>1. CASE given.defaults[t] \in Falsy
  <2>1. WithDefaults(t, v) = v
    BY <1>1 DEF WithDefaults
  <2>2. ~Explicit(GetPath(given.defaults[t], p))
    BY <1>1, NothingIn DEF Explicit
  <2>3. QED BY <2>1, <2>2
<1>2. CASE given.defaults[t] \notin Falsy
  <2>1. WithDefaults(t, v) = DeepMerge(given.defaults[t], v)
    BY <1>2 DEF WithDefaults
  <2>2. Finite(given.defaults[t])
    BY ConfigAssumption DEF Finite
  <2>3. QED BY <2>1, <2>2, MergeByPrecedence
<1>3. QED BY <1>1, <1>2

LEMMA LabelledIs ==
  ASSUME NEW v, IsDict(v)
  PROVE  /\ IsDict(Labelled(v))
         /\ Field(Labelled(v), "labels") = Dict(Over(OwnLabels(v), RequiredLabels))
         /\ \A k : k # "labels" => Field(Labelled(v), k) = Field(v, k)
<1> DEFINE m == [k \in DOMAIN v.dict \cup {"labels"} |->
                   IF k = "labels" THEN Dict(Over(OwnLabels(v), RequiredLabels)) ELSE v.dict[k]]
<1>1. Labelled(v) = Dict(m)
  BY DEF Labelled
<1>2. DOMAIN m = DOMAIN v.dict \cup {"labels"}
  OBVIOUS
<1>3. /\ m["labels"] = Dict(Over(OwnLabels(v), RequiredLabels))
      /\ \A k \in DOMAIN v.dict : k # "labels" => m[k] = v.dict[k]
  OBVIOUS
<1> HIDE DEF m
<1>4. IsDict(Labelled(v)) /\ Labelled(v).dict = m
  BY <1>1, Kinds
<1>5. QED BY <1>2, <1>3, <1>4 DEF Field

LEMMA OverRequired ==
  ASSUME NEW own
  PROVE  LET all == Dict(Over(own, RequiredLabels))
         IN /\ IsDict(all) /\ all.dict = Over(own, RequiredLabels)
            /\ DOMAIN RequiredLabels = {"owner", "platform"}
            /\ DOMAIN all.dict = DOMAIN own \cup {"owner", "platform"}
            /\ \A k \in DOMAIN own : Field(all, k) = own[k]
            /\ \A k \in {"owner", "platform"} : k \notin DOMAIN own =>
                 Field(all, k) = RequiredLabels[k] /\ IsText(RequiredLabels[k])
            /\ \A k : k \notin DOMAIN own \cup {"owner", "platform"} => Field(all, k) = Null
<1> DEFINE all == Dict(Over(own, RequiredLabels))
<1>1. IsDict(all) /\ all.dict = Over(own, RequiredLabels)
  BY Kinds
<1>2. /\ DOMAIN RequiredLabels = {"owner", "platform"}
      /\ RequiredLabels["owner"] = Text(Owner) /\ RequiredLabels["platform"] = Text("gcp-platform")
  BY DEF RequiredLabels
<1>3. Over(own, RequiredLabels) = [k \in DOMAIN own \cup DOMAIN RequiredLabels |->
                                 IF k \in DOMAIN own THEN own[k] ELSE RequiredLabels[k]]
  BY DEF Over
<1>4. IsText(RequiredLabels["owner"]) /\ IsText(RequiredLabels["platform"])
  BY <1>2, Kinds
<1> HIDE DEF all
<1>5. QED BY <1>1, <1>2, <1>3, <1>4 DEF all, Field

LEMMA FieldOfOwnLabels ==
  ASSUME NEW v, IsDict(v), NEW k
  PROVE  /\ k \in DOMAIN OwnLabels(v) => Field(Field(v, "labels"), k) = OwnLabels(v)[k]
         /\ k \notin DOMAIN OwnLabels(v) => Field(Field(v, "labels"), k) = Null
BY Kinds DEF OwnLabels, Field

\* Where it stamps nothing, labelling changes nothing.
LEMMA LabelledElsewhere ==
  ASSUME NEW v, NEW p \in Seq(STRING) \ {<<>>}, ~Stamped(p)
  PROVE  GetPath(Labelled(v), p) = GetPath(v, p)
<1>1. CASE ~IsDict(v)
  BY <1>1 DEF Labelled
<1>2. CASE IsDict(v)
  <2>1. Len(p) \in Nat \ {0}
    OBVIOUS
  <2>2. PICK s : Walk(v, p, s, Len(p)) /\ GetPath(v, p) = s[Len(p)]
    BY Along
  <2>3. PICK t : Walk(Labelled(v), p, t, Len(p)) /\ GetPath(Labelled(v), p) = t[Len(p)]
    BY Along
  <2>4. ASSUME NEW k \in 1 .. Len(p)
        PROVE  s[k] = Field(s[k - 1], p[k]) /\ t[k] = Field(t[k - 1], p[k])
    BY <2>2, <2>3 DEF Walk
  <2>5. s[0] = v /\ t[0] = Labelled(v) /\ 1 \in 1 .. Len(p) /\ 1 - 1 = 0
    BY <2>1, <2>2, <2>3 DEF Walk
  <2>6. s[1] = Field(v, p[1]) /\ t[1] = Field(Labelled(v), p[1])
    BY <2>4, <2>5
  <2>7. \E m \in 0 .. Len(p) : s[m] = t[m]
    <3>1. CASE p[1] # "labels"
      <4>1. s[1] = t[1]
        BY <1>2, <2>6, <3>1, LabelledIs
      <4>2. QED BY <2>1, <4>1
    <3>2. CASE p[1] = "labels"
      <4>1. Len(p) >= 2
        <5>1. Len(p) = 1 => p = <<"labels">>
          BY <3>2
        <5>2. p # <<"labels">>
          BY DEF Stamped
        <5>3. Len(p) # 1
          BY <5>1, <5>2, Zenon
        <5>4. \A n \in Nat : n # 0 /\ n # 1 => n >= 2
          OBVIOUS
        <5>5. QED BY <2>1, <5>3, <5>4
      <4> DEFINE own == OwnLabels(v)
                 k   == p[2]
      <4>2. 2 \in 1 .. Len(p) /\ 2 - 1 = 1
        BY <2>1, <4>1
      <4>3. /\ s[2] = Field(Field(v, "labels"), k)
            /\ t[2] = Field(Dict(Over(own, RequiredLabels)), k)
        BY <1>2, <2>4, <2>6, <3>2, <4>2, LabelledIs
      <4> HIDE DEF own
      <4>4. CASE k \in DOMAIN own
        <5>1. s[2] = t[2]
          BY <1>2, <4>3, <4>4, FieldOfOwnLabels, OverRequired DEF own
        <5>2. QED BY <4>2, <5>1
      <4>5. CASE k \notin DOMAIN own \cup {"owner", "platform"}
        <5>1. s[2] = t[2]
          BY <1>2, <4>3, <4>5, FieldOfOwnLabels, OverRequired DEF own
        <5>2. QED BY <4>2, <5>1
      <4>6. CASE k \in {"owner", "platform"} /\ k \notin DOMAIN own
        <5>1. Len(p) >= 3
          <6>1. Len(p) = 2 => p = <<"labels", k>>
            BY <3>2
          <6>2. k \in DOMAIN RequiredLabels
            BY <4>6, OverRequired
          <6>3. p # <<"labels", k>>
            BY <6>2 DEF Stamped
          <6>4. Len(p) # 2
            BY <6>1, <6>3, Zenon
          <6>5. \A n \in Nat : n >= 2 /\ n # 2 => n >= 3
            OBVIOUS
          <6>6. QED BY <2>1, <4>1, <6>4, <6>5
        <5>2. s[2] = Null /\ IsText(t[2])
          <6>1. s[2] = Null
            BY <1>2, <4>3, <4>6, FieldOfOwnLabels DEF own
          <6>2. t[2] = RequiredLabels[k] /\ IsText(RequiredLabels[k])
            BY <4>3, <4>6, OverRequired
          <6>3. QED BY <6>1, <6>2
        <5>3. 3 \in 1 .. Len(p) /\ 3 - 1 = 2
          BY <2>1, <5>1
        <5>4. s[3] = Field(s[2], p[3]) /\ t[3] = Field(t[2], p[3])
          BY <2>4, <5>3
        <5>5. ~IsDict(t[2])
          BY <5>2 DEF IsDict, IsText
        <5>6. s[3] = Null /\ t[3] = Null
          BY <5>2, <5>4, <5>5, FieldOfNull DEF Field
        <5>7. QED BY <5>3, <5>6
      <4>7. QED BY <4>4, <4>5, <4>6
    <3>3. QED BY <3>1, <3>2
  <2>8. PICK m \in 0 .. Len(p) : s[m] = t[m]
    BY <2>7
  <2>9. s[Len(p)] = t[Len(p)]
    BY <2>1, <2>2, <2>3, <2>8, WalksMeet
  <2>10. QED BY <2>2, <2>3, <2>9
<1>3. QED BY <1>1, <1>2

\* A default label or an own one is where a label of the merged dict comes from.
LEMMA LabelsComeFrom ==
  ASSUME given \in Inputs, NEW t \in Types, NEW v, Finite(v)
  PROVE  DOMAIN OwnLabels(WithDefaults(t, v))
           \subseteq DOMAIN OwnLabels(v) \cup DOMAIN OwnLabels(given.defaults[t])
<1> DEFINE base == given.defaults[t]
           merged == DeepMerge(base, v)
           labels(x) == Field(x, "labels")
<1>1. CASE base \in Falsy
  BY <1>1 DEF WithDefaults
<1>2. CASE base \notin Falsy
  <2>1. Finite(base)
    BY ConfigAssumption DEF Finite
  <2>2. PICK f : /\ merged = f[<<base, v>>]
                 /\ \A b \in Nodes(base) : \A o \in Nodes(v) : f[<<b, o>>] = MergeOf(f, b, o)
    BY <2>1, MergeIs
  <2>3. base \in Nodes(base) /\ v \in Nodes(v)
    BY <2>1, NodesClosed
  <2>4. merged = MergeOf(f, base, v)
    BY <2>2, <2>3
  <2>5. \A x : /\ IsDict(labels(x)) => OwnLabels(x) = labels(x).dict
               /\ ~IsDict(labels(x)) => OwnLabels(x) = <<>>
    BY Kinds DEF OwnLabels, Field
  <2>6. SUFFICES ASSUME NEW k \in DOMAIN OwnLabels(merged)
                 PROVE  k \in DOMAIN OwnLabels(v) \cup DOMAIN OwnLabels(base)
    BY <1>2 DEF WithDefaults
  <2>7. IsDict(labels(merged)) /\ k \in DOMAIN labels(merged).dict
    <3>1. k \notin DOMAIN <<>>
      OBVIOUS
    <3>2. QED BY <2>5, <2>6, <3>1
  <2>8. CASE Explicit(v)
    <3>1. merged = v
      BY <2>4, <2>8 DEF MergeOf, Explicit
    <3>2. QED BY <2>6, <3>1
  <2>9. CASE ~Explicit(v)
    <3>1. labels(merged) = MergeOf(f, labels(base), labels(v))
      BY <2>1, <2>2, <2>3, <2>4, <2>9, FieldOfMerge
    <3> HIDE DEF labels
    <3>2. CASE IsDict(labels(base)) /\ IsDict(labels(v))
      <4> DEFINE m == [j \in DOMAIN labels(base).dict \cup DOMAIN labels(v).dict |->
                         IF j \notin DOMAIN labels(v).dict THEN labels(base).dict[j]
                         ELSE IF j \notin DOMAIN labels(base).dict THEN labels(v).dict[j]
                         ELSE f[<<labels(base).dict[j], labels(v).dict[j]>>]]
      <4>1. labels(merged) = Dict(m)
        BY <3>1, <3>2 DEF MergeOf
      <4>2. DOMAIN m = DOMAIN labels(base).dict \cup DOMAIN labels(v).dict
        OBVIOUS
      <4> HIDE DEF m
      <4>3. DOMAIN labels(merged).dict = DOMAIN labels(base).dict \cup DOMAIN labels(v).dict
        BY <4>1, <4>2, Kinds
      <4>4. QED BY <2>5, <2>7, <3>2, <4>3
    <3>3. CASE ~(IsDict(labels(base)) /\ IsDict(labels(v)))
      <4>1. labels(merged) \in {labels(base), labels(v)}
        BY <3>1, <3>3 DEF MergeOf
      <4>2. QED BY <2>5, <2>7, <4>1
    <3>4. QED BY <3>2, <3>3
  <2>10. QED BY <2>8, <2>9
<1>3. QED BY <1>1, <1>2
-------------------------------------------------------------------------------
(***************************************************************************)
(* The loop over the instances.  What a turn has made of an instance, and  *)
(* what it has yet to do, is in normalized at once.                        *)
(***************************************************************************)
Merged(t, n) == WithDefaults(t, Written(t, n))

LoaderInv ==
  /\ given \in Inputs
  /\ ~interpolated => todo = All /\ normalized = given.instances
  /\ interpolated =>
       normalized = [t \in Types |-> [n \in Names(t) |->
                       IF <<t, n>> \in todo THEN Written(t, n) ELSE Labelled(Merged(t, n))]]
  /\ \A t \in Types : \A n \in Names(t) : <<t, n>> \notin todo => Labellable(Merged(t, n))

LEMMA LoaderStart == Init => LoaderInv
<1>1. SUFFICES ASSUME Init PROVE LoaderInv
  OBVIOUS
<1>2. given \in Inputs /\ ~interpolated /\ todo = All
      /\ normalized = given.instances
  BY <1>1 DEF Init, CheckInit
<1>3. ASSUME NEW t \in Types, NEW n \in Names(t) PROVE <<t, n>> \in All
  BY DEF All
<1>4. QED BY <1>1, <1>2, <1>3 DEF LoaderInv

LEMMA LoaderStep == LoaderInv /\ [Next]_vars => LoaderInv'
<1>1. SUFFICES ASSUME LoaderInv, [Next]_vars PROVE LoaderInv'
  OBVIOUS
<1>2. given' = given
  BY <1>1 DEF Next, vars, InterpolateAll, LoadInstance, RaiseAt, ValidateLoaded, Validate, Check,
         CheckRequired, CheckTypes, CheckReferences, CheckSecurity, CheckRegions, Raise
<1>3. /\ All' = All
      /\ \A t : Names(t)' = Names(t)
      /\ \A t, n : Written(t, n)' = Written(t, n) /\ Merged(t, n)' = Merged(t, n)
      /\ \A v : Labelled(v)' = Labelled(v)
  BY <1>2 DEF All, Names, Merged, Written, Labelled, WithDefaults, Interpolate, Resolves, Tokens,
              Owner, RequiredLabels
<1>4. CASE InterpolateAll
  <2>1. interpolated' = TRUE /\ todo' = todo /\ todo = All /\ normalized = given.instances
    BY <1>1, <1>4 DEF InterpolateAll, LoaderInv
  <2>2. normalized' = [t \in Types |-> [n \in Names(t) |-> Written(t, n)]]
    BY <1>4, <2>1 DEF InterpolateAll, Written
  <2>3. \A t \in Types : \A n \in Names(t) : <<t, n>> \in todo
    BY <2>1 DEF All
  <2>4. normalized' = [t \in Types |-> [n \in Names(t) |->
                         IF <<t, n>> \in todo THEN Written(t, n) ELSE Labelled(Merged(t, n))]]
    BY <2>2, <2>3
  <2>5. given' \in Inputs
    BY <1>1, <1>2 DEF LoaderInv
  <2>6. QED BY <1>1, <1>2, <1>3, <2>1, <2>3, <2>4, <2>5 DEF LoaderInv
<1>5. ASSUME NEW t \in Types, NEW n \in Names(t), LoadInstance(t, n) PROVE LoaderInv'
  <2> DEFINE now(u, m) == IF <<u, m>> \in todo THEN Written(u, m) ELSE Labelled(Merged(u, m))
             then(u, m) == IF <<u, m>> \in todo \ {<<t, n>>}
                             THEN Written(u, m) ELSE Labelled(Merged(u, m))
  <2>1. /\ interpolated /\ interpolated' = interpolated /\ <<t, n>> \in todo
        /\ todo' = todo \ {<<t, n>>}
    BY <1>5 DEF LoadInstance, Due
  <2>2. normalized = [u \in Types |-> [m \in Names(u) |-> now(u, m)]]
    BY <1>1, <2>1 DEF LoaderInv
  <2>3. normalized[t][n] = Written(t, n)
    BY <1>5, <2>1, <2>2
  <2>4. /\ Labellable(Merged(t, n))
        /\ normalized' = [normalized EXCEPT ![t][n] = Labelled(Merged(t, n))]
    BY <1>5, <2>3 DEF LoadInstance, Merged
  <2>5. normalized' = [u \in Types |-> [m \in Names(u) |-> then(u, m)]]
    <3>1. ASSUME NEW u \in Types, NEW m \in Names(u), <<u, m>> # <<t, n>>
          PROVE  now(u, m) = then(u, m)
      BY <3>1
    <3>2. then(t, n) = Labelled(Merged(t, n))
      OBVIOUS
    <3> HIDE DEF now, then
    <3>3. DOMAIN normalized' = Types
      BY <2>2, <2>4
    <3>4. ASSUME NEW u \in Types PROVE normalized'[u] = [m \in Names(u) |-> then(u, m)]
      <4>1. CASE u # t
        <5>1. normalized'[u] = normalized[u]
          BY <2>2, <2>4, <4>1
        <5>2. normalized[u] = [m \in Names(u) |-> now(u, m)]
          BY <2>2
        <5>3. \A m \in Names(u) : now(u, m) = then(u, m)
          BY <3>1, <4>1
        <5>4. QED BY <5>1, <5>2, <5>3
      <4>2. CASE u = t
        <5>1. normalized'[t] = [normalized[t] EXCEPT ![n] = Labelled(Merged(t, n))]
          BY <2>2, <2>4
        <5>2. normalized[t] = [m \in Names(t) |-> now(t, m)]
          BY <2>2
        <5>3. normalized'[t] =
                [m \in Names(t) |-> IF m = n THEN Labelled(Merged(t, n)) ELSE now(t, m)]
          BY <5>1, <5>2
        <5>4. \A m \in Names(t) : m # n => now(t, m) = then(t, m)
          BY <3>1
        <5>5. QED BY <3>2, <4>2, <5>3, <5>4
      <4>3. QED BY <4>1, <4>2
    <3>5. normalized' = [u \in Types |-> normalized'[u]]
      BY <2>2, <2>4
    <3>6. QED BY <3>4, <3>5
  <2>6. ASSUME NEW u \in Types, NEW m \in Names(u), <<u, m>> \notin todo'
        PROVE  Labellable(Merged(u, m))
    <3>1. CASE <<u, m>> = <<t, n>>
      BY <2>4, <3>1
    <3>2. CASE <<u, m>> # <<t, n>>
      BY <1>1, <2>1, <2>6, <3>2 DEF LoaderInv
    <3>3. QED BY <3>1, <3>2
  <2>7. given' \in Inputs
    BY <1>1, <1>2, <2>1 DEF LoaderInv
  <2>8. QED BY <1>1, <1>2, <1>3, <2>1, <2>5, <2>6, <2>7 DEF LoaderInv
<1>6. CASE UNCHANGED <<normalized, interpolated, todo>>
  BY <1>1, <1>2, <1>3, <1>6 DEF LoaderInv
<1>7. (\E t \in Types : \E n \in Names(t) : RaiseAt(t, n)) \/ ValidateLoaded \/ UNCHANGED vars
        => UNCHANGED <<normalized, interpolated, todo>>
  BY DEF vars, RaiseAt, ValidateLoaded, Validate, Check, CheckRequired, CheckTypes,
         CheckReferences, CheckSecurity, CheckRegions, Raise
<1>8. QED BY <1>1, <1>4, <1>5, <1>6, <1>7 DEF Next

LEMMA LoaderInvariant == Spec => []LoaderInv
BY LoaderStart, LoaderStep, PTL DEF Spec

LEMMA WrittenIsFinite ==
  ASSUME given \in Inputs, NEW t \in Types, NEW n \in Names(t)
  PROVE  Finite(Written(t, n))
<1>1. Finite(given.instances[t][n])
  BY ConfigAssumption DEF Finite, Names
<1>2. QED BY <1>1, InterpolateIsFinite DEF Written

LEMMA LoadedIs ==
  ASSUME LoaderInv, NEW t \in Types, NEW n \in Names(t), Loaded(t, n)
  PROVE  /\ normalized[t][n] = Labelled(Merged(t, n))
         /\ Labellable(Merged(t, n))
BY DEF LoaderInv, Loaded

LEMMA PrecedenceFollows == LoaderInv => FieldsByPrecedence
<1>1. SUFFICES ASSUME LoaderInv, NEW t \in Types, NEW n \in Names(t), Loaded(t, n),
                      NEW p \in Paths, ~Stamped(p)
               PROVE  LET own     == GetPath(Written(t, n), p)
                          default == GetPath(given.defaults[t], p)
                          result  == GetPath(normalized[t][n], p)
                      IN /\ Explicit(own) => result = own
                         /\ Explicit(default) /\ Omitted(Written(t, n), p) => result = default
                         /\ Explicit(result) => result \in {own, default}
  BY DEF FieldsByPrecedence
<1>2. given \in Inputs /\ p \in Seq(STRING) \ {<<>>}
  BY <1>1, ConfigAssumption DEF LoaderInv
<1>3. GetPath(normalized[t][n], p) = GetPath(Merged(t, n), p)
  BY <1>1, <1>2, LoadedIs, LabelledElsewhere
<1>4. QED BY <1>1, <1>2, <1>3, WrittenIsFinite, DefaultsByPrecedence DEF Merged

LEMMA LabelsFollow == LoaderInv => LabelsComplete
<1>1. SUFFICES ASSUME LoaderInv, NEW t \in Types, NEW n \in Names(t), Loaded(t, n),
                      IsDict(normalized[t][n]), NEW k \in DOMAIN RequiredLabels
               PROVE  /\ k \in DOMAIN OwnLabels(normalized[t][n])
                      /\ k \notin DOMAIN OwnLabels(Written(t, n))
                                    \cup DOMAIN OwnLabels(given.defaults[t]) =>
                           OwnLabels(normalized[t][n])[k] = RequiredLabels[k]
  BY DEF LabelsComplete
<1> DEFINE v   == Merged(t, n)
           own == OwnLabels(v)
<1>2. normalized[t][n] = Labelled(v)
  BY <1>1, LoadedIs
<1>3. IsDict(v)
  BY <1>1, <1>2 DEF Labelled
<1> HIDE DEF v
<1>4. Field(Labelled(v), "labels") = Dict(Over(own, RequiredLabels))
  BY <1>3, LabelledIs
<1>5. OwnLabels(Labelled(v)) = Over(own, RequiredLabels)
  BY <1>4, Kinds DEF OwnLabels, Field
<1> HIDE DEF own
<1>6. /\ k \in DOMAIN Over(own, RequiredLabels)
      /\ k \notin DOMAIN own => Over(own, RequiredLabels)[k] = RequiredLabels[k]
  BY <1>1 DEF Over
<1>7. DOMAIN own \subseteq DOMAIN OwnLabels(Written(t, n)) \cup DOMAIN OwnLabels(given.defaults[t])
  BY <1>1, WrittenIsFinite, LabelsComeFrom DEF LoaderInv, Merged, own, v
<1>8. QED BY <1>2, <1>5, <1>6, <1>7

LEMMA TokensFollow == LoaderInv => TokensResolved
<1>1. SUFFICES ASSUME LoaderInv, NEW t \in Types, NEW n \in Names(t), Loaded(t, n), NEW p \in Paths,
                      Resolves(GetPath(given.instances[t][n], p))
               PROVE  GetPath(normalized[t][n], p)
                        = Text(Tokens[GetPath(given.instances[t][n], p).text])
  BY DEF TokensResolved
<1> DEFINE word == Tokens[GetPath(given.instances[t][n], p).text]
           v    == Merged(t, n)
<1>2. given \in Inputs /\ p \in Seq(STRING) \ {<<>>} /\ Finite(given.instances[t][n])
  BY <1>1, ConfigAssumption DEF LoaderInv, Finite, Names
<1>3. GetPath(Written(t, n), p) = Text(word)
  BY <1>1, <1>2, TokenAt DEF Written
<1>4. word # "" /\ Explicit(Text(word))
  BY <1>1, Kinds DEF Resolves, Explicit
<1>5. normalized[t][n] = Labelled(v) /\ Labellable(v)
  BY <1>1, LoadedIs
<1>6. GetPath(v, p) = Text(word)
  BY <1>1, <1>2, <1>3, <1>4, WrittenIsFinite, DefaultsByPrecedence DEF Merged
<1> HIDE DEF v, word
<1>7. CASE ~Stamped(p)
  BY <1>2, <1>5, <1>6, <1>7, LabelledElsewhere DEF word
<1>8. CASE p = <<"labels">>
  <2>1. Field(v, "labels") = Text(word)
    BY <1>6, <1>8, GetOne
  <2>2. IsDict(v)
    BY <2>1, Kinds DEF Field
  <2>3. Text(word) \notin Falsy /\ ~IsDict(Text(word))
    <3>1. Text(word) \notin Empty
      <4>1. Text(word).text = word /\ Text("").text = "" /\ Text(word) # Null
        BY Kinds
      <4>2. QED BY <1>4, <4>1 DEF Empty
    <3>2. QED BY <3>1, Kinds, TextIsNotFalsy
  <2>4. QED BY <1>5, <2>1, <2>2, <2>3 DEF Labellable
<1>9. ASSUME NEW k \in DOMAIN RequiredLabels, p = <<"labels", k>>
      PROVE  GetPath(Labelled(v), p) = Text(word)
  <2>1. /\ Field(Field(v, "labels"), k) = Text(word)
        /\ GetPath(Labelled(v), p) = Field(Field(Labelled(v), "labels"), k)
    BY <1>6, <1>9, GetTwo
  <2>2. Text(word) # Null
    BY Kinds
  <2>3. IsDict(v)
    BY <2>1, <2>2, FieldOfNull DEF Field
  <2> DEFINE own == OwnLabels(v)
  <2>4. k \in DOMAIN own /\ own[k] = Text(word)
    BY <2>1, <2>2, <2>3, FieldOfOwnLabels
  <2>5. Field(Labelled(v), "labels") = Dict(Over(own, RequiredLabels))
    BY <2>3, LabelledIs
  <2> HIDE DEF own
  <2>6. Field(Dict(Over(own, RequiredLabels)), k) = own[k]
    BY <2>4, OverRequired
  <2>7. QED BY <2>1, <2>4, <2>5, <2>6
<1>10. QED BY <1>5, <1>7, <1>8, <1>9 DEF Stamped, word
-------------------------------------------------------------------------------
LEMMA LoaderServes == LoaderInv /\ [Next]_vars => [CheckNext]_checkVars
<1>1. SUFFICES ASSUME LoaderInv, [Next]_vars PROVE [CheckNext]_checkVars
  OBVIOUS
<1>2. ASSUME NEW t \in Types PROVE DOMAIN normalized[t] = Names(t)
  <2>1. CASE interpolated
    BY <1>1, <2>1 DEF LoaderInv
  <2>2. CASE ~interpolated
    BY <1>1, <2>2 DEF LoaderInv, Names
  <2>3. QED BY <2>1, <2>2
<1>3. CASE InterpolateAll
  <2>1. \A t \in Types : DOMAIN normalized'[t] = Names(t)
    BY <1>3 DEF InterpolateAll
  <2>2. QED BY <1>3, <2>1 DEF InterpolateAll, CheckNext, Load
<1>4. ASSUME NEW t \in Types, NEW n \in Names(t), LoadInstance(t, n) PROVE Load
  <2>1. normalized' = [normalized EXCEPT ![t][n] = Labelled(WithDefaults(t, normalized[t][n]))]
    BY <1>4 DEF LoadInstance
  <2>2. ASSUME NEW u \in Types PROVE DOMAIN normalized'[u] = Names(u)
    <3>1. normalized = [x \in Types |-> normalized[x]]
      <4>1. interpolated
        BY <1>4 DEF LoadInstance, Due
      <4>2. QED BY <1>1, <4>1 DEF LoaderInv
    <3>2. CASE u = t
      <4>1. normalized'[t] = [normalized[t] EXCEPT ![n] =
                                Labelled(WithDefaults(t, normalized[t][n]))]
        BY <2>1, <3>1
      <4>2. QED BY <1>2, <3>2, <4>1
    <3>3. CASE u # t
      BY <1>2, <2>1, <3>1, <3>3
    <3>4. QED BY <3>2, <3>3
  <2>3. QED BY <1>4, <2>2 DEF LoadInstance, Due, Load
<1>5. ASSUME NEW t \in Types, NEW n \in Names(t), RaiseAt(t, n) PROVE Load
  BY <1>2, <1>5 DEF RaiseAt, Due, Load
<1>6. ValidateLoaded => Validate
  BY DEF ValidateLoaded
<1>7. UNCHANGED vars => UNCHANGED checkVars
  BY DEF vars, checkVars
<1>8. QED BY <1>1, <1>3, <1>4, <1>5, <1>6, <1>7 DEF Next, CheckNext

(***************************************************************************)
(* The loader is one the checks may rely on: for every deployment, at any  *)
(* point of the loading, so that whatever is proved of CheckSpec holds of  *)
(* what Terraform gets.                                                    *)
(***************************************************************************)
THEOREM LoaderServesChecks == Spec => CheckSpec
<1>1. Init => CheckInit
  BY DEF Init
<1>2. QED BY <1>1, LoaderInvariant, LoaderServes, PTL DEF Spec, CheckSpec

(***************************************************************************)
(* What an instance says stands, a default fills what it omits, and        *)
(* nothing else gets in: for trees of every depth and every path.          *)
(***************************************************************************)
THEOREM DefaultsFillIn == Spec => []FieldsByPrecedence
BY LoaderInvariant, PrecedenceFollows, PTL

(***************************************************************************)
(* No instance loses a required label, whatever it declares and inherits.  *)
(***************************************************************************)
THEOREM LabelsArrive == Spec => []LabelsComplete
BY LoaderInvariant, LabelsFollow, PTL

(***************************************************************************)
(* A token is replaced wherever it is written, and neither a default nor a *)
(* required label gets in its place.                                       *)
(***************************************************************************)
THEOREM TokensArrive == Spec => []TokensResolved
BY LoaderInvariant, TokensFollow, PTL

(***************************************************************************)
(* An accepted deployment, loaded as load_deployment does it: its Direct   *)
(* VPC services agree with their subnets, Terraform finds what it looks    *)
(* up, everything is in an approved place, and no typo in the policy file  *)
(* has let an unprotected service pass.                                    *)
(***************************************************************************)
THEOREM AcceptedIsSound ==
  Spec => [](DirectVpcIsConsistent /\ LookupsResolve /\ PlacesApproved /\ TypoNeverDisables)
BY LoaderServesChecks, DirectVpcChecked, LookupsChecked, PlacesChecked, TyposChecked, PTL
===============================================================================
