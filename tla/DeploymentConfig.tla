--------------------------- MODULE DeploymentConfig ---------------------------
(***************************************************************************)
(* From a deployment.yaml to the findings of engine/cli.py validate:       *)
(* config_loader.load_deployment fills in tokens, defaults and labels, and *)
(* the checks of DeploymentChecks follow.  Terraform gets the loaded       *)
(* instances exactly as the checks have seen them.                         *)
(*                                                                         *)
(* A text may be a token.                                                  *)
(***************************************************************************)
EXTENDS DeploymentChecks

CONSTANTS
  Paths,  \* the places in an instance that properties look at
  Depth   \* bound: how deep a YAML file nests

VARIABLES
  interpolated,
  todo           \* instances load_deployment has yet to come to

vars == <<given, pc, normalized, findings, interpolated, todo>>

Children(v) == IF IsDict(v) THEN {v.dict[k] : k \in DOMAIN v.dict} ELSE {}

\* What lies d dicts inside v.
Level(v) ==
  LET level[d \in 0 .. Depth] == IF d = 0 THEN {v} ELSE UNION {Children(u) : u \in level[d - 1]}
  IN level

Nodes(v) == UNION {Level(v)[d] : d \in 0 .. Depth}

\* A YAML file nests finitely; resource_defaults of a type are falsy or a dict.
ASSUME ConfigAssumption ==
  /\ Depth \in Nat
  /\ Paths \subseteq Seq(STRING) \ {<<>>}
  /\ \A g \in Inputs : \A t \in Types :
       /\ g.defaults[t] \in Falsy \/ IsDict(g.defaults[t])
       /\ Level(g.defaults[t])[Depth] = {}
       /\ \A n \in DOMAIN g.instances[t] : Level(g.instances[t][n])[Depth] = {}

All == {x \in Types \X UNION {Names(t) : t \in Types} : x[2] \in Names(x[1])}

Init ==
  /\ CheckInit
  /\ interpolated = FALSE
  /\ todo = All
-------------------------------------------------------------------------------
Owner == IF given.owner = "" THEN given.defaultOwner ELSE given.owner

Tokens == [t \in {"{region}", "{owner}"} |->
             IF t = "{region}" THEN given.region ELSE Owner]

Resolves(v) == IsText(v) /\ v.text \in DOMAIN Tokens /\ Tokens[v.text] # ""

\* Mutant: what lies inside a dict is left alone.
InterpolateTop(v) ==
  CASE Resolves(v) -> Text(Tokens[v.text])
    [] IsDict(v)   -> Dict([k \in DOMAIN v.dict |->
                             IF Resolves(v.dict[k]) THEN Text(Tokens[v.dict[k].text])
                                                    ELSE v.dict[k]])
    [] OTHER       -> v

\* _interpolate: a token without a value stays as it is.
Interpolate(value) ==
  LET done[v \in Nodes(value)] ==
        IF IsDict(v) THEN Dict([k \in DOMAIN v.dict |-> done[v.dict[k]]])
        ELSE IF Resolves(v) THEN Text(Tokens[v.text]) ELSE v
  IN done[value]

\* {**g, **f}
Over(f, g) == [k \in DOMAIN f \cup DOMAIN g |-> IF k \in DOMAIN f THEN f[k] ELSE g[k]]

\* Mutant: a dict of the instance replaces the default's dict.
DeepMergeShallow(base, override) ==
  IF IsDict(base) /\ IsDict(override)
    THEN Dict(Over(override.dict, base.dict))
    ELSE IF override # Null THEN override ELSE base

\* deep_merge: None over a default means the default, whatever its depth.
DeepMerge(base, override) ==
  LET merged[x \in Nodes(base) \X Nodes(override)] ==
        LET b == x[1]
            o == x[2]
        IN IF IsDict(b) /\ IsDict(o)
             THEN Dict([k \in DOMAIN b.dict \cup DOMAIN o.dict |->
                        IF k \notin DOMAIN o.dict THEN b.dict[k]
                        ELSE IF k \notin DOMAIN b.dict THEN o.dict[k]
                        ELSE merged[<<b.dict[k], o.dict[k]>>]])
             ELSE IF o # Null THEN o ELSE b
  IN merged[<<base, override>>]

WithDefaults(t, v) ==
  IF given.defaults[t] \in Falsy THEN v ELSE DeepMerge(given.defaults[t], v)

\* config/global/labels.yaml: the required labels, the owner's filled in.
RequiredLabels == [owner |-> Text(Owner), platform |-> Text("gcp-platform")]

OwnLabels(v) ==
  IF IsDict(v) /\ "labels" \in DOMAIN v.dict /\ IsDict(v.dict["labels"])
    THEN v.dict["labels"].dict
    ELSE <<>>

\* {**required, **labels}: neither a text nor a list can be unpacked.
Labellable(v) ==
  IsDict(v) => Field(v, "labels") \in Falsy \/ IsDict(Field(v, "labels"))

\* Mutant: an instance without labels of its own gets none.
LabelledIfDeclared(v) ==
  IF ~IsDict(v) \/ "labels" \notin DOMAIN v.dict THEN v
  ELSE Dict([k \in DOMAIN v.dict |->
             IF k = "labels" THEN Dict(Over(OwnLabels(v), RequiredLabels)) ELSE v.dict[k]])

\* _apply_required_labels: an instance's own labels come last.
Labelled(v) ==
  IF ~IsDict(v) THEN v
  ELSE Dict([k \in DOMAIN v.dict \cup {"labels"} |->
             IF k = "labels" THEN Dict(Over(OwnLabels(v), RequiredLabels)) ELSE v.dict[k]])

InterpolateAll ==
  /\ pc = "load" /\ ~interpolated /\ interpolated' = TRUE
  /\ normalized' = [t \in Types |-> [n \in Names(t) |-> Interpolate(normalized[t][n])]]
  /\ UNCHANGED <<given, pc, todo, findings>>

Due(t, n) == pc = "load" /\ interpolated /\ <<t, n>> \in todo

\* Mutant: an instance that is null is left out.
LoadInstanceDrops(t, n) ==
  /\ Due(t, n)
  /\ todo' = todo \ {<<t, n>>}
  /\ normalized' =
       IF normalized[t][n] = Null
         THEN [normalized EXCEPT ![t] = [m \in DOMAIN @ \ {n} |-> @[m]]]
         ELSE [normalized EXCEPT ![t][n] = Labelled(WithDefaults(t, @))]
  /\ UNCHANGED <<given, pc, findings, interpolated>>

\* One turn of the loop over the instances.
LoadInstance(t, n) ==
  LET merged == WithDefaults(t, normalized[t][n])
  IN /\ Due(t, n) /\ Labellable(merged)
     /\ todo' = todo \ {<<t, n>>}
     /\ normalized' = [normalized EXCEPT ![t][n] = Labelled(merged)]
     /\ UNCHANGED <<given, pc, findings, interpolated>>

\* A TypeError that nobody catches.
RaiseAt(t, n) ==
  /\ Due(t, n) /\ ~Labellable(WithDefaults(t, normalized[t][n]))
  /\ pc' = "raised"
  /\ UNCHANGED <<given, normalized, findings, interpolated, todo>>

ValidateLoaded ==
  /\ interpolated /\ todo = {}
  /\ Validate
  /\ UNCHANGED <<interpolated, todo>>

Next ==
  \/ InterpolateAll
  \/ \E t \in Types : \E n \in Names(t) : LoadInstance(t, n) \/ RaiseAt(t, n)
  \/ ValidateLoaded

Spec == Init /\ [][Next]_vars
-------------------------------------------------------------------------------
Loaded(t, n) == interpolated /\ <<t, n>> \notin todo
Written(t, n) == Interpolate(given.instances[t][n])

Explicit(v) == v # Null /\ ~IsDict(v)

\* The instance says nothing at p, and nothing else where p begins.
Omitted(v, p) ==
  /\ GetPath(v, p) = Null
  /\ \A k \in 0 .. Len(p) : ~Explicit(GetPath(v, SubSeq(p, 1, k)))

\* What every dict gets: labels, and in them the required ones.
Stamped(p) == p = <<"labels">> \/ \E k \in DOMAIN RequiredLabels : p = <<"labels", k>>

(***************************************************************************)
(* What deep_merge is for, place by place: what an instance says itself    *)
(* stands, a default fills what the instance omits ("never overrides an    *)
(* explicit value"), also inside a dict the instance has begun, and        *)
(* nothing comes from anywhere else but the required labels.               *)
(***************************************************************************)
FieldsByPrecedence ==
  \A t \in Types : \A n \in Names(t) : Loaded(t, n) =>
    \A p \in Paths : ~Stamped(p) =>
      LET own     == GetPath(Written(t, n), p)
          default == GetPath(given.defaults[t], p)
          result  == GetPath(normalized[t][n], p)
      IN /\ Explicit(own) => result = own
         /\ Explicit(default) /\ Omitted(Written(t, n), p) => result = default
         /\ Explicit(result) => result \in {own, default}

(***************************************************************************)
(* Every instance that is a dict carries every required label, with the    *)
(* deployment's owner unless instance or default declare another           *)
(* ("unconditionally, as of 2026-08-25").                                  *)
(***************************************************************************)
LabelsComplete ==
  \A t \in Types : \A n \in Names(t) : Loaded(t, n) /\ IsDict(normalized[t][n]) =>
    \A k \in DOMAIN RequiredLabels :
      /\ k \in DOMAIN OwnLabels(normalized[t][n])
      /\ k \notin DOMAIN OwnLabels(Written(t, n)) \cup DOMAIN OwnLabels(given.defaults[t]) =>
           OwnLabels(normalized[t][n])[k] = RequiredLabels[k]

(***************************************************************************)
(* A token that a deployment writes anywhere in an instance is the value   *)
(* declared at its top in what Terraform gets, in labels and dicts too.    *)
(***************************************************************************)
TokensResolved ==
  \A t \in Types : \A n \in Names(t) : Loaded(t, n) =>
    \A p \in Paths :
      LET own == GetPath(given.instances[t][n], p)
      IN Resolves(own) => GetPath(normalized[t][n], p) = Text(Tokens[own.text])

-------------------------------------------------------------------------------
(***************************************************************************)
(* load_deployment: the tokens are applied "before the resource_defaults   *)
(* merge so a default value can also use these tokens".                    *)
(***************************************************************************)
DefaultTokensResolved ==
  \A t \in Types : \A n \in Names(t) : Loaded(t, n) =>
    \A p \in Paths :
      LET default == GetPath(given.defaults[t], p)
      IN Resolves(default) /\ Omitted(Written(t, n), p) =>
           GetPath(normalized[t][n], p) = Text(Tokens[default.text])
===============================================================================
