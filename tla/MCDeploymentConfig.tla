-------------------------- MODULE MCDeploymentConfig --------------------------
\* DeploymentConfig on small instances, for TLC.
EXTENDS DeploymentConfig, TLC

\* All ways to give some of the fields one of their values.
Dicts(values) ==
  LET fields == DOMAIN values
  IN {Dict(f) : f \in UNION {{g \in [ks -> UNION {values[k] : k \in ks}] :
                                \A k \in ks : g[k] \in values[k]} : ks \in SUBSET fields}}

Network == {Text("main"), Text("other")}
Location == {Text("{region}"), Text("south")}
Accesses == Dicts([network |-> Network, subnet |-> {Text("s"), Null}]) \cup {Null, Text("s")}
Labels == {Null, NoFields, Dict([team |-> Text("{owner}")]), Dict([owner |-> Text("me")]),
           Dict([owner |-> Null])}

Services == Dicts([location |-> Location, vpc_access |-> Accesses])
LabelledServices == Dicts([location |-> Location, vpc_access |-> Accesses, labels |-> Labels])
Subnets == Dicts([vpc |-> Network, region |-> Location]) \cup {Null}
OneSubnet == Dict([vpc |-> Text("main"), region |-> Text("{region}")])

ServiceDefaults ==
  {NoFields,
   Dict([location |-> Text("south"), labels |-> Dict([team |-> Text("t")])]),
   Dict([vpc_access |-> Dict([network |-> Text("main"), tier |-> Text("{region}")])]),
   Dict([vpc_access |-> Null])}

\* The deployments that take each of their parts from a set.  Here: the ones
\* with a VPC, one subnet that is in order, and nothing else.
Plain ==
  [region |-> {"south"}, owner |-> {"ops"}, enabled |-> {Types},
   protected |-> {{"cloudrun"}}, policy |-> {<<>>},
   defaults |-> [t \in Types |-> {NoFields}],
   instances |-> [t \in Types |-> CASE t = "vpc"    -> {[main |-> NoFields]}
                                    [] t = "subnet" -> {[s |-> OneSubnet]}
                                    [] OTHER        -> {<<>>}]]

Of(set) ==
  [vpc: set["vpc"], subnet: set["subnet"], cloudrun: set["cloudrun"], vm: set["vm"],
   service_accounts: set["service_accounts"]]

Those(c) ==
  [region: c.region, owner: c.owner, defaultOwner: {"DevOps"}, enabled: c.enabled,
   protected: c.protected, policy: c.policy, defaults: Of(c.defaults), instances: Of(c.instances)]

\* Every wiring of service and subnet, and every kind of labels.
Wired ==
  [Plain EXCEPT !.defaults.cloudrun = ServiceDefaults, !.instances.cloudrun = [{"app"} -> Services],
                !.instances.subnet = [{"s"} -> Subnets]]
Wirings ==
  Those([Wired EXCEPT !.region = {"south", ""}])
  \cup Those([Wired EXCEPT !.enabled = {Types \ {"subnet"}, {"cloudrun"}},
                           !.instances.subnet = [{"s"} -> {OneSubnet}]])
  \cup Those([Wired EXCEPT !.region = {"south", ""}, !.owner = {"ops", ""},
                           !.instances.subnet = [{"s"} -> {OneSubnet}],
                           !.instances.cloudrun = [{"app"} -> LabelledServices]])

\* Every kind of VM.
Accounts == Dicts([enabled |-> {No}, email |-> {Text("mail"), Text("")},
                   name |-> {Text("sa"), Text("other")}]) \cup {Null}
Vms == Dicts([zone |-> {Text("south-a"), Text("south")}, subnet |-> {Text("s"), Text("other")},
              service_account |-> Accounts])
VmDefaults == {NoFields, Dict([service_account |-> Dict([enabled |-> No])]),
               Dict([service_account |-> Dict([name |-> Text("sa")]), zone |-> Text("mars-a")])}
Machines ==
  Those([Plain EXCEPT !.defaults.vm = VmDefaults, !.instances.vm = [{"m"} -> Vms],
                      !.enabled = {Types, Types \ {"service_accounts"}, {"vpc", "vm"}},
                      !.instances.service_accounts = {[sa |-> NoFields]}])

\* Every kind of place, written, by token or by default.
Word == {"south", "south-a", "south-z", "mars", "mars-a", "world", "{region}"}
Placed(f) == Dicts([x \in {f} |-> {Text(w) : w \in Word} \cup {Null}])
Places(t, f) ==
  Those([Plain EXCEPT !.region = {"south", "mars", ""}, !.defaults[t] = Placed(f),
                      !.instances[t] =
                        [{"x"} -> {Dict([vpc |-> Text("main"), subnet |-> Text("s"),
                                         service_account |-> Dict([enabled |-> No])]
                                        @@ v.dict) : v \in Placed(f)}]])

\* Every policy on deletion protection.
Entries == [id: {"NO_DELETION_PROTECTION", "OTHER"}, severity: {"ERROR", "WARNING", "EROR"}]
Policies ==
  Those([Plain EXCEPT !.protected = SUBSET {"cloudrun"},
                      !.policy = {<<>>} \cup {<<a>> : a \in Entries} \cup (Entries \X Entries),
                      !.defaults.cloudrun = Dicts([deletion_protection |-> {No}]),
                      !.instances.cloudrun =
                        [{"app"} -> Dicts([location |-> {Text("south")},
                                           deletion_protection |-> {No, Null, Text("yes")}])]])

\* Every kind of instance and field that is not what the file should have.
Odd == {Null, No, Text("s"), NoFields, Dict([network |-> Text("main")])}
OddServices ==
  Odd \cup Dicts([location |-> Odd])
      \cup Dicts([location |-> {Text("south")},
                  vpc_access |-> {Dict([network |-> v, subnet |-> w]) :
                                    v \in Odd \cup {Text("main")}, w \in Odd}])
OddSubnets == Odd \cup Dicts([vpc |-> Odd \cup {Text("main")}, region |-> Odd \cup {Text("south")}])
Direct == Dict([location |-> Text("south"),
                vpc_access |-> Dict([network |-> Text("main"), subnet |-> Text("s")])])
OddVms == Odd \cup Dicts([zone |-> Odd, subnet |-> {Text("s")}, service_account |-> Odd])
OddOnes ==
  Those([Plain EXCEPT !.enabled = {Types, Types \ {"subnet"}},
                      !.instances.cloudrun = [{"app"} -> OddServices]])
  \cup Those([Plain EXCEPT !.instances.subnet = [{"s"} -> OddSubnets],
                           !.instances.cloudrun = {[app |-> Direct]}])
  \cup Those([Plain EXCEPT !.instances.vm = [{"m"} -> OddVms],
                           !.instances.service_accounts = [{"sa"} -> Odd]])
  \cup Those([Plain EXCEPT !.defaults.cloudrun = Dicts([vpc_access |-> Odd, labels |-> Odd]),
                           !.instances.cloudrun =
                             [{"app"} -> Dicts([vpc_access |-> Odd, labels |-> Odd])]])

Deployments ==
  Wirings \cup Machines \cup Policies \cup OddOnes
    \cup Places("subnet", "region") \cup Places("cloudrun", "location") \cup Places("vm", "zone")

PlacesOfFields == {<<f>> : f \in {"location", "vpc_access", "vpc", "region", "zone", "subnet"}}
                   \cup {<<"vpc_access", k>> : k \in {"network", "subnet", "tier"}}
                   \cup {<<"service_account", k>> : k \in {"enabled", "email", "name"}}
                   \cup {<<"labels", k>> : k \in {"team", "owner", "platform"}}

\* What _region_of_zone and _suffix_of_zone make of the words.
SplitWords == [w \in {"south-a", "south-z", "mars-a"} |->
                 [region |-> IF w = "mars-a" THEN "mars" ELSE "south",
                  suffix |-> IF w = "south-z" THEN "z" ELSE "a"]]
===============================================================================
