------------------------------- MODULE Provider -------------------------------
(***************************************************************************)
(* The life of the autoscaler's processes: a replica that wins the         *)
(* election builds the Azure provider step by step (azure_manager.go,      *)
(* azure_cache.go, azure_cloud_provider.go), then serves the core's calls. *)
(* Any error on the way is fatal, and the replica that takes over starts   *)
(* from nothing but the same input: flags, files, environment and Azure.   *)
(*                                                                         *)
(* How node groups scale is the subject of the other modules; what is in   *)
(* Azure does not change here, but every call to it may fail.              *)
(***************************************************************************)
EXTENDS LeaderElection, Config, ArmTemplate, NodeTemplate

CONSTANTS
    Inputs,         \* what the processes may be given and find in Azure, by name
    Steps           \* attempts at the first refresh (6 in the code)

ASSUME StepsAssumption == Steps \in Nat \ {0}
\* A spec of --nodes: its sizes, and the name of a scale set, an agent pool, or a VMs
\* pool and a size in it; `ok` where it could be parsed.
SpecType == [ok : BOOLEAN, min : Int, max : Int, head : STRING, sku : Seq(STRING)]
\* Names identify scale sets, and ids identify machines, in Azure.  An instance is in one
\* scale set, and in a flexible one if it is a virtual machine.  A VMs pool is named with
\* a size, and its machines are in no scale set.  A size is a name in tokens.
ASSUME InputsAssumption ==
    \A name \in DOMAIN Inputs :
        LET in    == Inputs[name]
            pools == {p.name : p \in in.pools}
        IN  /\ in.specs \in Seq(SpecType)
            /\ in.template \in Seq(Resource)
            /\ IsFiniteSet(in.scaleSets)
            /\ \A v, w \in in.scaleSets : v.name = w.name => v = w
            /\ \A v, w \in in.scaleSets : v.instances \cap w.instances # {} => v = w
            /\ \A v \in in.scaleSets :
                  /\ v.sku \in Seq(STRING)
                  /\ \A inst \in v.instances : inst.azure /\ (v.uniform => ~inst.vm)
            /\ \A v, w \in in.vms : v.instance = w.instance => v = w
            /\ \A v \in in.vms : v.instance.vm /\ v.instance.azure
            /\ \A i \in DOMAIN in.specs : in.specs[i].sku = <<>> => in.specs[i].head \notin pools
            /\ \A v \in in.vms, w \in in.scaleSets : v.pool \in pools => v.instance \notin w.instances

VARIABLES
    scenario,   \* the name of the one of Inputs that is the case
    step,       \* step[r]: how far the process of r has come
    done,       \* done[r]: specs of --nodes that have been registered
    tries,      \* tries[r]: failed attempts at the first refresh
    up,         \* up[r]: the provider is built and the core calls it
    config,     \* config[r]: AzureManager.config
    client,     \* client[r]: AzureManager.azClient
    cache,      \* cache[r]: azureCache
    groups,     \* groups[r]: registeredNodeGroups
    answer      \* the last answer to the core

procVars == <<step, done, tries, up, config, client, cache, groups>>
vars == <<leVars, scenario, procVars, answer>>

input == Inputs[scenario]

\* The steps of createAzureManagerInternal, of which the last but one make a refresh.
StartUp == {"config", "client", "load", "skus", "groups",
            "discover", "fetch", "publish", "running"}

NoClient == [err |-> TRUE, agentPool |-> FALSE, agentPoolEndpoint |-> "",
             arm |-> [endpoint |-> "", subscription |-> ""]]

\* An empty cache.  `first` remembers that the first load was complete.
NewCache == [scaleSets |-> {}, vms |-> {}, pools |-> {}, api |-> {}, owner |-> <<>>,
             unowned |-> {}, options |-> <<>>, first |-> FALSE]

NoAnswer == [query |-> "none"]
NoGroup == [id |-> [head |-> "", sku |-> <<>>], kind |-> "none"]

At(r, s) == stage[r] = "leading" /\ step[r] = s
Goto(r, s) == step' = [step EXCEPT ![r] = s]

\* The memory of a process that has ended.
Forget(r) ==
    /\ step' = [step EXCEPT ![r] = "config"]
    /\ done' = [done EXCEPT ![r] = 0]
    /\ tries' = [tries EXCEPT ![r] = 0]
    /\ up' = [up EXCEPT ![r] = FALSE]
    /\ config' = [config EXCEPT ![r] = Defaults]
    /\ client' = [client EXCEPT ![r] = NoClient]
    /\ cache' = [cache EXCEPT ![r] = NewCache]
    /\ groups' = [groups EXCEPT ![r] = <<>>]

(***************************************************************************)
(* Configuration and clients: createAzureManagerInternal.                  *)
(***************************************************************************)

\* What becomes of each input.
Configured == [name \in DOMAIN Inputs |-> BuildAzureConfig(Inputs[name])]

\* Mutant: a process whose configuration is refused waits for the lease again.
BuildConfigAgain(r) ==
    LET built == Configured[scenario]
    IN  /\ At(r, "config")
        /\ IF built.err \/ ~KnownCloud(built.cfg)
           THEN stage' = [stage EXCEPT ![r] = "standby"] /\ UNCHANGED <<holder, age, since, faults>>
                /\ Forget(r)
           ELSE /\ Goto(r, "client")
                /\ config' = [config EXCEPT ![r] = built.cfg]
                /\ UNCHANGED <<leVars, done, tries, up, client, cache, groups>>
        /\ UNCHANGED scenario

BuildConfig(r) ==
    LET built == Configured[scenario]
    IN  /\ At(r, "config")
        /\ IF built.err \/ ~KnownCloud(built.cfg)
           THEN Fatal(r) /\ Forget(r)
           ELSE /\ Goto(r, "client")
                /\ config' = [config EXCEPT ![r] = built.cfg]
                /\ UNCHANGED <<leVars, done, tries, up, client, cache, groups>>
        /\ UNCHANGED scenario

NewClient(r) ==
    LET built == newAzClient(input, config[r])
    IN  /\ At(r, "client")
        /\ IF built.err
           THEN Fatal(r) /\ Forget(r)
           ELSE /\ Goto(r, "load")
                /\ client' = [client EXCEPT ![r] = built]
                /\ UNCHANGED <<leVars, done, tries, up, config, cache, groups>>
        /\ UNCHANGED scenario

(***************************************************************************)
(* Loading the cache.                                                      *)
(***************************************************************************)

\* Mutant: the VMs pools are left to the first refresh.
fetchAzureResourcesNoPools(c, enabled, failing) ==
    [c EXCEPT
        !.scaleSets = IF failing = "scaleSets" THEN @ ELSE input.scaleSets,
        !.vms = IF failing \in {"scaleSets", "vms"} THEN @ ELSE input.vms]

\* The cache after a fetch in which one of the calls may fail: what was fetched
\* before it is kept.
fetchAzureResources(c, enabled, failing) ==
    [c EXCEPT
        !.scaleSets = IF failing = "scaleSets" THEN @ ELSE input.scaleSets,
        !.vms = IF failing \in {"scaleSets", "vms"} THEN @ ELSE input.vms,
        !.pools = IF enabled /\ failing = "nothing" THEN input.pools ELSE @]

\* The calls that may fail.
Failing(r) ==
    {"nothing", "scaleSets", "vms"} \cup (IF config[r].EnableVMsAgentPool THEN {"pools"} ELSE {})

\* The name of a node group: head, or head/sku where sku is not <<>>.
Id(head, sku) == [head |-> head, sku |-> sku]

\* Nodes of a group, as far as the cache knows: <<>> apart, a set of instances.
NodesOf(group, c) ==
    CASE group.kind = "ScaleSet" ->
            UNION {vmss.instances : vmss \in {v \in c.scaleSets : Id(v.name, <<>>) = group.id}}
      [] group.kind = "VMPool" ->
            {vm.instance : vm \in {v \in c.vms : Id(v.pool, v.sku) = group.id}}
      [] group.kind = "AgentPool" ->
            {vm.instance : vm \in {v \in c.vms : Id(v.pool, <<>>) = group.id}}

\* An agent pool with no VM in the cache is an error.
NodesFail(list, c) ==
    \E i \in DOMAIN list : list[i].kind = "AgentPool" /\ NodesOf(list[i], c) = {}

\* regenerate, once the resources are there: the index, where the last group to name
\* an instance has it, the options, nothing unowned.
Published(list, c) ==
    [c EXCEPT
        !.owner = [inst \in UNION {NodesOf(list[i], c) : i \in DOMAIN list} |->
                      list[CHOOSE i \in DOMAIN list :
                              /\ inst \in NodesOf(list[i], c)
                              /\ \A j \in DOMAIN list : j > i => inst \notin NodesOf(list[j], c)]],
        !.options = [name \in {vmss.name : vmss \in c.scaleSets} |->
                        extractAutoscalingOptionsFromScaleSetTags(
                            (CHOOSE vmss \in c.scaleSets : vmss.name = name).tags)],
        !.unowned = {}]

\* newAzureCache: an error of the first regenerate is logged and no more.
FirstLoad(r) ==
    /\ At(r, "load")
    /\ \E failing \in Failing(r) :
          /\ IF failing = "nothing" THEN UNCHANGED leVars ELSE CallFails
          /\ LET c == fetchAzureResources(NewCache, config[r].EnableVMsAgentPool, failing)
             IN  cache' = [cache EXCEPT ![r] =
                              IF failing = "nothing"
                              THEN [Published(<<>>, c) EXCEPT !.first = TRUE] ELSE c]
    /\ Goto(r, "skus")
    /\ UNCHANGED <<scenario, done, tries, up, config, client, groups>>

\* Mutant: the flag stays set although there is no list of SKUs.
WithoutDynamicListKept(cfg, skus) == cfg

\* HasVMSKUs: without any, only the static list is used.
WithoutDynamicList(cfg, skus) ==
    [cfg EXCEPT !.EnableDynamicInstanceList = @ /\ skus # {}]

\* fetchSKUCache, if it is wanted, and the check that follows it.
FetchSKUs(r) ==
    /\ At(r, "skus")
    /\ \E skus \in {input.api, {}} :
          /\ IF /\ config[r].EnableDynamicInstanceList /\ config[r].Location # ""
                /\ skus # input.api
             THEN CallFails
             ELSE /\ (~config[r].EnableDynamicInstanceList \/ config[r].Location = "") => skus = {}
                  /\ UNCHANGED leVars
          /\ cache' = [cache EXCEPT ![r].api = skus]
          /\ config' = [config EXCEPT ![r] = WithoutDynamicList(@, skus)]
    /\ Goto(r, "groups")
    /\ UNCHANGED <<scenario, done, tries, up, client, groups>>

(***************************************************************************)
(* Node groups.  A spec of --nodes is [ok, min, max, head, sku].           *)
(***************************************************************************)

\* dynamic.SpecFromString (external).
ValidSpec(spec, scaleToZero) ==
    /\ spec.ok
    /\ spec.min >= (IF scaleToZero THEN 0 ELSE 1)
    /\ spec.max >= spec.min

\* parseSKUAndVMsAgentpoolNameFromSpecName
IsVMsPool(spec, c) == spec.sku # <<>> /\ \E p \in c.pools : p.name = spec.head

\* What becomes of each exported template (AgentPool.initialize).
Normalised == [name \in DOMAIN Inputs |-> normalizeForK8sVMASScalingUp(Inputs[name].template)]

\* A VMs pool where the spec names one, else what the VM type says.
KindOf(spec, r) ==
    CASE IsVMsPool(spec, cache[r]) -> "VMPool"
      [] ~IsVMsPool(spec, cache[r]) /\ config[r].VMType = "standard" -> "AgentPool"
      [] OTHER -> "ScaleSet"

\* The group of a valid spec; `template` is the one an agent pool redeploys.
buildNodeGroupFromSpec(spec, r) ==
    [id |-> Id(spec.head, spec.sku), kind |-> KindOf(spec, r),
     min |-> spec.min, max |-> spec.max, explicit |-> TRUE,
     dynamic |-> config[r].EnableDynamicInstanceList,
     predict |-> config[r].EnableLabelPredictionsOnTemplate,
     template |-> IF KindOf(spec, r) = "AgentPool" THEN Normalised[scenario].template ELSE <<>>]

RefusedSpec(spec, r) ==
    \/ ~ValidSpec(spec, config[r].VMType = "vmss")
    \/ IsVMsPool(spec, cache[r]) /\ ~client[r].agentPool
    \/ /\ ~IsVMsPool(spec, cache[r]) /\ config[r].VMType = "standard"
       /\ Normalised[scenario].err

\* Register: a group with the same id and sizes stays.
Register(list, group) ==
    LET same == {i \in DOMAIN list : list[i].id = group.id}
    IN  IF same = {} THEN Append(list, group)
        ELSE [i \in DOMAIN list |->
                 IF i \in same /\ <<list[i].min, list[i].max>> # <<group.min, group.max>>
                 THEN group ELSE list[i]]

\* parseLabelAutoDiscoverySpec: a spec is [form, discoverer, pairs], a pair a key, its
\* value and the number it reads as.
RefusedDiscovery(d) ==
    \/ ~d.form \/ d.discoverer # "label"
    \/ \E p \in d.pairs : \/ p.key = "" \/ p.value = ""
                          \/ p.key \in {"min", "max"} /\ p.number = NotANumber
    \/ \E p, q \in d.pairs : p.key = "min" /\ q.key = "max" /\ q.number < p.number

Selector(d) == {p \in d.pairs : p.key \notin {"min", "max"}}

Limit(d, key) == {p.number : p \in {q \in d.pairs : q.key = key}}

\* The spec whose turn it is.
NextSpec(r) == input.specs[done[r] + 1]

\* ParseLabelAutoDiscoverySpecs, then fetchExplicitNodeGroups, one spec at a time; the
\* export of an agent pool's template may fail.
BuildGroups(r) ==
    /\ At(r, "groups")
    /\ \/ /\ \E d \in input.discovery : RefusedDiscovery(d)
          /\ Fatal(r) /\ Forget(r)
       \/ /\ ~\E d \in input.discovery : RefusedDiscovery(d)
          /\ done[r] < Len(input.specs)
          /\ \/ RefusedSpec(NextSpec(r), r) /\ Fatal(r) /\ Forget(r)
             \/ /\ config[r].VMType = "standard" /\ ~IsVMsPool(NextSpec(r), cache[r])
                /\ Crash(r) /\ Forget(r)
             \/ /\ ~RefusedSpec(NextSpec(r), r)
                /\ groups' = [groups EXCEPT ![r] =
                                 Register(@, buildNodeGroupFromSpec(NextSpec(r), r))]
                /\ done' = [done EXCEPT ![r] = @ + 1]
                /\ UNCHANGED <<leVars, step, tries, up, config, client, cache>>
       \/ /\ ~\E d \in input.discovery : RefusedDiscovery(d)
          /\ done[r] = Len(input.specs)
          /\ Goto(r, "discover")
          /\ UNCHANGED <<leVars, done, tries, up, config, client, cache, groups>>
    /\ UNCHANGED scenario

(***************************************************************************)
(* Refreshing.                                                             *)
(***************************************************************************)

\* The minimum or maximum of a scale set: by its tag, else the strictest of the
\* discovery specs, else NotANumber.
SizeOf(vmss, key) ==
    LET limits == UNION {Limit(d, key) : d \in input.discovery}
    IN  CASE <<key>> \in DOMAIN vmss.tags -> vmss.tags[<<key>>].number
          [] <<key>> \notin DOMAIN vmss.tags /\ limits # {} ->
                CHOOSE n \in limits : \A m \in limits : IF key = "min" THEN n >= m ELSE n <= m
          [] OTHER -> NotANumber

\* getFilteredScaleSets: the scale sets whose tags all specs match, if their sizes
\* make sense.
Discovered(c) ==
    {vmss \in c.scaleSets :
        /\ DOMAIN vmss.tags # {}
        /\ \A d \in input.discovery :
              /\ Selector(d) # {}
              /\ \A p \in Selector(d) : <<p.key>> \in DOMAIN vmss.tags
                                         /\ vmss.tags[<<p.key>>].text = <<p.value>>
        /\ SizeOf(vmss, "min") >= 0
        /\ SizeOf(vmss, "max") >= SizeOf(vmss, "min")}

\* The groups of the scale sets that are discovered.
FoundGroups(c, cfg) ==
    {[id |-> Id(vmss.name, <<>>), min |-> SizeOf(vmss, "min"), max |-> SizeOf(vmss, "max"),
      explicit |-> FALSE, kind |-> "ScaleSet", dynamic |-> cfg.EnableDynamicInstanceList,
      predict |-> cfg.EnableLabelPredictionsOnTemplate] : vmss \in Discovered(c)}

\* Explicit groups stay as they are, the others become those of `new`.
Merged(list, new) ==
    LET kept == Those(list, {i \in DOMAIN list :
                                list[i].explicit \/ \E h \in new : h.id = list[i].id})
    IN  [i \in DOMAIN kept |->
            IF kept[i].explicit THEN kept[i] ELSE CHOOSE h \in new : h.id = kept[i].id]
        \o SetToSeq({h \in new : \A i \in DOMAIN list : list[i].id # h.id})

\* Agent pools cannot be discovered: the error is logged.
fetchAutoNodeGroups(list, c, cfg) ==
    CASE input.discovery = {} -> Merged(list, {})
      [] input.discovery # {} /\ cfg.VMType = "vmss" -> Merged(list, FoundGroups(c, cfg))
      [] OTHER -> list

\* Refresh, called by the core before a loop, once the cache's time is up.
Refresh(r) ==
    /\ At(r, "running")
    /\ Goto(r, "discover")
    /\ UNCHANGED <<leVars, scenario, done, tries, up, config, client, cache, groups>>

\* forceRefresh, first part.  A group that is registered clears the unowned instances.
Discover(r) ==
    /\ At(r, "discover")
    /\ \E list \in {fetchAutoNodeGroups(groups[r], cache[r], config[r])} :
          /\ groups' = [groups EXCEPT ![r] = list]
          /\ cache' = [cache EXCEPT ![r].unowned =
                          IF \E i \in DOMAIN list : ~Contains(groups[r], list[i]) THEN {} ELSE @]
    /\ Goto(r, "fetch")
    /\ UNCHANGED <<leVars, scenario, done, tries, up, config, client>>

\* Mutant: one attempt too many.
MayRetryOnceMore(r) == tries[r] < Steps

\* kretry.OnError: Steps attempts in all.
MayRetry(r) == tries[r] + 1 < Steps

\* A call fails in forceRefresh, which leaves the cache as c.  The core reports the error
\* and goes on; at the start throttling and server errors are tried again after two
\* minutes (isErrorRetriable), others are fatal.
RefreshFails(r, c) ==
    \/ /\ up[r]
       /\ CallFails
       /\ cache' = [cache EXCEPT ![r] = c]
       /\ Goto(r, "running")
       /\ UNCHANGED <<done, tries, up, config, client, groups>>
    \/ /\ ~up[r] /\ MayRetry(r)
       /\ CallFails
       /\ cache' = [cache EXCEPT ![r] = c]
       /\ tries' = [tries EXCEPT ![r] = @ + 1]
       /\ Goto(r, "discover")
       /\ UNCHANGED <<done, up, config, client, groups>>
    \/ ~up[r] /\ Crash(r) /\ Forget(r)

\* regenerate: the resources.
Fetch(r) ==
    /\ At(r, "fetch")
    /\ \E failing \in Failing(r) :
          LET c == fetchAzureResources(cache[r], config[r].EnableVMsAgentPool, failing)
          IN  \/ failing # "nothing" /\ RefreshFails(r, c)
              \/ /\ failing = "nothing"
                 /\ cache' = [cache EXCEPT ![r] = c]
                 /\ Goto(r, "publish")
                 /\ UNCHANGED <<leVars, done, tries, up, config, client, groups>>
    /\ UNCHANGED scenario

\* regenerate: the nodes of every group.  Listing the instances of a scale set may fail.
Publish(r) ==
    /\ At(r, "publish")
    /\ \/ /\ \E i \in DOMAIN groups[r] :
                groups[r][i].kind = "ScaleSet" /\ NodesOf(groups[r][i], cache[r]) # {}
          /\ RefreshFails(r, cache[r])
       \/ /\ NodesFail(groups[r], cache[r])
          /\ ~up[r] /\ Fatal(r) /\ Forget(r)
       \/ /\ NodesFail(groups[r], cache[r]) => up[r]
          /\ cache' = [cache EXCEPT ![r] =
                          IF NodesFail(groups[r], cache[r]) THEN @ ELSE Published(groups[r], @)]
          /\ up' = [up EXCEPT ![r] = TRUE]
          /\ Goto(r, "running")
          /\ UNCHANGED <<leVars, done, tries, config, client, groups>>
    /\ UNCHANGED scenario

(***************************************************************************)
(* Serving the core.                                                       *)
(***************************************************************************)

\* TemplateNodeInfo of the three kinds of groups: the nodes that may be returned.
TemplateNodeInfo(group, r) ==
    CASE group.kind = "ScaleSet" ->
            UNION {buildNodeFromTemplate(buildNodeTemplateFromVMSS(vmss), group.dynamic,
                                         group.predict, cache[r].api) :
                      vmss \in {v \in cache[r].scaleSets : Id(v.name, <<>>) = group.id}}
      [] group.kind = "VMPool" ->
            UNION {buildNodeFromTemplate(
                      buildNodeTemplateFromVMPool(pool, config[r].Location, group.id.sku),
                      config[r].EnableDynamicInstanceList, FALSE, cache[r].api) :
                      pool \in {p \in cache[r].pools : p.name = group.id.head}}
      [] group.kind = "AgentPool" -> {}

AskTemplate(r) ==
    /\ At(r, "running")
    /\ \E i \in DOMAIN groups[r] : \E node \in TemplateNodeInfo(groups[r][i], r) :
          answer' = [query |-> "template", group |-> groups[r][i], node |-> node]
    /\ UNCHANGED <<leVars, scenario, procVars>>

\* GetOptions: a scale set's tags over the defaults; the others have none.
AskOptions(r) ==
    /\ At(r, "running")
    /\ \E i \in DOMAIN groups[r] :
          /\ groups[r][i].kind = "ScaleSet"
          /\ groups[r][i].id.head \in DOMAIN cache[r].options
          /\ answer' = [query |-> "options", group |-> groups[r][i],
                        options |-> GetScaleSetOptions(cache[r].options[groups[r][i].id.head],
                                                       input.defaults)]
    /\ UNCHANGED <<leVars, scenario, procVars>>

\* Mutant: what a cluster of scale sets omits, a mixed one omits too.
OmittedMixed(inst, c, vmType) ==
    \/ inst.vm /\ vmType = "vmss" /\ \A vmss \in c.scaleSets : vmss.uniform
    \/ ~inst.vm /\ vmType = "standard"

\* FindForInstance: machines that cannot belong to any group.
Omitted(inst, c, vmType) ==
    \/ inst.vm /\ vmType = "vmss" /\ c.pools = {} /\ \A vmss \in c.scaleSets : vmss.uniform
    \/ ~inst.vm /\ vmType = "standard"

\* NodeGroupForNode, for a node of Azure or of somebody else.
AskOwner(r) ==
    /\ At(r, "running")
    /\ \E inst \in input.nodes :
          LET c       == cache[r]
              omitted == inst.azure /\ inst \notin c.unowned /\ Omitted(inst, c, config[r].VMType)
              known   == inst.azure /\ inst \notin c.unowned /\ ~omitted /\ inst \in DOMAIN c.owner
          IN  /\ answer' = [query |-> "owner", node |-> inst,
                            group |-> IF known THEN c.owner[inst] ELSE NoGroup]
              /\ cache' = [cache EXCEPT ![r].unowned = IF omitted THEN @ \cup {inst} ELSE @]
    /\ UNCHANGED <<leVars, scenario, step, done, tries, up, config, client, groups>>

(***************************************************************************)
(* The whole.                                                              *)
(***************************************************************************)

Init ==
    /\ LEInit
    /\ scenario \in DOMAIN Inputs
    /\ step = [r \in Replica |-> "config"]
    /\ done = [r \in Replica |-> 0]
    /\ tries = [r \in Replica |-> 0]
    /\ up = [r \in Replica |-> FALSE]
    /\ config = [r \in Replica |-> Defaults]
    /\ client = [r \in Replica |-> NoClient]
    /\ cache = [r \in Replica |-> NewCache]
    /\ groups = [r \in Replica |-> <<>>]
    /\ answer = NoAnswer

\* The election goes on beside run().
Elect(r) == (Acquire(r) \/ Renew(r) \/ StopLeading(r)) /\ UNCHANGED <<scenario, procVars>>

\* The process ends: it has lost the lease, or is killed.
End(r) == (OnStoppedLeading(r) \/ Crash(r)) /\ Forget(r) /\ UNCHANGED scenario

Start(r) == Restart(r) /\ UNCHANGED <<scenario, procVars>>

Time == Tick /\ UNCHANGED <<scenario, procVars>>

Build(r) ==
    \/ BuildConfig(r) \/ NewClient(r) \/ FirstLoad(r) \/ FetchSKUs(r)
    \/ BuildGroups(r) \/ Discover(r) \/ Fetch(r) \/ Publish(r)

Ask(r) == AskTemplate(r) \/ AskOptions(r) \/ AskOwner(r)

Next ==
    \/ Time /\ answer' = NoAnswer
    \/ \E r \in Replica : Elect(r) /\ answer' = NoAnswer
    \/ \E r \in Replica : End(r) /\ answer' = NoAnswer
    \/ \E r \in Replica : Start(r) /\ answer' = NoAnswer
    \/ \E r \in Replica : Build(r) /\ answer' = NoAnswer
    \/ \E r \in Replica : Refresh(r) /\ answer' = NoAnswer
    \/ \E r \in Replica : Ask(r)

Spec == Init /\ [][Next]_vars

\* A container that has ended for good, with the node it ran on, is a dead replica that
\* stays so; one of the replicas always comes back.
OneComesBack ==
    /\ \A r \in Replica : stage[r] = "dead"
    /\ \E r \in Replica : Start(r)
    /\ answer' = NoAnswer

\* Processes take their steps, client-go its own in time, and time passes.
FairSpec ==
    /\ Spec
    /\ WF_vars(Time /\ answer' = NoAnswer)
    /\ WF_vars(OneComesBack)
    /\ \A r \in Replica :
          /\ WF_vars(Elect(r) /\ answer' = NoAnswer)
          /\ WF_vars(OnStoppedLeading(r) /\ End(r) /\ answer' = NoAnswer)
          /\ WF_vars(Build(r) /\ answer' = NoAnswer)

(***************************************************************************)
(* Properties.                                                             *)
(***************************************************************************)

\* A process that is not in run() remembers nothing; the first refresh is attempted
\* no more than Steps times.
TypeOK ==
    /\ LETypeOK
    /\ scenario \in DOMAIN Inputs
    /\ step \in [Replica -> StartUp]
    /\ done \in [Replica -> 0..Len(input.specs)]
    /\ tries \in [Replica -> 0..(Steps - 1)]
    /\ up \in [Replica -> BOOLEAN]
    /\ answer.query \in {"none", "template", "options", "owner"}
    /\ \A r \in Replica : stage[r] \in {"standby", "dead"} =>
          /\ step[r] = "config" /\ done[r] = 0 /\ tries[r] = 0 /\ ~up[r]
          /\ config[r] = Defaults /\ client[r] = NoClient
          /\ cache[r] = NewCache /\ groups[r] = <<>>

\* As far as the election is concerned, building and serving the provider are failing
\* calls and fatal errors: run() does not touch the election in any other way.
ImplementsElection == LESpec

\* input.good says, case by case, whether the flags, files and variables of the input
\* are in order (azure_config.go, azure_manager.go, azure_autodiscovery.go).  With
\* others no process ever serves the core.
RefusedNeverRuns == \A r \in Replica : up[r] => input.good

\* With an input in order, whatever fails and whoever loses the lease or dies, some
\* replica serves the core in the end, and goes on doing so.
RunsAtLast == input.good => <>[](\E r \in Replica : stage[r] = "leading" /\ up[r])

\* input.serves: the groups an operator expects of the input, explicit ones by their
\* flags and discovered ones by their tags, each of the right kind.  A process whose
\* first load (newAzureCache) was complete serves just these, whatever fails later: a
\* VMs pool is told from a scale set by that load and never looked at again.
ServesTheInput ==
    \A r \in Replica : At(r, "running") /\ cache[r].first =>
        {[id |-> groups[r][i].id, kind |-> groups[r][i].kind,
          min |-> groups[r][i].min, max |-> groups[r][i].max] : i \in DOMAIN groups[r]}
        = input.serves

\* What a process has found missing it does not use later.  No cache is loaded without
\* the client that lists VMs pools ("should never happen when enableVMsAgentPool toggle
\* is on", azure_cache.go), and no scale set is built to look sizes up in a list of SKUs
\* that was never loaded: createAzureManagerInternal clears the flag before it builds any.
DependenciesPresent ==
    \A r \in Replica :
        /\ stage[r] = "leading" /\ step[r] \notin {"config", "client"} =>
              (config[r].EnableVMsAgentPool => client[r].agentPool)
        /\ \A i \in DOMAIN groups[r] : groups[r][i].dynamic => cache[r].api # {}

\* The variables that win over another one for the same field.
Preferred == {"AZURE_TENANT_ID", "AZURE_CLIENT_ID", "ARM_USE_WORKLOAD_IDENTITY_EXTENSION",
              "AZURE_VMSS_CACHE_TTL", "AZURE_VMSS_VMS_CACHE_TTL", "AZURE_ENABLE_VMSS_FLEX"}

\* BuildAzureConfig: the environment wins over the file, a legacy name over the one
\* that replaces it, and the file over the defaults.  VMType, subscription and the like,
\* which are completed afterwards, and the back-off variables apart.
EnvironmentWins ==
    \A r \in Replica : At(r, "client") =>
        LET rows   == StringVars \o IdentityVars \o CacheVars \o FeatureVars \o LimitVars
            Of(f)  == {rows[i][2] : i \in {j \in DOMAIN rows : rows[j][1] = f}}
            Set(f) == {v \in Of(f) : Given(input.env, v)}
            Old(f) == {l \in DOMAIN input.file \cap DOMAIN LegacyField : LegacyField[l] = f}
        IN  \A f \in {rows[i][1] : i \in DOMAIN rows}
                     \ {"VMType", "SubscriptionID", "MaxDeploymentsCount"} :
              config[r][f] =
                CASE Set(f) # {} ->
                        input.env[CHOOSE v \in Set(f) :
                                     Set(f) \cap Preferred # {} => v \in Preferred].value
                  [] Set(f) = {} /\ Old(f) # {} -> input.file[CHOOSE l \in Old(f) : TRUE]
                  [] Set(f) = {} /\ Old(f) = {} /\ f \in DOMAIN input.file -> input.file[f]
                  [] OTHER -> Defaults[f]

\* Whatever was asked, discovered or failed before, the nodes of the groups of --nodes are
\* theirs for NodeGroupForNode: no other group takes them, nor are they ever taken for
\* machines nobody manages (FindForInstance).  And a node is a group's that has it.
NodesOwned ==
    answer.query = "owner" =>
        /\ \A r \in Replica : At(r, "running") =>
              \A i \in DOMAIN groups[r] :
                  groups[r][i].explicit /\ answer.node \in NodesOf(groups[r][i], input)
                  => answer.group = groups[r][i]
        /\ answer.group # NoGroup => answer.node \in NodesOf(answer.group, input)

\* The template an agent pool redeploys has what the reference keeps of the exported
\* one: no master is rewritten, and neither network security group nor route table.
TemplateNormalised ==
    \A r \in Replica : \A i \in DOMAIN groups[r] :
        /\ groups[r][i].kind = "AgentPool"
        /\ \A j \in DOMAIN input.template : WellFormed(input.template[j])
        => groups[r][i].template = Redeployable(input.template)

\* What an operator, and Azure, have to do their part for in the next three properties.
\* The labels and taints that are meant have their tags, on every scale set.
TagsMeant(in) ==
    \A vmss \in in.scaleSets :
        /\ \A label \in DOMAIN in.labels :
              LabelMeant(vmss.tags, label, in.labels[label],
                         BuildAzureConfig(in).cfg.EnableLabelPredictionsOnTemplate)
        /\ \A taint \in in.taints : TaintMeant(vmss.tags, taint)

\* The API counts Nvidia's GPUs, no tag says that there are none, and nobody sets the
\* label of the accelerator himself.
AcceleratorsCounted(in) ==
    /\ \A c \in in.api : isNvidiaEnabledSKU(c.sku) => c.GPUs > 0
    /\ \A vmss \in in.scaleSets :
          LET told == extractAllocatableResourcesFromScaleSet(vmss.tags)
          IN  /\ Nvidia \in DOMAIN told => told[Nvidia] > 0
              /\ AKS("accelerator") \notin DOMAIN vmss.tags
              /\ AKS("accelerator") \notin DOMAIN extractLabelsFromTags(vmss.tags)
    /\ \A pool \in in.pools : AKS("accelerator") \notin DOMAIN pool.labels

\* The rows of the static list are those the generator writes for what the API says, and
\* no tag replaces what the size determines.
ListGenerated(in) ==
    /\ \A c \in in.api, row \in StaticList :
          SameSize(c.sku, row.sku) /\ Missing \notin {c.vCPUs, c.MemoryMB} =>
             /\ row.VCPU = GeneratedRow(c).VCPU /\ row.GPU = GeneratedRow(c).GPU
             /\ row.MemoryMb = GeneratedRow(c).MemoryMb
    /\ \A vmss \in in.scaleSets :
          DOMAIN extractAllocatableResourcesFromScaleSet(vmss.tags) \cap SizeResources = {}

\* input.labels, input.taints: what the operator meant by the tags of the scale sets,
\* names with slashes and underscores included (README of the provider), and the pool
\* that the new one of two tags names, by the old label and by the new one.  A node
\* that is predicted for a scale set has them all.
TagsArrive ==
    answer.query = "template" /\ answer.group.kind = "ScaleSet" =>
        /\ \A label \in DOMAIN input.labels : /\ label \in DOMAIN answer.node.labels
                                              /\ answer.node.labels[label] = input.labels[label]
        /\ input.taints \subseteq answer.node.taints

\* A node that is predicted to carry the label of Nvidia's accelerators is predicted to
\* have one: the label comes from a list of names, the number from the list of sizes.
AcceleratorHasGPU ==
    answer.query = "template" /\ AKS("accelerator") \in DOMAIN answer.node.labels =>
        Nvidia \in DOMAIN answer.node.capacity /\ answer.node.capacity[Nvidia] > 0

\* Where both the SKU API and the static list know a size, the node that is predicted
\* is the same whichever is used; and a size only the API knows is predicted as the row
\* the generator would write for it.  The list was generated from that API, with the
\* same rounding of fractions of a gigabyte.
ListsAgree ==
    answer.query = "template" /\ answer.group.kind = "ScaleSet" /\ answer.group.dynamic =>
        \A vmss \in {v \in input.scaleSets : Id(v.name, <<>>) = answer.group.id} :
            LET known == GetInstanceTypeStatically(vmss.sku)
                rows  == IF known # {} THEN known
                         ELSE {GeneratedRow(c) : c \in Capabilities(vmss.sku, input.api)}
            IN  \E type \in rows :
                   \A resource \in DOMAIN Capacity(type, vmss.sku) :
                       answer.node.capacity[resource] = Capacity(type, vmss.sku)[resource]
===============================================================================
