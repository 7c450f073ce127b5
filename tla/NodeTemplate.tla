---------------------------- MODULE NodeTemplate ----------------------------
(***************************************************************************)
(* The node a node group would add (azure_template.go): what the           *)
(* autoscaler simulates with when a group has no node to copy.             *)
(*                                                                         *)
(* Names and texts are sequences of tokens: words, the separators "_",     *)
(* "/", ":" and "=", the escape "~2", and one token for each prefix of a   *)
(* tag that says what the tag is for.  Locations are in lower case.  The   *)
(* value of a tag is its text and the number that ParseQuantity,           *)
(* ParseFloat or ParseDuration make of it, NotANumber if they refuse it.   *)
(* No two tags of a scale set stand for the same name.                     *)
(***************************************************************************)
EXTENDS InstanceTypes, SequencesExt

NotANumber == -1
NoLocation == ""

LabelTag == "k8s.io_cluster-autoscaler_node-template_label_"
TaintTag == "k8s.io_cluster-autoscaler_node-template_taint_"
ResourcesTag == "k8s.io_cluster-autoscaler_node-template_resources_"
OptionsTag == "k8s.io_cluster-autoscaler_node-template_autoscaling-options_"

\* Maps: one value for several names, and JoinStringMaps, which has the first override
\* the second here.
Each(names, value) == [name \in names |-> value]

f ++ g == [x \in DOMAIN f \cup DOMAIN g |-> IF x \in DOMAIN f THEN f[x] ELSE g[x]]

Effects == {"NoSchedule", "NoExecute", "PreferNoSchedule"}

Replace(text, old, new) == [i \in DOMAIN text |-> IF text[i] = old THEN new ELSE text[i]]

FirstIndex(text, token) ==
    CHOOSE i \in DOMAIN text : text[i] = token /\ \A j \in 1..(i - 1) : text[j] # token

\* What stands behind the first occurrence of a token.
After(text, token) == SubSeq(text, FirstIndex(text, token) + 1, Len(text))

Before(text, token) == SubSeq(text, 1, FirstIndex(text, token) - 1)

(***************************************************************************)
(* Tags.                                                                   *)
(***************************************************************************)

\* Mutant: the escape is undone before the slashes are put back.
DecodedSwapped(name) == Replace(Replace(name, "~2", "_"), "_", "/")

\* Slashes are written as underscores in tags, and underscores as "~2".
Decoded(name) == Replace(Replace(name, "_", "/"), "~2", "_")

TagsFor(tags, prefix) ==
    {name \in DOMAIN tags : Contains(name, prefix) /\ After(name, prefix) # <<>>}

extractLabelsFromTags(tags) ==
    LET names == TagsFor(tags, LabelTag)
    IN  [label \in {Decoded(After(n, LabelTag)) : n \in names} |->
            tags[CHOOSE n \in names : Decoded(After(n, LabelTag)) = label].text]

\* "(.*):(?:NoSchedule|NoExecute|PreferNoSchedule)", not anchored at the end.
IsTaintValue(text) ==
    \E i \in DOMAIN text : i < Len(text) /\ text[i] = ":" /\ text[i + 1] \in Effects

\* Key, value and effect, split at the first colon.
TaintOf(key, text) == [key |-> key, value |-> Before(text, ":"), effect |-> After(text, ":")]

extractTaintsFromTags(tags) ==
    {TaintOf(Decoded(After(n, TaintTag)), tags[n].text) :
        n \in {m \in DOMAIN tags : Contains(m, TaintTag) /\ IsTaintValue(tags[m].text)}}

\* The escape of a label's underscore is one more slash here.
extractAllocatableResourcesFromScaleSet(tags) ==
    LET names == {n \in TagsFor(tags, ResourcesTag) : tags[n].number # NotANumber}
        Name(n) == Replace(Replace(After(n, ResourcesTag), "_", "/"), "~2", "/")
    IN  [resource \in {Name(n) : n \in names} |->
            tags[CHOOSE n \in names : Name(n) = resource].number]

extractAutoscalingOptionsFromScaleSetTags(tags) ==
    LET names == {n \in TagsFor(tags, OptionsTag) : n[1] = OptionsTag}
    IN  [option \in {After(n, OptionsTag) : n \in names} |->
            tags[<<OptionsTag>> \o option].number]

\* getFloat64Option, getDurationOption: an option that is not a number is ignored.
Option(options, name, default) ==
    IF <<name>> \in DOMAIN options /\ options[<<name>>] # NotANumber
    THEN options[<<name>>] ELSE default

GetScaleSetOptions(options, defaults) ==
    [name \in DOMAIN defaults |-> Option(options, name, defaults[name])]

(***************************************************************************)
(* Taints of a VMs pool: <<key..., "=", value..., ":", effect>>.           *)
(***************************************************************************)

constructTaintFromString(text) ==
    IF /\ Contains(text, "=") /\ ~Contains(After(text, "="), "=")
       /\ IsTaintValue(After(text, "="))
    THEN {TaintOf(Before(text, "="), After(text, "="))}
    ELSE {}

extractTaintsFromSpecString(texts) == UNION {constructTaintFromString(t) : t \in texts}

(***************************************************************************)
(* Templates.  A scale set or a VMs pool is a record of the attributes     *)
(* that are read here; `sku` is <<>> and `location` NoLocation where Azure *)
(* leaves them out.  The callers pass no labels and taints of their own.   *)
(***************************************************************************)

\* os, disk ("none", "managed" or "ephemeral", its tier and its size, 0 if not known)
\* and tags of the scale set.
buildNodeTemplateFromVMSS(vmss) ==
    [kind |-> "vmss", sku |-> vmss.sku, location |-> vmss.location, zones |-> vmss.zones,
     os |-> IF vmss.windows THEN "windows" ELSE "linux", disk |-> vmss.disk,
     tags |-> vmss.tags]

buildNodeTemplateFromVMPool(pool, location, sku) ==
    [kind |-> "vms", sku |-> sku, location |-> location, zones |-> pool.zones,
     os |-> pool.os, name |-> pool.name, labels |-> pool.labels,
     taints |-> extractTaintsFromSpecString(pool.taints)]

AKS(label) == <<"kubernetes.azure.com", "/", label>>

\* The legacy label and the one that replaces it.
Both(label, text) == Each({<<label>>, AKS(label)}, text)

\* A zone is picked at random where the group has several.
buildGenericLabels(template, arch, zone) ==
    Each({<<"beta.kubernetes.io", "/", "arch">>, <<"kubernetes.io", "/", "arch">>}, <<arch>>)
    ++ Each({<<"beta.kubernetes.io", "/", "os">>, <<"kubernetes.io", "/", "os">>},
            <<template.os>>)
    ++ Each({<<"beta.kubernetes.io", "/", "instance-type">>,
             <<"node.kubernetes.io", "/", "instance-type">>}, template.sku)
    ++ Each({<<"failure-domain.beta.kubernetes.io", "/", "region">>,
             <<"topology.kubernetes.io", "/", "region">>}, <<template.location>>)
    ++ Each({<<"failure-domain.beta.kubernetes.io", "/", "zone">>,
             <<"topology.kubernetes.io", "/", "zone">>}, zone.topology)
    ++ Each({<<"topology.disk.csi.azure.com", "/", "zone">>}, zone.disk)

Zones(template) ==
    IF template.zones = {} THEN {[topology |-> <<"0">>, disk |-> <<>>]}
    ELSE {[topology |-> <<template.location, "-", z>>,
           disk |-> <<template.location, "-", z>>] : z \in template.zones}

\* The name of the pool by the new tag or, failing that, by the legacy one.
PoolName(tags) ==
    LET Of(name) == IF <<name>> \in DOMAIN tags THEN tags[<<name>>].text ELSE <<>>
    IN  IF Of("aks-managed-poolName") # <<>> THEN Of("aks-managed-poolName")
        ELSE Of("poolName")

PredictedLabels(template) ==
    LET disk == template.disk
    IN  (IF PoolName(template.tags) # <<>> THEN Both("agentpool", PoolName(template.tags))
         ELSE <<>>)
        ++ (IF disk.kind # "none" THEN Both("storageprofile", <<disk.kind>>) ELSE <<>>)
        ++ (IF disk.kind # "none" /\ disk.tier # <<>> THEN Both("storagetier", disk.tier)
            ELSE <<>>)
        ++ (IF isNvidiaEnabledSKU(template.sku) THEN Both("accelerator", <<"nvidia">>)
            ELSE <<>>)

\* Every tag is a label too; generic labels, labels from tags and predictions
\* override, in this order, what comes before them.
processVMSSTemplate(template, node, predict) ==
    [node EXCEPT
        !.labels = (IF predict THEN PredictedLabels(template) ELSE <<>>)
                   ++ extractLabelsFromTags(template.tags)
                   ++ node.labels
                   ++ [name \in DOMAIN template.tags |-> template.tags[name].text],
        !.capacity = extractAllocatableResourcesFromScaleSet(template.tags)
                     ++ (IF template.disk.kind # "none" /\ template.disk.size > 0
                         THEN Each({<<"ephemeral-storage">>}, template.disk.size) ELSE <<>>)
                     ++ node.capacity,
        !.taints = extractTaintsFromTags(template.tags)]

processVMPoolTemplate(template, node) ==
    [node EXCEPT
        !.labels = template.labels ++ Each({AKS("agentpool")}, <<template.name>>) ++ node.labels,
        !.taints = template.taints]

Nvidia == <<"nvidia.com", "/", "gpu">>
Xilinx == <<"xilinx.com", "/", "fpga-xilinx_u250_gen3x16_xdma_shell_2_1-0">>

\* Memory is in megabytes and storage in gigabytes, not in bytes.
Capacity(type, sku) ==
    Each({<<"pods">>}, 110) ++ Each({<<"cpu">>}, type.VCPU)
    ++ Each({<<"memory">>}, type.MemoryMb)
    ++ Each({IF isNPSeries(sku) THEN Xilinx ELSE Nvidia}, type.GPU)

\* What is known of the size: by the SKU API where that is in use and knows it,
\* otherwise by the static list.
InstanceTypeOf(sku, dynamic, api) ==
    LET byAPI == IF dynamic THEN GetInstanceTypeDynamically(sku, api) ELSE {}
    IN  IF byAPI # {} THEN byAPI ELSE GetInstanceTypeStatically(sku)

\* What every node has, of a scale set or of a VMs pool.
PlainNode(template, type, zone) ==
    [labels |-> buildGenericLabels(template, type.Architecture, zone),
     capacity |-> Capacity(type, template.sku), taints |-> {}]

\* The nodes that may be returned, one for each zone that may be picked: none if the
\* template or its size is refused.
buildNodeFromTemplate(template, dynamic, predict, api) ==
    IF template.kind = "vmss" /\ (template.sku = <<>> \/ template.location = NoLocation) THEN {}
    ELSE {IF template.kind = "vmss"
          THEN processVMSSTemplate(template, PlainNode(template, type, zone), predict)
          ELSE processVMPoolTemplate(template, PlainNode(template, type, zone)) :
             type \in InstanceTypeOf(template.sku, dynamic, api), zone \in Zones(template)}

(***************************************************************************)
(* What an operator means by the tags of a scale set, for the properties.  *)
(***************************************************************************)

\* A name as it is written in a tag: it is not to hold the escape itself.
Encoded(name) == Replace(Replace(name, "_", "~2"), "/", "_")

Unescaped(name) == \A i \in DOMAIN name : name[i] # "~2"

\* The tag for a label, and no other that stands for it.
LabelTagged(tags, label, text) ==
    LET tag == <<LabelTag>> \o Encoded(label)
    IN  /\ label # <<>> /\ Unescaped(label)
        /\ tag \in DOMAIN tags /\ tags[tag].text = text
        /\ \A n \in TagsFor(tags, LabelTag) : Decoded(After(n, LabelTag)) = label => n = tag

\* The tag for a taint, whose value has no colon.
TaintTagged(tags, taint) ==
    LET tag == <<TaintTag>> \o Encoded(taint.key)
    IN  /\ Unescaped(taint.key) /\ ":" \notin Range(taint.value)
        /\ Len(taint.effect) > 0 /\ taint.effect[1] \in Effects
        /\ tag \in DOMAIN tags
        /\ tags[tag].text = taint.value \o <<":">> \o taint.effect

\* The tags for the name of the pool: the newer one, or the older where it is missing.
PoolTagged(tags, text) ==
    /\ text # <<>>
    /\ IF <<"aks-managed-poolName">> \in DOMAIN tags
       THEN tags[<<"aks-managed-poolName">>].text = text
       ELSE <<"poolName">> \in DOMAIN tags /\ tags[<<"poolName">>].text = text

\* The labels AKS gives the nodes of a pool itself: no tag replaces them.
SystemLabels ==
    UNION {{<<l>>, AKS(l)} : l \in {"agentpool", "storageprofile", "storagetier", "accelerator"}}

\* A label that is meant has its tag; or it is the name of the pool, which is predicted
\* unless that is turned off.
LabelMeant(tags, label, text, predict) ==
    \/ label \in Seq(STRING) /\ label \notin SystemLabels /\ LabelTagged(tags, label, text)
    \/ label \in {<<"agentpool">>, AKS("agentpool")} /\ predict /\ PoolTagged(tags, text)

TaintMeant(tags, taint) ==
    /\ taint \in [key : Seq(STRING), value : Seq(STRING), effect : Seq(STRING)]
    /\ TaintTagged(tags, taint)

\* The resources a size determines.
SizeResources == {<<"pods">>, <<"cpu">>, <<"memory">>, Nvidia, Xilinx}
==============================================================================
