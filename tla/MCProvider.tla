------------------------------ MODULE MCProvider ------------------------------
(***************************************************************************)
(* Inputs for Provider.tla: one for each way in which the flags, files,    *)
(* variables and resources of Azure may be in order or not.  `good` and    *)
(* `serves` are written down by hand, from what an operator would expect.  *)
(***************************************************************************)
EXTENDS Provider

V(x) == [value |-> x, pad |-> FALSE, text |-> "ok"]

Tag(text) == [text |-> text, number |-> NotANumber]
Num(word, n) == [text |-> <<word>>, number |-> n]

Inst(id) == [id |-> id, vm |-> FALSE, azure |-> TRUE]
Machine(id) == [id |-> id, vm |-> TRUE, azure |-> TRUE]
Foreign == [id |-> "foreign", vm |-> FALSE, azure |-> FALSE]

VMSS(name, sku) ==
    [name |-> name, sku |-> sku, location |-> "eastus", zones |-> {}, windows |-> FALSE,
     disk |-> [kind |-> "none", tier |-> <<>>, size |-> 0], tags |-> <<>>,
     instances |-> {Inst(name)}, uniform |-> TRUE]

Pool(name) == [name |-> name, labels |-> <<>>, taints |-> {}, zones |-> {}, os |-> "linux"]

Flag(head, sku, min, max) == [ok |-> TRUE, min |-> min, max |-> max, head |-> head, sku |-> sku]

Serves(head, sku, kind, min, max) ==
    [id |-> Id(head, sku), kind |-> kind, min |-> min, max |-> max]

B2s == <<"b", "2s">>

(***************************************************************************)
(* One scale set, a managed identity.                                      *)
(***************************************************************************)

PlainEnv == [ARM_RESOURCE_GROUP |-> V("rg"), ARM_SUBSCRIPTION_ID |-> V("sub"),
             LOCATION |-> V("eastus"), ARM_USE_MANAGED_IDENTITY_EXTENSION |-> V(TRUE)]

Plain ==
    [file |-> <<>>, fileReadable |-> TRUE, env |-> PlainEnv,
     metadata |-> [ok |-> TRUE, subscription |-> "metasub"],
     parameters |-> [ok |-> FALSE, names |-> {}], certificate |-> TRUE,
     scaleSets |-> {VMSS("ss1", B2s)}, vms |-> {}, pools |-> {}, api |-> {},
     specs |-> << Flag("ss1", <<>>, 0, 3) >>, discovery |-> {}, template |-> <<>>,
     nodes |-> {}, defaults |-> <<>>, labels |-> <<>>, taints |-> {},
     good |-> TRUE, serves |-> {Serves("ss1", <<>>, "ScaleSet", 0, 3)}]

With(var, entry) == [Plain EXCEPT !.env = (var :> entry) @@ @]
Without(var) == [Plain EXCEPT !.env = Restrict(@, DOMAIN @ \ {var})]
Refused(in) == [in EXCEPT !.good = FALSE, !.serves = {}]

(***************************************************************************)
(* Configuration.                                                          *)
(***************************************************************************)

\* In order, however odd: blanks around a text, a number of 64 bits, a blank value, a
\* variable that is not read, upper case, a subscription that is looked up.
Unusual ==
    [Plain EXCEPT
        !.env = [ARM_CLOUD |-> V("china"), CLUSTER_NAME |-> [V("cluster") EXCEPT !.pad = TRUE],
                 AZURE_MAX_DEPLOYMENT_COUNT |-> [V(99) EXCEPT !.text = "wide"],
                 ARM_DEPLOYMENT |-> [V("") EXCEPT !.text = "blank"],
                 BACKOFF_RETRIES |-> [V(0) EXCEPT !.text = "junk"],
                 ARM_VM_TYPE |-> V("VMSS")] @@ Restrict(@, DOMAIN @ \ {"ARM_SUBSCRIPTION_ID"})]

ConfigInputs ==
    [plain |-> [Plain EXCEPT !.nodes = {Inst("ss1"), Machine("other"), Foreign}],
     noGroup |-> Refused(Without("ARM_RESOURCE_GROUP")),
     unusual |-> Unusual,
     metadataDown |-> Refused([Without("ARM_SUBSCRIPTION_ID") EXCEPT !.metadata.ok = FALSE]),
     padded |-> Refused(With("AZURE_ENABLE_FORCE_DELETE", [V(TRUE) EXCEPT !.pad = TRUE])),
     junk |-> Refused(With("AZURE_ENABLE_VMSS_ETAG", [V("yes") EXCEPT !.text = "junk"])),
     wide |-> Refused(With("AZURE_VMSS_CACHE_TTL", [V(99) EXCEPT !.text = "wide"])),
     unreadable |-> Refused([Plain EXCEPT !.fileReadable = FALSE]),
     otherType |-> Refused(With("ARM_VM_TYPE", V("vm"))),
     noRetries |-> Refused([With("BACKOFF_RETRIES", V(0)) EXCEPT
                               !.env = @ @@ [ENABLE_BACKOFF |-> V(TRUE)]]),
     otherCloud |-> Refused(With("ARM_CLOUD", V("mars")))]

\* Everything in the file, some of it by the names of old.
FileOnly ==
    [Plain EXCEPT
        !.file = [ResourceGroup |-> "rg", SubscriptionID |-> "sub", TenantID |-> "tenant",
                  AADClientID |-> "client", AADClientSecret |-> "secret",
                  VmssCacheTTL |-> 60, VmssCacheTTLInSeconds |-> 30, EnableVmssFlex |-> TRUE,
                  EnableVmssFlexNodes |-> FALSE],
        !.env = [AZURE_VMSS_CACHE_TTL_IN_SECONDS |-> V(90)]]

FileInputs ==
    [legacy |-> [FileOnly EXCEPT !.file = @ @@ [AuthMethod |-> "cli"]],
     legacyTooLarge |-> Refused([FileOnly EXCEPT !.file.VmssCacheTTL = MaxUint32 + 1]),
     cliPools |-> Refused([FileOnly EXCEPT !.file = @ @@ [AuthMethod |-> "cli"],
                                           !.env = @ @@ [AZURE_ENABLE_VMS_AGENT_POOLS |-> V(TRUE)]]),
     noCredentials |-> Refused([FileOnly EXCEPT !.file.AADClientSecret = ""]),
     otherMethod |-> Refused([FileOnly EXCEPT !.file = @ @@ [AuthMethod |-> "token"]]),
     certificate |-> [FileOnly EXCEPT !.file.AADClientSecret = "",
                                      !.file = @ @@ [AADClientCertPath |-> "path"]],
     badCertificate |-> Refused([FileOnly EXCEPT !.file.AADClientSecret = "",
                                                 !.file = @ @@ [AADClientCertPath |-> "path"],
                                                 !.certificate = FALSE])]

\* Workload identity: by two names for each of three fields.
FederatedEnv ==
    [ARM_RESOURCE_GROUP |-> V("rg"), ARM_SUBSCRIPTION_ID |-> V("sub"),
     ARM_TENANT_ID |-> V("old"), AZURE_TENANT_ID |-> V("tenant"),
     ARM_CLIENT_ID |-> V("old"), AZURE_CLIENT_ID |-> V("client"),
     ARM_USE_FEDERATED_WORKLOAD_IDENTITY_EXTENSION |-> V(FALSE),
     ARM_USE_WORKLOAD_IDENTITY_EXTENSION |-> V(TRUE),
     AZURE_FEDERATED_TOKEN_FILE |-> V("token"), AZURE_ENABLE_VMS_AGENT_POOLS |-> V(TRUE)]

IdentityInputs ==
    [federated |-> [Plain EXCEPT !.env = FederatedEnv],
     federatedNoTenant |-> Refused([Plain EXCEPT
         !.env = Restrict(FederatedEnv, DOMAIN FederatedEnv \ {"AZURE_TENANT_ID"})]),
     bothIdentities |-> Refused([Plain EXCEPT !.env = FederatedEnv @@ PlainEnv])]

(***************************************************************************)
(* Kinds of groups.                                                        *)
(***************************************************************************)

VM(id, pool, sku) == [pool |-> pool, sku |-> sku, instance |-> Machine(id)]

Pools ==
    [With("AZURE_ENABLE_VMS_AGENT_POOLS", V(TRUE)) EXCEPT
        !.specs = @ \o << Flag("p1", B2s, 0, 4) >>,
        !.pools = {[Pool("p1") EXCEPT
                      !.labels = <<"team">> :> <<"a">>, !.zones = {"1", "2"},
                      !.taints = {<<"k", "=", "v", ":", "NoSchedule">>, <<"k", ":", "NoSchedule">>}]},
        !.vms = {VM("m1", "p1", B2s), VM("m2", "p1", <<"b", "4ms">>)},
        !.nodes = {Machine("m1"), Machine("m2"), Inst("ss1")},
        !.serves = @ \cup {Serves("p1", B2s, "VMPool", 0, 4)}]

Dynamic ==
    [With("AZURE_ENABLE_DYNAMIC_INSTANCE_LIST", V(TRUE)) EXCEPT
        !.scaleSets = {VMSS("ss1", <<"b", "1ls">>), VMSS("ss2", <<"nc", "6s_v3">>),
                       VMSS("ss3", <<"x", "1">>)},
        !.specs = @ \o << Flag("ss2", <<>>, 1, 1), Flag("ss3", <<>>, 1, 1) >>,
        !.api = {[sku |-> <<"b", "1ls">>, vCPUs |-> 1, MemoryMB |-> 512, GPUs |-> Missing,
                  arch |-> "amd64"],
                 [sku |-> <<"nc", "6s_v3">>, vCPUs |-> 6, MemoryMB |-> Missing, GPUs |-> 1,
                  arch |-> "amd64"],
                 [sku |-> <<"x", "1">>, vCPUs |-> 4, MemoryMB |-> 5632, GPUs |-> 1,
                  arch |-> "arm64"]},
        !.serves = @ \cup {Serves(name, <<>>, "ScaleSet", 1, 1) : name \in {"ss2", "ss3"}}]

\* Resources of a deployment.
Res(type) == [map |-> TRUE, type |-> type, named |-> TRUE, master |-> FALSE,
              dependsOn |-> <<>>, maps |-> {}, fields |-> {}]
AgentVM == [Res("vm") EXCEPT !.maps = Maps, !.fields = Fields,
                             !.dependsOn = <<"nsg", "other", "rt">>]
MasterVM == [AgentVM EXCEPT !.master = TRUE]
MasterExtension == [Res("extension") EXCEPT !.master = TRUE]

Deployment ==
    << MasterExtension, Res("nsg"), MasterVM, MasterExtension, AgentVM, Res("rt"),
       Res("extension"), Res("other") >>

Standard ==
    [With("ARM_VM_TYPE", V("Standard")) EXCEPT
        !.env = @ @@ [ARM_DEPLOYMENT |-> V("deployment")],
        !.parameters = [ok |-> TRUE, names |-> {"masterCount"}],
        !.scaleSets = {}, !.template = Deployment,
        !.specs = << Flag("as1", <<>>, 1, 3) >>, !.vms = {VM("m1", "as1", B2s)},
        !.nodes = {Machine("m1"), Inst("ss1")},
        !.serves = {Serves("as1", <<>>, "AgentPool", 1, 3)}]

GroupInputs ==
    [pools |-> Pools,
     dynamic |-> Dynamic,
     noLocation |-> [Dynamic EXCEPT !.env = Restrict(@, DOMAIN @ \ {"LOCATION"})],
     noSKUs |-> [Dynamic EXCEPT !.api = {}],
     standard |-> Standard,
     standardMixed |-> [Standard EXCEPT
         !.template = << MasterVM, [MasterVM EXCEPT !.maps = @ \ {"osProfile"}],
                         [MasterVM EXCEPT !.maps = @ \ {"storageProfile"}],
                         [MasterVM EXCEPT !.maps = @ \ {"hardwareProfile"}],
                         [MasterVM EXCEPT !.named = FALSE],
                         [AgentVM EXCEPT !.map = FALSE], Res("nsg"), Res("other") >>,
         !.file = [DeploymentParameters |-> {"masterCount"}], !.parameters.ok = FALSE],
     standardNoParameters |-> Refused([Standard EXCEPT !.parameters.ok = FALSE]),
     standardNoDeployment |->
         Refused([Standard EXCEPT !.env = Restrict(@, DOMAIN @ \ {"ARM_DEPLOYMENT"})]),
     standardNoNSG |-> Refused([Standard EXCEPT !.template = << AgentVM >>]),
     standardZero |-> Refused([Standard EXCEPT !.specs = << Flag("as1", <<>>, 0, 3) >>]),
     standardNoVMs |-> Refused([Standard EXCEPT !.vms = {}]),
     badSpec |-> Refused([Plain EXCEPT !.specs = << [Flag("ss1", <<>>, 0, 3) EXCEPT !.ok = FALSE] >>]),
     badSizes |-> Refused([Plain EXCEPT !.specs = << Flag("ss1", <<>>, 3, 2) >>])]

(***************************************************************************)
(* Auto-discovery.                                                         *)
(***************************************************************************)

Pair(key, value) == [key |-> key, value |-> value, number |-> NotANumber]
Size(key, n) == [key |-> key, value |-> "n", number |-> n]
Spec1 == [form |-> TRUE, discoverer |-> "label", pairs |-> {Pair("k", "v"), Size("min", 1), Size("max", 5)}]

Discovery ==
    [Plain EXCEPT
        !.scaleSets = {[VMSS("ss1", B2s) EXCEPT !.tags = <<"k">> :> Tag(<<"v">>)],
                       [VMSS("ss2", B2s) EXCEPT !.tags = (<<"k">> :> Tag(<<"v">>))
                                                          @@ (<<"max">> :> Num("4", 4))],
                       [VMSS("ss3", B2s) EXCEPT !.tags = <<"k">> :> Tag(<<"w">>)],
                       VMSS("ss4", B2s)},
        !.discovery = {Spec1, [Spec1 EXCEPT !.pairs = {Pair("k", "v"), Size("min", 2)}]},
        !.serves = @ \cup {Serves("ss2", <<>>, "ScaleSet", 2, 4)}]

Bad(spec) == Refused([Discovery EXCEPT !.discovery = {spec}])

DiscoveryInputs ==
    [discovery |-> Discovery,
     discoveryTwice |-> [Discovery EXCEPT !.specs = @ \o << Flag("ss1", <<>>, 1, 2) >>,
         !.serves = {Serves("ss1", <<>>, "ScaleSet", 1, 2), Serves("ss2", <<>>, "ScaleSet", 2, 4)}],
     discoveryStandard |-> [Standard EXCEPT !.discovery = {Spec1}],
     badForm |-> Bad([Spec1 EXCEPT !.form = FALSE]),
     badDiscoverer |-> Bad([Spec1 EXCEPT !.discoverer = "vmss"]),
     emptyValue |-> Bad([Spec1 EXCEPT !.pairs = {Pair("k", "")}]),
     badMin |-> Bad([Spec1 EXCEPT !.pairs = {Pair("k", "v"), Pair("min", "one")}]),
     maxBelowMin |-> Bad([Spec1 EXCEPT !.pairs = {Size("min", 3), Size("max", 2)}])]

(***************************************************************************)
(* Templates of nodes.                                                     *)
(***************************************************************************)

Tagged ==
    [Plain EXCEPT
        !.scaleSets = {[VMSS("ss1", B2s) EXCEPT
            !.zones = {"1", "2"}, !.disk = [kind |-> "managed", tier |-> <<"Premium">>, size |-> 128],
            !.tags = (<<LabelTag, "example.com", "_", "my", "~2", "label">> :> Tag(<<"x">>))
                  @@ (<<TaintTag, "example.com", "_", "dedicated">> :>
                          Tag(<<"gpu", ":", "NoSchedule">>))
                  @@ (<<ResourcesTag, "example.com", "_", "dongle">> :> Num("2", 2))
                  @@ (<<ResourcesTag, "broken">> :> Tag(<<"two">>))
                  @@ (<<OptionsTag, "scaledownunneededtime">> :> Num("5m", 300))
                  @@ (<<OptionsTag, "scaledownunreadytime">> :> Tag(<<"soon">>))
                  @@ (<<"poolName">> :> Tag(<<"old">>))
                  @@ (<<"aks-managed-poolName">> :> Tag(<<"new">>))]},
        !.defaults = [scaledownunneededtime |-> 600, scaledownunreadytime |-> 1200],
        !.labels = (<<"example.com", "/", "my", "_", "label">> :> <<"x">>)
                   @@ Both("agentpool", <<"new">>),
        !.taints = {[key |-> <<"example.com", "/", "dedicated">>, value |-> <<"gpu">>,
                     effect |-> <<"NoSchedule">>]}]

\* Accelerated, promotional, arm64, unknown and nameless sizes.
Sizes == << <<"nv", "12ads_v710_v5">>, <<"nc", "6s_v3">>, <<"np", "10s">>,
            <<"ds", "11_v2", "_promo">>, <<"ds", "1_v2", "_promo">>, <<"b", "2ps_v2">>,
            <<"x", "1">>, <<>> >>

Names == << "ss1", "ss2", "ss3", "ss4", "ss5", "ss6", "ss7", "ss8" >>

TemplateInputs ==
    [tagged |-> Tagged,
     unpredicted |-> [Tagged EXCEPT
         !.env = @ @@ [AZURE_ENABLE_LABEL_PREDICTIONS_ON_TEMPLATE |-> V(FALSE)],
         !.labels = (<<"example.com", "/", "my", "_", "label">> :> <<"x">>)],
     sizes |-> [Plain EXCEPT
         !.scaleSets = {VMSS(Names[i], Sizes[i]) : i \in DOMAIN Sizes}
                       \cup {[VMSS("windows", B2s) EXCEPT !.windows = TRUE, !.uniform = FALSE,
                                                        !.instances = {Machine("windows")}]},
         !.specs = [i \in DOMAIN Names |-> Flag(Names[i], <<>>, 0, 3)] \o << Flag("windows", <<>>, 0, 3) >>,
         !.vms = {VM("m1", "p1", B2s)}, !.nodes = {Machine("m1"), Machine("windows")},
         !.serves = {Serves(name, <<>>, "ScaleSet", 0, 3) : name \in ToSet(Names) \cup {"windows"}}]]

MCInputs ==
    ConfigInputs @@ FileInputs @@ IdentityInputs @@ GroupInputs @@ DiscoveryInputs
    @@ TemplateInputs

\* All of these do what the theorems about predicted nodes ask of an input.
ASSUME NodesPredictable ==
    \A name \in DOMAIN MCInputs :
        /\ TagsMeant(MCInputs[name])
        /\ AcceleratorsCounted(MCInputs[name])
        /\ ListGenerated(MCInputs[name])
===============================================================================
