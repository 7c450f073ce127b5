-------------------------------- MODULE Config --------------------------------
(***************************************************************************)
(* What a process of the provider is configured with (azure_config.go) and *)
(* the clients it can build from that (azure_client.go): static defaults,  *)
(* the --cloud-config file, its legacy fields, the environment, defaults   *)
(* that depend on the rest, validation, credentials.                       *)
(*                                                                         *)
(* A configuration is a function from the names of the fields of Config to *)
(* values.  A file is such a function on some of the names, the legacy     *)
(* ones included.  The environment maps variables to what is written there *)
(* after its blanks are cut off: a value with `pad` saying that there were *)
(* blanks around it, and `text` what the parsers make of it: "blank",      *)
(* "junk", "wide" (a number of more than 32 bits) or "ok".                 *)
(***************************************************************************)
EXTENDS Integers, Sequences, SequencesExt

CONSTANTS
    MaxUint32,      \* the largest time to live a legacy field may hold
    KnownClouds     \* the names azure.EnvironmentFromName knows (external)

ASSUME MaxUint32Assumption == MaxUint32 \in Nat \ {0}

\* defaultMaxDeploymentsCount
MaxDeployments == 10

(***************************************************************************)
(* The sources of a configuration.                                         *)
(***************************************************************************)

\* The static defaults, and Go's zero values of the other fields.
Defaults ==
    [ClusterName |-> "", ClusterResourceGroup |-> "", ARMBaseURLForAPClient |-> "",
     Cloud |-> "", Location |-> "", ResourceGroup |-> "", TenantID |-> "",
     AADClientID |-> "", AADFederatedTokenFile |-> "", AADClientSecret |-> "",
     AADClientCertPath |-> "", AADClientCertPassword |-> "", Deployment |-> "",
     SubscriptionID |-> "", HostedResourceProxyURL |-> "", HostedSubscriptionID |-> "",
     HostedResourceGroup |-> "", UserAssignedIdentityID |-> "", AuthMethod |-> "",
     VMType |-> "vmss", DeploymentParameters |-> {},
     UseManagedIdentityExtension |-> FALSE, UseFederatedWorkloadIdentityExtension |-> FALSE,
     VmssCacheTTLInSeconds |-> 0, VmssVirtualMachinesCacheTTLInSeconds |-> 0,
     VmssVmsCacheJitter |-> 0, GetVmssSizeRefreshPeriod |-> 0,
     MaxDeploymentsCount |-> MaxDeployments,
     CloudProviderBackoff |-> FALSE, CloudProviderBackoffRetries |-> 6,
     CloudProviderBackoffExponent |-> 1, CloudProviderBackoffDuration |-> 5,
     CloudProviderBackoffJitter |-> 1,
     EnableForceDelete |-> FALSE, StrictCacheUpdates |-> FALSE, EnableVMsAgentPool |-> FALSE,
     EnableVMSSEtag |-> FALSE, EnableDynamicInstanceList |-> FALSE,
     EnableDetailedCSEMessage |-> FALSE, EnableVmssFlexNodes |-> FALSE,
     CloudProviderRateLimit |-> FALSE, CloudProviderRateLimitQPS |-> 0,
     CloudProviderRateLimitBucket |-> 0, CloudProviderRateLimitQPSWrite |-> 0,
     CloudProviderRateLimitBucketWrite |-> 0,
     EnableFastDeleteOnFailedProvisioning |-> FALSE,
     EnableLabelPredictionsOnTemplate |-> TRUE]

\* json.Unmarshal into the defaults: what the file does not name is left alone.
FromFile(file) ==
    [f \in DOMAIN Defaults |-> IF f \in DOMAIN file THEN file[f] ELSE Defaults[f]]

\* The legacy fields and the fields they stand for.
LegacyField ==
    [UseWorkloadIdentityExtension |-> "UseFederatedWorkloadIdentityExtension",
     VmssCacheTTL |-> "VmssCacheTTLInSeconds",
     VmssVmsCacheTTL |-> "VmssVirtualMachinesCacheTTLInSeconds",
     EnableVmssFlex |-> "EnableVmssFlexNodes"]

LegacyTooLarge(file) ==
    \E f \in DOMAIN file \cap {"VmssCacheTTL", "VmssVmsCacheTTL"} : file[f] > MaxUint32

\* Legacy fields take precedence over the ones they stand for.
WithLegacy(file, cfg) ==
    [f \in DOMAIN cfg |->
        IF \E l \in DOMAIN file \cap DOMAIN LegacyField : LegacyField[l] = f
        THEN file[CHOOSE l \in DOMAIN file \cap DOMAIN LegacyField : LegacyField[l] = f]
        ELSE cfg[f]]

(***************************************************************************)
(* The environment: the variables in the order in which they are read,     *)
(* each with the field it sets and the parser of its text.                 *)
(***************************************************************************)

StringVars ==
    << <<"ClusterName", "CLUSTER_NAME", "string">>,
       <<"ClusterResourceGroup", "ARM_CLUSTER_RESOURCE_GROUP", "string">>,
       <<"ARMBaseURLForAPClient", "ARM_BASE_URL_FOR_AP_CLIENT", "string">>,
       <<"Cloud", "ARM_CLOUD", "string">>,
       <<"Location", "LOCATION", "string">>,
       <<"ResourceGroup", "ARM_RESOURCE_GROUP", "string">>,
       <<"TenantID", "ARM_TENANT_ID", "string">>,
       <<"TenantID", "AZURE_TENANT_ID", "string">>,
       <<"AADClientID", "ARM_CLIENT_ID", "string">>,
       <<"AADClientID", "AZURE_CLIENT_ID", "string">>,
       <<"AADFederatedTokenFile", "AZURE_FEDERATED_TOKEN_FILE", "string">>,
       <<"AADClientSecret", "ARM_CLIENT_SECRET", "string">>,
       <<"VMType", "ARM_VM_TYPE", "string">>,
       <<"AADClientCertPath", "ARM_CLIENT_CERT_PATH", "string">>,
       <<"AADClientCertPassword", "ARM_CLIENT_CERT_PASSWORD", "string">>,
       <<"Deployment", "ARM_DEPLOYMENT", "string">>,
       <<"SubscriptionID", "ARM_SUBSCRIPTION_ID", "string">>,
       <<"HostedResourceProxyURL", "HOSTED_RESOURCE_PROXY_URL", "string">>,
       <<"HostedSubscriptionID", "HOSTED_SUBSCRIPTION_ID", "string">>,
       <<"HostedResourceGroup", "HOSTED_RESOURCE_GROUP", "string">> >>

IdentityVars ==
    << <<"UseManagedIdentityExtension", "ARM_USE_MANAGED_IDENTITY_EXTENSION", "bool">>,
       <<"UseFederatedWorkloadIdentityExtension",
            "ARM_USE_FEDERATED_WORKLOAD_IDENTITY_EXTENSION", "bool">>,
       <<"UseFederatedWorkloadIdentityExtension", "ARM_USE_WORKLOAD_IDENTITY_EXTENSION", "bool">>,
       <<"UserAssignedIdentityID", "ARM_USER_ASSIGNED_IDENTITY_ID", "string">> >>

CacheVars ==
    << <<"VmssCacheTTLInSeconds", "AZURE_VMSS_CACHE_TTL_IN_SECONDS", "int">>,
       <<"VmssCacheTTLInSeconds", "AZURE_VMSS_CACHE_TTL", "int">>,
       <<"VmssVirtualMachinesCacheTTLInSeconds", "AZURE_VMSS_VMS_CACHE_TTL_IN_SECONDS", "int">>,
       <<"VmssVirtualMachinesCacheTTLInSeconds", "AZURE_VMSS_VMS_CACHE_TTL", "int">>,
       <<"VmssVmsCacheJitter", "AZURE_VMSS_VMS_CACHE_JITTER", "int">>,
       <<"GetVmssSizeRefreshPeriod", "AZURE_GET_VMSS_SIZE_REFRESH_PERIOD", "int">>,
       <<"MaxDeploymentsCount", "AZURE_MAX_DEPLOYMENT_COUNT", "int64">> >>

FeatureVars ==
    << <<"CloudProviderBackoff", "ENABLE_BACKOFF", "bool">>,
       <<"EnableForceDelete", "AZURE_ENABLE_FORCE_DELETE", "bool">>,
       <<"StrictCacheUpdates", "AZURE_STRICT_CACHE_UPDATES", "bool">>,
       <<"EnableVMsAgentPool", "AZURE_ENABLE_VMS_AGENT_POOLS", "bool">>,
       <<"EnableVMSSEtag", "AZURE_ENABLE_VMSS_ETAG", "bool">>,
       <<"EnableDynamicInstanceList", "AZURE_ENABLE_DYNAMIC_INSTANCE_LIST", "bool">>,
       <<"EnableDetailedCSEMessage", "AZURE_ENABLE_DETAILED_CSE_MESSAGE", "bool">>,
       <<"EnableVmssFlexNodes", "AZURE_ENABLE_VMSS_FLEX_NODES", "bool">>,
       <<"EnableVmssFlexNodes", "AZURE_ENABLE_VMSS_FLEX", "bool">> >>

\* Read only where CloudProviderBackoff has turned out to be set.
BackoffVars ==
    << <<"CloudProviderBackoffRetries", "BACKOFF_RETRIES", "int">>,
       <<"CloudProviderBackoffExponent", "BACKOFF_EXPONENT", "float">>,
       <<"CloudProviderBackoffDuration", "BACKOFF_DURATION", "int">>,
       <<"CloudProviderBackoffJitter", "BACKOFF_JITTER", "float">> >>

LimitVars ==
    << <<"CloudProviderRateLimit", "CLOUD_PROVIDER_RATE_LIMIT", "bool">>,
       <<"CloudProviderRateLimitQPS", "RATE_LIMIT_READ_QPS", "float">>,
       <<"CloudProviderRateLimitBucket", "RATE_LIMIT_READ_BUCKETS", "int">>,
       <<"CloudProviderRateLimitQPSWrite", "RATE_LIMIT_WRITE_QPS", "float">>,
       <<"CloudProviderRateLimitBucketWrite", "RATE_LIMIT_WRITE_BUCKETS", "int">>,
       <<"EnableFastDeleteOnFailedProvisioning",
            "AZURE_ENABLE_FAST_DELETE_ON_FAILED_PROVISIONING", "bool">>,
       <<"EnableLabelPredictionsOnTemplate",
            "AZURE_ENABLE_LABEL_PREDICTIONS_ON_TEMPLATE", "bool">> >>

Given(env, var) == var \in DOMAIN env /\ env[var].text # "blank"

\* Mutant: a text that cannot be parsed is taken for the zero value.
ParsesAnything(entry, kind) == TRUE

\* assignFromEnvIfExists and its siblings trim the blanks away to see whether there
\* is a value; only the one for strings trims them off the value as well.
Parses(entry, kind) ==
    \/ kind = "string"
    \/ /\ ~entry.pad
       /\ \/ entry.text = "ok"
          \/ kind \in {"int64", "float"} /\ entry.text = "wide"

\* The last variable that is given for a field decides.
AssignAll(env, rows, cfg) ==
    [f \in DOMAIN cfg |->
        LET given == {i \in DOMAIN rows : rows[i][1] = f /\ Given(env, rows[i][2])}
        IN  IF given = {} THEN cfg[f]
            ELSE env[rows[CHOOSE i \in given : \A j \in given : j <= i][2]].value]

\* The rows that are read, from a configuration of the defaults and the file.
RowsRead(env, cfg) ==
    LET first == StringVars \o IdentityVars \o CacheVars \o FeatureVars
    IN  IF AssignAll(env, first, cfg).CloudProviderBackoff
        THEN first \o BackoffVars \o LimitVars
        ELSE first \o LimitVars

EnvError(env, rows) ==
    \E i \in DOMAIN rows :
        Given(env, rows[i][2]) /\ ~Parses(env[rows[i][2]], rows[i][3])

(***************************************************************************)
(* Defaults that depend on the rest, and validation.                       *)
(***************************************************************************)

\* strings.ToLower on the spellings of VM types that occur.
ToLower(s) == CASE s = "VMSS" -> "vmss" [] s = "Standard" -> "standard" [] OTHER -> s

NeedsMetadata(cfg) == cfg.SubscriptionID = ""

NeedsParameters(cfg) == ToLower(cfg.VMType) = "standard" /\ cfg.DeploymentParameters = {}

\* in.metadata: what the instance metadata service says the subscription is;
\* in.parameters: the contents of the deployment parameters file.
WithNonstatic(in, cfg) ==
    [cfg EXCEPT
        !.VMType = ToLower(cfg.VMType),
        !.MaxDeploymentsCount = IF @ = 0 THEN MaxDeployments ELSE @,
        !.SubscriptionID = IF NeedsMetadata(cfg) THEN in.metadata.subscription ELSE @,
        !.DeploymentParameters = IF NeedsParameters(cfg) THEN in.parameters.names ELSE @]

validate(cfg) ==
    /\ cfg.ResourceGroup # ""
    /\ cfg.VMType = "standard" => cfg.Deployment # "" /\ cfg.DeploymentParameters # {}
    /\ cfg.SubscriptionID # ""
    /\ ~(cfg.UseManagedIdentityExtension /\ cfg.UseFederatedWorkloadIdentityExtension)
    /\ cfg.VMType \in {"standard", "vmss"}
    /\ cfg.UseManagedIdentityExtension \/ cfg.UseFederatedWorkloadIdentityExtension
       \/ /\ cfg.TenantID # ""
          /\ \/ cfg.AuthMethod \in {"", "principal"} /\ cfg.AADClientID # ""
             \/ cfg.AuthMethod = "cli"
    /\ cfg.CloudProviderBackoff => cfg.CloudProviderBackoffRetries # 0

\* in.fileReadable: the --cloud-config file, if there is one, can be read and parsed.
ConfigError(in, rows, set, cfg) ==
    \/ ~in.fileReadable
    \/ LegacyTooLarge(in.file)
    \/ EnvError(in.env, rows)
    \/ NeedsMetadata(set) /\ ~in.metadata.ok
    \/ NeedsParameters(set) /\ ~in.parameters.ok
    \/ ~validate(cfg)

\* Mutant: the legacy fields of the file are looked at last.
BuildAzureConfigLegacyLast(in) ==
    LET static == FromFile(in.file)
        rows   == RowsRead(in.env, static)
        set    == WithLegacy(in.file, AssignAll(in.env, rows, static))
        cfg    == WithNonstatic(in, set)
    IN  [err |-> ConfigError(in, rows, set, cfg), cfg |-> cfg]

\* The configuration and whether there is an error on the way.
BuildAzureConfig(in) ==
    LET static == WithLegacy(in.file, FromFile(in.file))
        rows   == RowsRead(in.env, static)
        set    == AssignAll(in.env, rows, static)
        cfg    == WithNonstatic(in, set)
    IN  [err |-> ConfigError(in, rows, set, cfg), cfg |-> cfg]

(***************************************************************************)
(* Clients.  in.certificate: the certificate file can be read and parsed.  *)
(***************************************************************************)

\* azidentity.NewWorkloadIdentityCredential (external): it is given the token file
\* and takes tenant and client from the environment.
WorkloadIdentity(in, cfg) ==
    /\ Given(in.env, "AZURE_TENANT_ID") /\ Given(in.env, "AZURE_CLIENT_ID")
    /\ cfg.AADFederatedTokenFile # ""

\* azclient.NewAuthProvider and GetAzIdentity (external): the same identities,
\* whatever the AuthMethod.
AuthProviderIdentity(in, cfg) ==
    \/ cfg.UseFederatedWorkloadIdentityExtension
    \/ cfg.UseManagedIdentityExtension
    \/ cfg.AADClientID # "" /\ cfg.AADClientSecret # ""
    \/ cfg.AADClientID # "" /\ cfg.AADClientCertPath # "" /\ in.certificate

\* Whether getAgentpoolClientCredentials returns a credential: the first branch whose
\* condition holds decides.
getAgentpoolClientCredentials(in, cfg) ==
    LET principal   == cfg.AuthMethod \in {"", "principal"}
        withSecret  == cfg.AADClientID # "" /\ cfg.AADClientSecret # ""
        withCert    == cfg.AADClientID # "" /\ cfg.AADClientCertPath # ""
    IN  CASE principal /\ cfg.UseManagedIdentityExtension -> TRUE
          [] principal /\ ~cfg.UseManagedIdentityExtension /\ withSecret -> TRUE
          [] /\ principal /\ ~cfg.UseManagedIdentityExtension
             /\ ~withSecret /\ withCert -> in.certificate
          [] OTHER -> cfg.UseFederatedWorkloadIdentityExtension /\ WorkloadIdentity(in, cfg)

KnownCloud(cfg) == cfg.Cloud = "" \/ cfg.Cloud \in KnownClouds

\* The agent-pool client, and the endpoint it talks to.
newAgentpoolClient(in, cfg) ==
    [ok |-> getAgentpoolClientCredentials(in, cfg) /\ KnownCloud(cfg),
     endpoint |-> IF cfg.ARMBaseURLForAPClient # "" THEN cfg.ARMBaseURLForAPClient ELSE "arm"]

\* The endpoint and the subscription of the other clients.
newARMClientConfig(cfg) ==
    [endpoint |-> IF cfg.HostedResourceProxyURL # "" THEN cfg.HostedResourceProxyURL ELSE "arm",
     subscription |-> IF cfg.HostedSubscriptionID # "" THEN cfg.HostedSubscriptionID
                      ELSE cfg.SubscriptionID]

\* Without the agent-pool client the process ends, but only where it would use it.
newAzClient(in, cfg) ==
    [err |-> \/ ~AuthProviderIdentity(in, cfg)
             \/ ~newAgentpoolClient(in, cfg).ok /\ cfg.EnableVMsAgentPool,
     agentPool |-> newAgentpoolClient(in, cfg).ok,
     agentPoolEndpoint |-> newAgentpoolClient(in, cfg).endpoint,
     arm |-> newARMClientConfig(cfg)]
==============================================================================
