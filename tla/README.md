# A verification of the Azure provider of Cluster Autoscaler

TLA+ models of the provider's node groups and caches, of the processes that build
and serve it, TLC runs that check them on small instances, and TLAPS proofs for
every instance. The source is `src/pkg/cloudprovider/azure/` and `src/main.go`;
PROJECT.json maps each definition to the lines
it models.

## The system

Cluster Autoscaler's core (a library, not part of this repository) runs a loop:
`Refresh` the provider, read target sizes and instances, scale groups up, start
deletions. The provider answers from caches and sends changes to Azure. Several
replicas of the process compete for a lease; the one that holds it builds the
provider and runs the loop, and any error on the way, or the loss of the lease,
ends the process.

| Component | State it keeps | Operations |
|---|---|---|
| `ScaleSet`, its size (azure_scale_set.go) | `curSize`, `lastSizeRefresh`, under `sizeMutex`; the `SKU.Capacity` and ETag of the shared cached VMSS object | `TargetSize`, `IncreaseSize`, `AtomicIncreaseSize`, `DecreaseTargetSize`, `DeleteNodes`, `ForceDeleteNodes`, the waiters of updates and deletions |
| `ScaleSet`, its instances (azure_scale_set_instance_cache.go) | `instanceCache`, `lastInstanceRefresh`, under `instanceMutex` | `Nodes`, `getInstanceByProviderID`, `setInstanceStatusByProviderID`, invalidation |
| `azureCache` (azure_cache.go) | `scaleSets`, `virtualMachines`, `vmsPoolMap`, `registeredNodeGroups`, `instanceToNodeGroup`, `instanceStates`, `unownedInstances`, `autoscalingOptions`, `skus`, under one mutex | `regenerate`, `Register`, `Unregister`, `FindForInstance`, `HasInstance`, `setScaleSet`, `setInstanceStateByProviderID` |
| `AzureManager` (azure_manager.go) | `lastRefresh`, `explicitlyConfigured`, the discovery configurations | construction with retries of the first refresh, `Refresh`, `forceRefresh`, `invalidateCache`, `fetchExplicitNodeGroups`, `fetchAutoNodeGroups` |
| Auto-discovery (azure_autodiscovery.go) | none | `matchDiscoveryConfig`, parsing |
| `AgentPool` (azure_agent_pool.go) | `curSize`, `lastRefresh`, under a mutex; the template's parameters | `TargetSize`, `IncreaseSize` by deployments that number VMs, the clean-up of deployments, `DeleteNodes`: a VM with its network interface and OS disk, call by call |
| `VMPool` (azure_vms_pool.go) | none of its own; the cached agent pool profile | blocking update and deletion of VMs of an AKS agent pool |
| Configuration (azure_config.go) and clients (azure_client.go) | fixed once built | defaults, file, legacy fields, environment, completion, validation; identities, endpoints |
| Node templates (azure_template.go), instance types (azure_instance*.go) | none | the node a new instance of a group would be: labels, taints, capacity, from tags, size lists and the SKU API |
| Template normalisation (azure_util.go) | none | what an agent pool redeploys of an exported template |
| `AzureCloudProvider` (azure_cloud_provider.go) | none | `BuildAzure`, `NodeGroupForNode`, `Refresh` and delegation |
| Entry point (main.go) | the lease, held by one of several replicas | leader election around `run()`, fatal errors, signals |

**Who runs.** The autoscaler's loop is one thread. Deletions are started on
goroutines of their own. Every accepted plain increase and every deletion leaves
a waiter behind (`waitForCreateOrUpdateInstances`, `waitForDeleteInstances`),
which polls Azure for minutes, then invalidates caches or calls `forceRefresh`.
So refreshes, marks, decrements and capacity updates interleave.

**What is shared.** The VMSS objects of `azureCache.scaleSets` are pointers:
the capacity an increase writes to one is seen by every `getCurSize`. `Nodes()`
returns the cached slice itself. `regenerate` reads groups and lists without the
cache's mutex and replaces the maps at the end.

**What is hard.** Caches that each expire on their own clock and refresh from
one another; updates written to a cache before Azure has accepted them; answers
that are lost; a second writer of the scale set (ETags); deletions that fail, or
are preempted, after sizes and states were adjusted for them; refreshes that
overlap and publish in any order. The hazards are listed in PROJECT.json, each
at its line, with the properties that would catch it going wrong.

**What makes each component correct.**

- Size: Azure never holds more than the maximum; a size that was refused does
  not stay in a cache; success is only reported for what Azure accepted; no
  negative size is served; deletions respect the minimum; whatever happens, the
  size converges to Azure's, and no call hangs.
- Instances: the index speaks of listed instances only; an instance being
  deleted is not offered again; one that is gone disappears for good; a mark is
  lifted when the deletion fails.
- Agent pool: no more VMs than the maximum although increases count by a stale
  list; the newest deployments are kept; nothing of a deleted VM is left behind
  unnoticed; a mark and a size that were wrong are put right.
- VMs pools: no count above the maximum although sizes of one pool are sent
  together; a count Azure refused is forgotten by the next complete fetch; deletions
  respect the minimum.
- Process: one leader; only a configuration in order is ever served, and such a
  one is served in the end; the groups, owners and predicted nodes are what flags,
  files, variables and tags say.
- Node groups: one group per scale set; explicit configuration wins; sizes are
  sane; registration and look-up converge to what the tags say.

## The modules

Every step is a stretch of code between two points where another goroutine may
interfere (an API call, or the release of a mutex), so a mutex held throughout a
step needs no variable; where a lock is held across an API call (`sizeMutex`
during a PUT), the guard `SizeMutexFree` stands for it.

### ScaleSet.tla: the size of one scale set

State: Azure's VMSS (`vmss`), a heap of VMSS objects (`objs`) with the address
in the cache (`cached`), `curSize`, the ages of the size and of the manager's
refresh, the validity of the instance list, and for each thread its place (`pc`)
and locals (`call`, `held`, `puts`, `job`). The heap is modelled because the
code's correctness turns on aliasing: an eager capacity is written to an object
that a refresh may have replaced by the time it is rolled back.

Actions follow the code in order: `BeginIncrease` (canIncreaseSize),
`LoadVMSS`/`EagerUpdate`, `PutAccepted`/`PutConflict`/`PutFails`
(initCreateOrUpdate), `RetryGet`/`RetrySet`/`RetryPutAccepted`/`RetryPutFails`
(retryCreateOrUpdateWithFreshETag), `Rollback`, `Carry`, `Publish`,
`PollDone`/`PollFails` (AtomicIncreaseSize), `WaiterDone`/`WaiterFails`;
`DeleteNodes`, `ForceDeleteNodes`, `DeleteAccepted`, `DeleteRefused`,
`MarkDeleted`, `DeleteDone`, `Preempted`, `RetryDelete`, `RetryDeleteDone`,
`DeleteFails`; `Refresh`, `FetchOK`, `FetchFails`, `Regenerate`; `TargetSize`,
`DecreaseTargetSize`, `Nodes`. Azure accepts, refuses, loses answers, fails what
it accepted, and has another writer. That writer stays within the maximum:
nothing the provider does could undo an operator's larger number.

`getCurSize` of a Spot scale set asks Azure while it holds `sizeMutex`, and publishes
the answer when it has it. It is one step here, and its answer (`Answers`) any state
the VMSS may have been in before other threads and Azure went on, so that it includes
every order of the two. The runs are of scale sets that are not Spot; the theorems are
of both.

A history note is kept in the state, and read by no guard: `backed` (the
capacity of an object was read from Azure or accepted by it).

### InstanceCache.tla: the instances of one scale set

State: Azure's VMs and accepted deletions, the list and its validity, the index
(`index`, `states`), and each thread's place. `reg[t].list` is the slice a
`regenerate` works on, and `alias` says that it still is the cached one, so that
`setInstanceStatusByProviderID`, which writes elements in place, is seen by its
holders until the list is rebuilt. `instanceStatusFromVM` is modelled branch by
branch; a list is whatever Azure says when it answers, less VMs that have lost
their id. A dereferenced nil node group is the label `panic`, and the process
starts again.

### NodeGroups.tla: discovery, registration, look-up

State: the tags of Azure's scale sets, `scaleSets`, `registered`, the index and
`unowned` instances, `lastRefresh`'s validity, and the locals of each thread's
`forceRefresh` (`found`, `todo`, `changed`, `map`). `Register` and `Unregister`
are steps of their own because each takes the mutex for one group; the discovery
looks at the scale sets of the previous refresh, as the code does. Names come
with a folded form, since the code compares them with and without case, and the names
of the flags need not be written as Azure writes them.
MCNodeGroups.tla gives the constants their values for TLC.

### AgentPool.tla: the size of an availability set

State: the indexes of Azure's VMs (`vms`), those that a deployment nobody waits
for may still create (`late`), the autoscaler's finished deployments by age
(`deployed`), the cached list, `curSize` and the freshness of size and list, and
the locals of the calls under way. VMs are their indexes, the number at the end
of a name that `GetVMNameIndex` extracts, since `IncreaseSize` computes with
nothing else: `TemplateRange` is what the template's `Offset` and `Count` make
Azure create. The list is read once and used to the end of the call, so `list`
only changes in `Refresh`, which the same thread runs. `deleteOutdatedDeployments`
is two steps (`ListDeployments`, `DeleteDeployments`), because several goroutines
run it at once. A deployment may be refused, succeed, fail half-way, or go on
after waiting for it has failed; the history variable `lost` records the last. One
that goes on is not among those that are cleaned up until it has ended
(`unended`, `EndsLate`).

### VMDeletion.tla: the deletion of an agent pool's instances

The same component at a finer grain, with the list reduced to names: one step
for each API call of `deleteVirtualMachine` (`GetVM`, `DeleteVM`, `DeleteNIC`,
`DeleteDisk`), each of which may fail with or without its effect
(`DeletionFails`), the marks set before it, the list and the index a refresh
replaces, VMs created at any moment. `VerifyNodeGroup` takes the `Id()` of a node
group that may be nil by then: the label `panic`, and `Restart`. The variable
`failed` is history: the VMs for which an error was returned, or whose deletion a
crash cut short.

### VMPool.tla: the node groups of a VMs agent pool

State: Azure's VMs and the count of each size in the agent pool's profile, the
cached list and profile, the index with its marks, `mgrFresh`, and the locals of
the calls under way. A node group is one size (SKU) of the pool; all of them share
one cached profile, and `IncreaseSize` writes its new count into that
(`buildRequestBodyForScaleUp`) and sends it whole. So a count Azure has refused
stays in the cache and goes along with the next increase of another size, until
the next complete fetch; the same increase may so undo what deletions have lowered
since; and, as the count sent is that of the cached VMs that have not failed, plus
delta, an increase may lower the count Azure has. Both calls block until Azure is
done. `IncreaseSize` reads the VMs, `BuildRequest` changes the profile and makes the
request of it, and the PUT is a third step: the refresh of another thread may come
between them, replacing the profile that was changed. Where the manual scale profile
has no entry of the size (`Profiled`), the code changes nothing and sends nothing.

A refresh (`RefreshVMs`, `RefreshPools`, `ReadNodes`, `Publish`, `Stamp`) is run by the
loop and, in a cluster that has scale sets too, by their waiters' `forceRefresh`
(`Waiters`): the lists are fetched under the cache's mutex, so that nobody else fetches
or looks at the cache meanwhile (`CacheFree`), while what each thread has made of them
(`nodes`) is published later, in any order. `Stamp` is a step of its own, because an
invalidation that comes before it is lost. Marking the nodes of a batch takes the mutex
for each node; it is one step here. The variable `asked` is history: the counts Azure
has had, or an increase has asked for, since the loop's last complete fetch. MCVMPool.tla
gives the constants their values.

### NodeGroup.tla: what a node group promises

An abstract specification of a few lines: nodes appear only while an increase is
under way and never beyond the maximum, and disappear only when their deletion was
asked for. AgentPool implements it (`Group == INSTANCE NodeGroup WITH ...`, a
deployment nobody waits for included, as an increase that nobody watches any more),
and so does VMDeletion, call by call, as far as deletions are concerned. ScaleSet
and VMPool do not: a PUT computed from a stale size may lower the capacity, and
Azure then removes nodes nobody asked for. For the scale set this is the subject of
the overwrite run.

### LeaderElection.tla and Provider.tla: the processes

LeaderElection is main.go: replicas acquire, renew, lose and release the lease
(client-go, external), end by `klog.Fatalf`, crash and are started again. A tick is
one RetryPeriod. Provider extends it with what a leader does in `run()` as far as
this repository's code goes: `BuildConfig`, `NewClient`, `FirstLoad`, `FetchSKUs`,
`BuildGroups` (one spec of `--nodes` at a time), then the first refresh with its
retries (`Discover`, `Fetch`, `Publish`, `RefreshFails`), after which `up` holds
and the core's calls are answered (`AskTemplate`, `AskOptions`, `AskOwner`) between
refreshes. A replica that takes over starts from nothing. Every call to Azure may
fail; what is in Azure does not change in this module, since that is the subject
of the others.

Which process sees what is the constant `Inputs`: records of flags, file,
environment, metadata and Azure's resources, with what the operator expects of
them (`good`, `serves`, `labels`, `taints`). MCProvider.tla has one input per case
worth telling apart, among them one for each source of a field, for each way a
variable may not parse, for each identity, and for each kind of group.

Four modules of pure operators belong to it:

- Config.tla: `BuildAzureConfig` as tables (field, variable, kind) in the order in
  which the code reads them, and the construction of the clients.
- ArmTemplate.tla: `normalizeForK8sVMASScalingUp` on sequences of resources;
  `Redeployable` is the reference it is compared with.
- NodeTemplate.tla: labels, taints, resources and options from tags, generic and
  predicted labels, capacities. A name or value is a sequence of tokens, so that
  the decoding of `_` and `~2`, the prefixes and the splitting at `=` and `:` are
  modelled and not assumed.
- InstanceTypes.tla: the look-ups of a size in the static list and in the SKU API,
  the list of Nvidia's sizes, and the A, B, DS and N series of the static list.

`Configured` and `Normalised` tabulate by input what `BuildAzureConfig` and the
normalisation return: both depend on the input alone.

The modules of node groups share no variables. The size is abstracted in
InstanceCache to "the list is also rebuilt where its length is not the size", and
the list in ScaleSet to `instValid`; NodeGroups and Provider take `Nodes()` of a
group as a function of what was fetched.

## What the runs check

| Run | Checks | Bounds |
|---|---|---|
| increases | NoRejectedSizeLeft, SuccessIsEarned, RetryNeverShrinks; SizeConverges, CallsReturn | sizes 1..3, 4 ETags, ETags on, one update waited for |
| deletions | CapacityWithinMax, SizeNeverNegative; SizeConverges | one deleter, sizes 0..1, 3 ETags, ETags off |
| instances | StatesAligned, MarkSticks; MarkWearsOff, DeletingReported | one instance, one deleter and Main |
| discovery | SizesSane; ExplicitKept, DiscoveryConverges, LookUpConverges | three scale sets, of which the flags name one as it is, one in another case (the one that is Flexible and has an instance) and one not; two discovery specs; Main and a waiter |
| agent_pool | VMsWithinMax; IsNodeGroup, NewestKept, SizeConverges | sizes 1..2, indexes 0..3, 3 deployments of which one is kept, one deleter and Main |
| vm_deletion | OrphansExplained; IsNodeGroup, MarkWearsOff | two VMs, two deleters and Main |
| vm_pool | CountWithinMax; RefusedForgotten, MarkWearsOff, DeletingReported | two sizes of one pool, one VM, of the first; one deleter, one waiter of another group and Main |
| provider | TypeOK, OneLeader, RefusedNeverRuns, ServesTheInput, DependenciesPresent, EnvironmentWins, NodesOwned, TemplateNormalised, TagsArrive, AcceleratorHasGPU, ListsAgree; ImplementsElection, RunsAtLast | two replicas, a lease of 3 ticks renewed within 2, 2 faults, 2 attempts at the first refresh (6 in the code), the inputs of MCProvider |

The type invariants of the modules of node groups are proved instead (see below): their
`TypeCorrect` theorems also say that no nil pointer is dereferenced, that marks are
about indexed instances and that every index deployed is one a VM may have.

Four further runs state what a comment in the code says and find it violated:

- **overwrite** (azure_config.go:116-117). `EnableVMSSEtag` is meant to have
  concurrent modifications rejected. A refresh replaces the cached object and its
  ETag while `curSize` is still fresh; the increase then sends an old size plus
  delta with the new ETag, and lowers what another writer set.
- **minimum** (azure_scale_set.go:804-805). The proactive decrement is to keep
  the group above its minimum. It changes `curSize` and not the cached object, so
  when the size expires first, the old size is back and a further deletion is let
  through, on a day with no failures and no other writer (`QuietSpec`).
- **instances_unknown** (azure_scale_set.go:506). `Belongs` refuses an instance
  without a node group; `DeleteInstances`, which looks it up again, does not
  check, and dereferences nil if a refresh dropped it in between.
- **vm_pool_minimum** (azure_vms_pool.go:230). `DeleteNodes` is to keep the pool
  above its minimum by not counting VMs in the Deleting state. It counts in the
  cached list, which does not show that state until the next refresh, so a second
  deletion passes the check; a batch larger than what is left above the minimum
  passes as well.

Also seen while modelling, and visible as assumptions of the theorems: the
status of a failed CSE extension replaces Deleting
(azure_scale_set_instance_cache.go:265), and `invalidateLastSizeRefresh` ages a
Spot scale set's size by the wrong period where `getVmssSizeRefreshPeriod`
exceeds the cache's (azure_scale_set.go:1178). Visible as exceptions in the
properties: an agent pool that has lost all its VMs has no entry in the cache, so
its `Nodes()` and with it every refresh fails, and it cannot be increased
(azure_agent_pool.go:142); a deployment that goes on after waiting for it failed
may take the pool over its maximum, since the next increase does not count it
(azure_agent_pool.go:344); where a deletion failed after the VM was gone, the
retry finds no VM and reports success, with interface and disk left behind
(azure_agent_pool.go:552); a process whose first load failed takes the VMs pools of
its flags for scale sets for as long as it runs, since `buildNodeGroupFromSpec`
asks the cache once and the error was only logged (azure_manager.go:201,
azure_cache.go:142); between the release of the lease and the end of the process a
replica may overlap with its successor (main.go:314); an explicit group whose name is
written in another case than Azure's is replaced by the discovered one, with the
sizes of the tags, and is not configured again (azure_manager.go:278 compares exactly,
azure_cache.go:389 by EqualFold): `ExplicitKept` excepts this step and no other; while deletions are accepted again
and again, each takes its batch off the size anew (azure_scale_set.go:813), and the
size need not agree with Azure's.

Seen, and not stated as properties: after a failed update `getCurSize` reads the
cached object, which still holds the size that failed, until the manager
refreshes (azure_scale_set.go:714); a `regenerate` that read the statuses before
a deletion's mark and publishes after it loses the mark until the next refresh
(azure_cache.go:234: DeletingReported says that it comes back); an invalidation
during a refresh is lost for a period (azure_manager.go:253); an increase of a
VMs pool may lower its count (azure_vms_pool.go:152); sizes with less than a
gigabyte are predicted to have no memory (azure_instance.go:98, in the static
list too); `IncreaseSize` of an agent pool invalidates the cache and reads the same
list all the same (azure_agent_pool.go:312); a count that Azure refused goes along with the increases of
the pool's other sizes until the next complete fetch (azure_vms_pool.go:217):
RefusedForgotten says that it does not after that.

**Why the bounds are enough.** A 412 and its retry need three versions of the
VMSS; a fourth lets another writer come between the fresh GET and the repeated
PUT. With sizes up to 3, an increase, a concurrent one and a failure can be told
apart. Ages saturate when every timer has expired; a refresh interval of 1 or 2
has fresh, ageing and expired states. Five object addresses exceed what the
cache, Main's two pointers and one waiter can hold, so allocation never blocks.
One deleter with Main shows every race of a deletion and the loop; two, in
vm_deletion, show the double deletion of one VM. All bounds are constants:
`MaxVersion`, `MaxPuts`, `MaxBatch`, `Obj`, `MaxSize`, `MaxIndex`, `MaxMade`. In
an agent pool of at most two VMs with indexes up to 3, lists with gaps, a
highest index of 0, a VM missing from the list and one in excess of it all
occur; with three deployments and one to keep, clean-ups of two threads overlap
on different lists. Two VMs are needed in vm_deletion for a refresh to drop one
(it fails for an empty pool) while its deletion goes on. When `MaxMade`
deployments were made, a further one is refused. Two sizes of a VMs pool are
needed for one's increase to send the other's refused count; no VM of the second is
ever created there, as its count alone matters to the first. That waiters, deletions
and the loop interleave takes one of each. In deletions, sizes up to 1 tell an increase,
a decrement and its undoing apart, and three versions are two writes: an increase
and a deletion, or one of them and another writer. Two names for one scale set, one of
them in the flags, are what comparing with and without case can differ by. Two
replicas are a leader and its successor; with two faults a leader dies or is cut off
and its successor fails a call, and with two attempts at the first refresh both the
retry and the last attempt fail. When `MaxVersion` writes were made, no further
update is accepted, which is also how a VMSS looks whose updates are all
refused. Deadlock is checked in all runs.

**Fairness.** The loop runs for ever and each of its API calls has a deadline
(`getContextWithTimeout`), so Main's steps are weakly fair, and time passes.
`Refresh` and `TargetSize` are called in each iteration; they are disabled while
another call runs, hence strong fairness. That Azure answers a list now and then
(strong fairness of the successful fetch) is an assumption on Azure, without
which no cache could converge. A crashed process is started again by its
deployment. Waiters have a deadline too. The agent pool's calls have no deadline
(`getContextWithCancel`): that Main's are answered at last is an assumption on
Azure; its deleters may hang for ever. The calls of a VMs pool have deadlines, and
Go's RWMutex lets nobody wait for ever: since the waiters' refreshes may hold it again
and again, the loop's steps are strongly fair there.
In Provider, time passes, client-go's steps are taken in time, a process in
`run()` takes its next step, one told to stop is stopped, and where all replicas
are dead one is started again (the deployment's controller); a replica that has
died need never come back as long as another lives. No fairness is given to
Azure's VMs and deployments, to the other writer, or to the success of an update
or deletion.

## What is proved

ScaleSetProofs.tla, InstanceCacheProofs.tla, NodeGroupsProofs.tla,
AgentPoolProofs.tla, VMDeletionProofs.tla, VMPoolProofs.tla and ProviderProofs.tla
(with the lemmas about node templates, sizes and ARM templates in
TemplateProofs.tla) prove, for all values of the constants that meet the modules'
assumptions:

| Theorem | Statement | Rests on |
|---|---|---|
| ScaleSet TypeCorrect | types, no nil pointer dereferenced | TypeOK is inductive with `PointersOK` |
| CapacityTheorem | CapacityWithinMax | `CapacityInv` |
| SizeTheorem | SizeNeverNegative, if the effective refresh period is at most the cache's | `SizeKept`: each step keeps the size, sets it to one it read, or expires it |
| RollbackTheorem, SuccessTheorem | NoRejectedSizeLeft, SuccessIsEarned | `BackedInv` |
| RetryTheorem | RetryNeverShrinks | `RetryInv` |
| InstanceCache TypeCorrect, AlignedTheorem | TypeOK, StatesAligned | each inductive given TypeOK |
| MarkTheorem | MarkSticks, for Uniform scale sets without detailed CSE messages | `DoomedInv`: an accepted deletion shows as Updating or Deleting |
| NodeGroups TypeCorrect | TypeOK | inductive; `DiscoveredType` for what discovery returns |
| NoDuplicatesTheorem | NoDuplicates: no two registered groups have one name by EqualFold | inductive |
| ExplicitTheorem | ExplicitKept, however names are written | `SparedInv`, NoDuplicates |
| SizesTheorem | SizesSane | `SaneInv` |
| AgentPool TypeCorrect | TypeOK | inductive with `CallOK`: a running increase fits the bounds it was checked against |
| MaximumRespected | VMsWithinMax | `Bounded` |
| NewestTheorem | NewestKept | `CleanInv`: what any thread is about to delete is outdated still, as far as it is still there |
| VMDeletion TypeCorrect | TypeOK | inductive |
| NoUnexplainedOrphans | OrphansExplained | `Orphans` |
| Refinement (AgentPool, VMDeletion) | IsNodeGroup: the specification implements NodeGroup | the invariants above, and that an idle thread has nothing left to delete |
| VMPool TypeCorrect, MaximumRespected | TypeOK, CountWithinMax | `Bounded`: the counts of Azure, of the cached profile and of a request under way are each within the maximum |
| RefusedNeverReturns | RefusedForgotten | `AllExplained`: each of these counts is in `asked` |
| AtMostOneLeader | OneLeader, for any replicas and durations with RenewDeadline < LeaseDuration | `LeaderHolds`: a leader is the holder in the lease and has not reached the age at which others take it over |
| Provider Refinement | ImplementsElection: the specification implements LeaderElection | each action is an action of the election or a stutter |
| OneProviderActs | OneLeader of the processes that build and serve the provider | Refinement and AtMostOneLeader |
| Provider TypeCorrect | TypeOK | `TypeInv`: whoever is in `standby` or `dead` has an empty memory |
| NothingMissing | DependenciesPresent | `Memory`, `Depends` |
| NodesAlwaysOwned | NodesOwned | `Memory`, `Owned`, `OneGroup`: no node is in two groups |
| OnlyAcceptedServed | ServedIsAccepted: a process that serves has an input that passes every check (`Accepts`) | `Checked` |
| RefusedNeverServed | RefusedNeverRuns, if all that the checks accept is `good` | OnlyAcceptedServed |
| ExpectedServed | ServesExpected: after a complete first load the groups are `Expected` | `Serving` |
| OperatorsGroupsServed | ServesTheInput, if an accepted input's `Expected` is its `serves` | ExpectedServed |
| TheEnvironmentWins | EnvironmentWins, for any file and any environment | `Checked`, and that each table of variables is `Ordered` |
| TemplatesNormalised | TemplateNormalised, for any exported template | `Redeploys`, `NormalisationIsReference` |
| TagsAlwaysArrive | TagsArrive, if the tags mean what the operator means (`TagsMeant`) | `NodesInv`, `ScaleSetLabelled`, `ScaleSetTainted` |
| AcceleratorsHaveGPUs | AcceleratorHasGPU, if Azure counts the GPUs of the sizes on the provider's list and no tag denies them (`AcceleratorsCounted`) | `NodesInv`, `ScaleSetAccelerator`, `PoolAccelerator` |
| ListsAlwaysAgree | ListsAgree, if the rows of the static list are what the generator makes of the API's (`ListGenerated`) | `NodesInv`, `ScaleSetSize` |

Why the strengthenings are needed. `CapacityWithinMax` does not survive a failed
deletion, which gives instances back: `CapacityInv` adds that undoing the latest
deletion still fits, which holds as long as its ETag is the VMSS's, and that the
target of a running increase fits. `BackedInv` says which of Main's two objects
may carry an unaccepted capacity at each point and whether it is still the cached
one; without it a rollback could write to an object the cache has dropped while
the refused size stays in the new one. `RetryInv` says that as long as the
fetched object's ETag is the VMSS's, so is its capacity, and that no waiter
writes to that object. `SparedInv` says no thread is about to unregister an
explicit group that is registered, nor one that EqualFold takes for it, although it
compared against a list that is stale by then; two such names are never registered at
once (NoDuplicates), so that an exact comparison suffices there.
`Bounded` says where an agent pool's VMs may be: in the list, or in the indexes
directly above its highest that an increase of a pool of the list's size may use.
This window has `MaxSize` indexes, every deployment made with the same list falls
into it, and a refresh starts a new one; that two deployments overlap is what
keeps the sum within the maximum, and the reason why the first index must be the
one after the highest. `Orphans` tells the interface from the disk: the last step
of a deletion removes the disk only, so that the interface must be known to be
gone or to be another deletion's. For a VMs pool the maximum must be known of the
cached profile as well, since an increase of one size sends the counts of all, and so
must where they come from: a refresh by a waiter changes the profile between the loop's
steps, and what it fetches is Azure's, which `asked` has been told of.

Provider's proofs share one lemma, `StepOutcome`: in any step each process stays
as it is, ends with an empty memory, or makes one of twelve changes (`DidLoad`,
`DidSpec`, `DidFail`, ...), and its input stays the same. Every invariant of a
process is then kept by one case per change. `Memory` says that the cache holds
what is in Azure or nothing, and that the groups are a list without an id twice.
`Depends` must know of the copies of the flag for dynamic sizes: the one in the
configuration, cleared before any group is built, and those in the groups.
`Owned` says why the nodes of the groups of `--nodes` cannot get among the unowned
ones nor to another group: the machines and scale sets are known before a process
is `up`, a VMs pool is registered only where the cache has the pools, all of these
stay there when later listings fail, agent pools and scale sets are not in one
process, and the index is rebuilt before the first question. A group that was
discovered meanwhile, and is not in the index yet, has no node of an explicit one
(`OneGroup`). This rests on `InputsAssumption`, which is about Azure: names identify
scale sets and ids machines, an instance is in one scale set and is a virtual machine
only if that is flexible, the machines of VMs pools are in no scale set, and a spec
that has no size does not name a VMs pool. `Checked` adds up, step
by step, what was found in order, up to the template and the machines of agent
pools, and that nothing later undoes it. `Serving` follows the list of groups:
after n specs the explicit ones are those that the last of the n specs with their
name asks for (`SpecDescs`), and from discovery on the others are what is
discovered and has not the name of an explicit one. That the kind of a group
depends on its name alone is what makes a second spec of the same name safe, which
`Register` does not look at if the sizes are equal.

`Accepts` and `Expected` are written from the code's checks; `good` and `serves`
are what the author of an input expects. RefusedNeverServed and
OperatorsGroupsServed therefore say that the two agree as long as they agree on
the inputs as data. On MCProvider's 45 inputs they do: `Accepts` holds of those
that are `good`, and of no other, and there `Expected = serves`; the invariants
RefusedNeverRuns and ServesTheInput check the same along every behaviour.

TheEnvironmentWins needs no induction over the tables of variables: they are
joined one by one, no field is in two of them, and of two variables for one field
the later is the preferred one, so that no field has three.

The normalisation of a template removes resources and dependencies by index, one at
a time, and every removal shifts the rest. `RemovalPicks` says that what is left are
the elements at the other indexes, in their order. The library's induction theorems
take an operator as a parameter, so the two inductions it takes (that the recursive
function exists, and what it returns) are by the least counterexample
(`LeastNumber`, from `WFMin`). Two lists that pick the same indexes upwards are
equal (`NumbersTwice`), and so the code's list is the reference's.

What is predicted for a node is a relation between an operator's words and the
tables of the code. `LabelMeant` and `TaintMeant` (NodeTemplate.tla) say what it is
to mean a label or taint by tags: the name is encoded as the provider's README has
it, no second tag stands for the same name, and no system label or newer tag takes
its place; or the name of the pool is predicted from either of its two tags. The
proof then follows the name through prefix, decoding and the layers of maps
(`DecodedEncoded`, `LabelExtracted`, `TaintExtracted`, `PoolPredicted`). The
accelerator needs the two tables: every size of the list of Nvidia's names that the
static list has, has a GPU there (`StaticGPUs`, family by family), and a size that
the SKU API describes has what Azure counts. That the answer of `TemplateNodeInfo` is
such a node is `Predicted`, for which `Predicts` keeps the copies of the two flags in
configuration and groups equal or cleared. The three hypotheses are about inputs, not
about behaviours, and say what the operator and Azure must do, never what the code
does; the assumption `NodesPredictable` has TLC check that all inputs of MCProvider
fulfil them.

The proofs follow the shape of `Next`: a lemma per group of actions, a step per
action, and lemmas for the operators used in many (`getCurSize`, `Heap`,
`Return`, `EndRefresh`, and for lists `Those`, `Merged`, `Register`).

Only model-checked: the liveness properties (SizeConverges, CallsReturn,
MarkWearsOff, DeletingReported, DiscoveryConverges, LookUpConverges,
RunsAtLast), since fairness and ENABLED are out of the prover's
reach. Every invariant and every action property of a passing run is a theorem.
Only proved: NoDuplicates, the Spot scale set, a VMs pool whose profile is Autoscale or
has no entry of a size, and the type invariants of the node groups' modules.

## Not modelled

- The rest of the static list of sizes: generated rows of the same form as those in
  InstanceTypes.tla, looked up in the same way. The generator's calls of `az`.
- Mocks, fakes and test helpers.
- HTTP servers, flags and profiling of main.go, and the autoscaler's core library,
  which is not part of this repository: its calls are the actions of the modules.
- The steps a replica still takes in `run()` after its lease was released and
  before `klog.Fatalf` ends it (see OneLeader).
- azure_deployment_client.go and azure_vmss_delete_client.go, thin wrappers of the
  SDK: their calls are those of AgentPool and ScaleSet. The `cli` method of
  authentication beyond its validation.
- That two agent pools share one map of deployment parameters
  (azure_agent_pool.go:93): one thread increases, and each pool writes keys of its
  own.
- `AzUtil.DeleteVirtualMachine`: never called; it repeats the agent pool's.
- VMs of an agent pool without a storage profile, id or index in their names, for
  which `GetVMIndexes` skips them or fails; machine ids that `resourceName` refuses;
  scale sets with nil tags among their values; two tags that decode to one name.
- The choice between forced and ordinary deletion (azure_force_delete_scale_set.go):
  it selects the request's flag and changes nothing the provider keeps.
- Parsing of resource ids, and the classification of power states beyond what
  `FromProvisioningState` uses.
- Retry-after and jitter of a throttled listing: the list is simply kept for
  another period.
- Data races on words (`lastRefresh`, elements of `registeredNodeGroups`): steps
  are atomic.

## Plan

Done: node groups of all three kinds, their caches, discovery, the abstract node
group and the refinements that hold, start-up, configuration, templates and the
election. Left:

1. Lock order (`sizeMutex`, `instanceMutex`, `azureCache.mutex`,
   `vmssSizeMutex`) and freedom from deadlock, with locks as state.
2. ScaleSet and InstanceCache composed, so that the size and the list that is
   rebuilt where it differs from the size are one state.
3. The rows of the static list that are left out, so that `StaticGPUs` is about
   the whole list; and the options that scale sets get by their tags.
