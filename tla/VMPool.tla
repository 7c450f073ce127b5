------------------------------- MODULE VMPool -------------------------------
(***************************************************************************)
(* The VMPools of one agent pool of type VirtualMachines                   *)
(* (azure_vms_pool.go).  Each is a node group, the VMs of one SKU; all of  *)
(* them share one agent pool profile, which holds the count of every SKU   *)
(* and is written as a whole.                                              *)
(*                                                                         *)
(* Thread Main runs the autoscaler's loop: it refreshes the cache when     *)
(* that is due and increases sizes.  Deleters call DeleteNodes.  In a      *)
(* cluster that has scale sets too, their Waiters call forceRefresh at any *)
(* time.  A refresh holds the cache's mutex while it fetches, and          *)
(* publishes what it has made of the answers afterwards; lastRefresh is    *)
(* set last, without a mutex.                                              *)
(***************************************************************************)
EXTENDS Integers, FiniteSets

CONSTANTS
  Deleters,           \* goroutines that call DeleteNodes
  Waiters,            \* goroutines of scale sets that call forceRefresh
  SKU,                \* the SKUs of the agent pool, one VMPool for each
  Profiled,           \* the ones the manual scale profile has an entry of
  VM,                 \* bound: the VMs Azure may create
  SkuOf,              \* HardwareProfile.VMSize of each
  MinSize, MaxSize,   \* spec.MinSize, spec.MaxSize of every VMPool
  Deltas,             \* the increases the autoscaler may ask for
  MaxBatch,           \* bound: nodes in one DeleteNodes call
  ManualProfile,      \* the scale profile is Manual, not Autoscale
  Spot,               \* ScaleSetPriority is Spot
  StrictCacheUpdates  \* config.StrictCacheUpdates

Main == "main"
Refresher == {Main} \cup Waiters
Thread == Refresher \cup Deleters

ASSUME ThreadsAssumption == /\ Main \notin Deleters \cup Waiters
                            /\ Deleters \cap Waiters = {}
ASSUME SkusAssumption == /\ SkuOf \in [VM -> SKU]
                         /\ Profiled \subseteq SKU
                         /\ IsFiniteSet(VM)
ASSUME SizesAssumption == /\ MinSize \in Nat /\ MaxSize \in Nat
                          /\ Deltas \subseteq Nat \ {0}
                          /\ MaxBatch \in Nat \ {0}
ASSUME ConfigAssumption == {ManualProfile, Spot, StrictCacheUpdates} \subseteq BOOLEAN

VARIABLES
  vm,        \* Azure: the provisioning state of each VM, "none" before it exists
  count,     \* Azure: the count of each SKU in the agent pool's profile
  list,      \* azureCache.virtualMachines
  profile,   \* the counts in azureCache.vmsPoolMap
  asked,     \* history: the counts Azure has had, or an increase has asked
             \* for, since Main's last complete fetch
  index,     \* azureCache: the instances of instanceToNodeGroup
  deleting,  \* azureCache: the ones instanceStates has as Deleting
  nodes,     \* what Nodes() has told each refresh under way
  mgrFresh,  \* manager.lastRefresh has not expired
  pc,        \* where each thread is
  call,      \* Main's IncreaseSize: its SKU, the new count, and the counts
             \* that its request carries
  batch      \* the VMs each deleter was asked to delete

azureVars == <<vm, count>>
poolVars  == <<profile, asked>>
indexVars == <<index, deleting>>
cacheVars == <<list, poolVars, indexVars>>
vars == <<azureVars, cacheVars, nodes, mgrFresh, pc, call, batch>>

At(t, l) == pc[t] = l
Goto(t, l) == pc' = [pc EXCEPT ![t] = l]

NoCounts == [s \in {} |-> 0]
NoCall == [sku |-> "none", n |-> 0, counts |-> NoCounts]
NoNodes == [v \in VM |-> "none"]

VMsOf(s) == {v \in VM : SkuOf[v] = s}
Staying(s) == {v \in VMsOf(s) : vm[v] \in {"up", "failed"}}

invalidateCache == mgrFresh' = FALSE

-----------------------------------------------------------------------------
(* Azure (external), and time.  AKS brings the VMs of each SKU to its      *)
(* count; VMs fail, and deletions end or fail.                             *)

Provision(v) == /\ vm[v] = "none"
                /\ Cardinality(Staying(SkuOf[v])) < count[SkuOf[v]]
                /\ vm' = [vm EXCEPT ![v] = "up"]
                /\ UNCHANGED <<count, cacheVars, nodes, mgrFresh, pc, call, batch>>

ScaleIn(v) == /\ vm[v] \in {"up", "failed"}
              /\ Cardinality(Staying(SkuOf[v])) > count[SkuOf[v]]
              /\ vm' = [vm EXCEPT ![v] = "deleting"]
              /\ UNCHANGED <<count, cacheVars, nodes, mgrFresh, pc, call, batch>>

Fail(v) == /\ vm[v] \in {"up", "deleting"}
           /\ vm' = [vm EXCEPT ![v] = "failed"]
           /\ UNCHANGED <<count, cacheVars, nodes, mgrFresh, pc, call, batch>>

Vanish(v) == /\ vm[v] = "deleting"
             /\ vm' = [vm EXCEPT ![v] = "none"]
             /\ UNCHANGED <<count, cacheVars, nodes, mgrFresh, pc, call, batch>>

Tick == /\ mgrFresh
        /\ mgrFresh' = FALSE
        /\ UNCHANGED <<azureVars, cacheVars, nodes, pc, call, batch>>

-----------------------------------------------------------------------------
(* forceRefresh, of the parts the VMPools use: Main's when it is due, a    *)
(* waiter's at any time.                                                   *)

\* The mutex is held by a refresh that is fetching.
CacheFree == \A t \in Refresher : ~At(t, "pools")

\* fetchVirtualMachines.
RefreshVMs(t) == /\ At(t, "idle") /\ CacheFree
                 /\ t = Main => ~mgrFresh
                 /\ list' = vm
                 /\ Goto(t, "pools")
                 /\ UNCHANGED <<azureVars, poolVars, indexVars, nodes, mgrFresh,
                                call, batch>>

\* What may be known of the counts after a complete fetch by t.
Known(t) == [s \in SKU |-> {count[s]} \cup (IF t = Main THEN {} ELSE asked[s])]

\* Mutant: the pools that are in the map already are left as they are.
RefreshPoolsOnce(t) ==
  /\ At(t, "pools")
  /\ asked' = Known(t)
  /\ Goto(t, "nodes")
  /\ UNCHANGED <<azureVars, list, profile, indexVars, nodes, mgrFresh, call,
                 batch>>

\* fetchVMsPools.
RefreshPools(t) == /\ At(t, "pools")
                   /\ profile' = [s \in Profiled |-> count[s]]
                   /\ asked' = Known(t)
                   /\ Goto(t, "nodes")
                   /\ UNCHANGED <<azureVars, list, indexVars, nodes, mgrFresh,
                                  call, batch>>

\* Mutant: Nodes() reports no status.
NodesWithoutStatus == [v \in VM |-> IF list[v] = "none" THEN "none" ELSE "running"]

\* Nodes() of the pools: each VM that the list has by now, and whether it is
\* being deleted.
Nodes == [v \in VM |-> IF list[v] \in {"none", "deleting"} THEN list[v]
                       ELSE "running"]

ReadNodes(t) == /\ At(t, "nodes") /\ CacheFree
                /\ nodes' = [nodes EXCEPT ![t] = Nodes]
                /\ Goto(t, "publish")
                /\ UNCHANGED <<azureVars, cacheVars, mgrFresh, call, batch>>

\* fetchVMsPools fails, or Nodes() of a scale set: what was fetched is kept all
\* the same.  A waiter then invalidates the cache.
RefreshFails(t) == /\ At(t, "pools") \/ At(t, "nodes")
                   /\ IF t = Main THEN UNCHANGED mgrFresh ELSE invalidateCache
                   /\ Goto(t, "idle")
                   /\ UNCHANGED <<azureVars, cacheVars, nodes, call, batch>>

\* Mutant: the states are merged into the map, so that marks stay.
PublishMerged(t) ==
  /\ At(t, "publish") /\ CacheFree
  /\ index' = {v \in VM : nodes[t][v] # "none"}
  /\ deleting' = {v \in index' : v \in deleting \/ nodes[t][v] = "deleting"}
  /\ nodes' = [nodes EXCEPT ![t] = NoNodes]
  /\ Goto(t, "stamp")
  /\ UNCHANGED <<azureVars, list, poolVars, mgrFresh, call, batch>>

\* The end of regenerate: both maps are replaced.
Publish(t) == /\ At(t, "publish") /\ CacheFree
              /\ index' = {v \in VM : nodes[t][v] # "none"}
              /\ deleting' = {v \in VM : nodes[t][v] = "deleting"}
              /\ nodes' = [nodes EXCEPT ![t] = NoNodes]
              /\ Goto(t, "stamp")
              /\ UNCHANGED <<azureVars, list, poolVars, mgrFresh, call, batch>>

\* lastRefresh is set to now, over what invalidateCache may have set it to.
Stamp(t) == /\ At(t, "stamp")
            /\ mgrFresh' = TRUE
            /\ Goto(t, "idle")
            /\ UNCHANGED <<azureVars, cacheVars, nodes, call, batch>>

HasInstance(v) == v \in index \ deleting

-----------------------------------------------------------------------------
(* The size of a VMPool.                                                   *)

\* getVMsFromCache of the VMs whose provisioning state is none of skip.
getVMsFromCache(s, skip) == {v \in VMsOf(s) : list[v] \notin {"none"} \cup skip}

\* getSpotPoolSize asks Azure, which counts the running VMs; getCurSize asks
\* the cache for other pools.
getSpotPoolSize(s) == Cardinality({v \in VMsOf(s) : vm[v] = "up"})
getCurSize(s, skip) == IF Spot THEN getSpotPoolSize(s)
                       ELSE Cardinality(getVMsFromCache(s, skip))

TargetSize(s) == getCurSize(s, {"deleting"})

\* DecreaseTargetSize only invalidates the cache.
DecreaseTargetSize == /\ At(Main, "idle")
                      /\ mgrFresh
                      /\ invalidateCache
                      /\ UNCHANGED <<azureVars, cacheVars, nodes, pc, call, batch>>

-----------------------------------------------------------------------------
(* IncreaseSize (AtomicIncreaseSize is the same).                          *)

\* Mutant: the maximum is compared with the size before the increase.
IncreaseSizeUnchecked(s, delta) ==
  LET size == getCurSize(s, {"deleting", "failed"}) IN
  /\ At(Main, "idle") /\ CacheFree
  /\ size <= MaxSize
  /\ call' = [NoCall EXCEPT !.sku = s, !.n = size + delta]
  /\ Goto(Main, "sized")
  /\ UNCHANGED <<azureVars, cacheVars, nodes, mgrFresh, batch>>

\* The failed VMs are not counted, so that the PUT has AKS mend them.
IncreaseSize(s, delta) ==
  LET size == getCurSize(s, {"deleting", "failed"}) IN
  /\ At(Main, "idle") /\ CacheFree
  /\ size + delta <= MaxSize
  /\ call' = [NoCall EXCEPT !.sku = s, !.n = size + delta]
  /\ Goto(Main, "sized")
  /\ UNCHANGED <<azureVars, cacheVars, nodes, mgrFresh, batch>>

\* buildRequestBodyForScaleUp looks for the SKU's entry, changes its count in
\* the cached profile itself and sends all of that profile, or nothing of it if
\* there is no such entry.
buildRequestBodyForScaleUp(s, n) ==
  IF s \in Profiled THEN /\ profile' = [profile EXCEPT ![s] = n]
                         /\ call' = [call EXCEPT !.counts = profile']
                    ELSE UNCHANGED <<profile, call>>

\* getAgentpoolFromCache, which may by now return a newer profile, and the
\* request made of it.  With an autoscale profile the count travels in a header.
BuildRequest ==
  /\ At(Main, "sized") /\ CacheFree
  /\ IF ManualProfile
     THEN buildRequestBodyForScaleUp(call.sku, call.n)
     ELSE /\ call' = [call EXCEPT !.counts = [s \in {call.sku} |-> call.n]]
          /\ UNCHANGED profile
  /\ asked' = [asked EXCEPT ![call.sku] = @ \cup {call.n}]
  /\ Goto(Main, "put")
  /\ UNCHANGED <<azureVars, list, indexVars, nodes, mgrFresh, batch>>

\* BeginCreateOrUpdate is accepted: the counts that were sent are Azure's.
PutAccepted ==
  /\ At(Main, "put")
  /\ count' = [s \in SKU |-> IF s \in DOMAIN call.counts THEN call.counts[s]
                             ELSE count[s]]
  /\ Goto(Main, "poll")
  /\ UNCHANGED <<vm, cacheVars, nodes, mgrFresh, call, batch>>

\* The increase ends: the request is refused, or polling has ended or failed.
\* The deferred invalidateCache follows, and the cached profile stays as it is.
IncreaseReturns ==
  /\ At(Main, "put") \/ At(Main, "poll")
  /\ invalidateCache
  /\ call' = NoCall
  /\ Goto(Main, "idle")
  /\ UNCHANGED <<azureVars, cacheVars, nodes, batch>>

-----------------------------------------------------------------------------
(* DeleteNodes.                                                            *)

\* The index has the node as one of this pool.
Belongs(s, v) == SkuOf[v] = s /\ v \in index

\* The checks: the size is above the minimum, and each node is of this pool.
DeleteNodes(d, s, vms) ==
  /\ At(d, "idle") /\ CacheFree
  /\ getCurSize(s, {"deleting"}) > MinSize
  /\ \A v \in vms : Belongs(s, v)
  /\ batch' = [batch EXCEPT ![d] = vms]
  /\ Goto(d, IF StrictCacheUpdates THEN "begin" ELSE "mark")
  /\ UNCHANGED <<azureVars, cacheVars, nodes, mgrFresh, call>>

\* setInstanceStateByProviderID of the nodes; one that has left the index in
\* the meantime has no state.
Mark(d) ==
  /\ At(d, "mark") /\ CacheFree
  /\ deleting' = deleting \cup (batch[d] \cap index)
  /\ Goto(d, "begin")
  /\ UNCHANGED <<azureVars, list, poolVars, index, nodes, mgrFresh, call, batch>>

\* BeginDeleteMachines is accepted: the machines are deleted and no longer
\* wanted.
DeleteAccepted(d) ==
  LET gone == {v \in batch[d] : vm[v] \in {"up", "failed"}}
      Left(s) == count[s] - Cardinality(gone \cap VMsOf(s))
  IN
  /\ At(d, "begin")
  /\ vm' = [v \in VM |-> IF v \in gone THEN "deleting" ELSE vm[v]]
  /\ count' = [s \in SKU |-> IF Left(s) < 0 THEN 0 ELSE Left(s)]
  /\ Goto(d, "poll")
  /\ UNCHANGED <<cacheVars, nodes, mgrFresh, call, batch>>

\* The deletion ends: it is refused, or polling has ended or failed.
DeleteReturns(d) ==
  /\ At(d, "begin") \/ At(d, "poll")
  /\ invalidateCache
  /\ batch' = [batch EXCEPT ![d] = {}]
  /\ Goto(d, "idle")
  /\ UNCHANGED <<azureVars, cacheVars, nodes, call>>

-----------------------------------------------------------------------------
\* The state after the first refresh.
Init == /\ vm \in [VM -> {"none", "up", "failed"}]
        /\ count = [s \in SKU |-> Cardinality(Staying(s))]
        /\ \A s \in SKU : count[s] <= MaxSize
        /\ list = vm
        /\ profile = [s \in Profiled |-> count[s]]
        /\ asked = [s \in SKU |-> {count[s]}]
        /\ index = {v \in VM : list[v] # "none"} /\ deleting = {}
        /\ nodes = [t \in Refresher |-> NoNodes]
        /\ mgrFresh = TRUE
        /\ pc = [t \in Thread |-> "idle"]
        /\ call = NoCall
        /\ batch = [d \in Deleters |-> {}]

RefreshStep(t) ==
  \/ RefreshVMs(t) \/ RefreshPools(t) \/ ReadNodes(t) \/ RefreshFails(t)
  \/ Publish(t) \/ Stamp(t)

MainStep ==
  \/ RefreshStep(Main)
  \/ DecreaseTargetSize
  \/ \E s \in SKU, delta \in Deltas : IncreaseSize(s, delta)
  \/ BuildRequest \/ PutAccepted \/ IncreaseReturns

DeleterStep(d) ==
  \/ \E s \in SKU, vms \in SUBSET VM :
       Cardinality(vms) \in 1..MaxBatch /\ DeleteNodes(d, s, vms)
  \/ Mark(d) \/ DeleteAccepted(d) \/ DeleteReturns(d)

AzureStep == \E v \in VM : Provision(v) \/ ScaleIn(v) \/ Fail(v) \/ Vanish(v)

Next == \/ MainStep \/ AzureStep \/ Tick
        \/ \E t \in Waiters : RefreshStep(t)
        \/ \E d \in Deleters : DeleterStep(d)

Spec == Init /\ [][Next]_vars

-----------------------------------------------------------------------------
(* Fairness.  Threads finish their calls, time passes, and Azure answers   *)
(* the refresh now and then.                                               *)

Fairness ==
  /\ SF_vars(~At(Main, "idle") /\ MainStep)
  /\ \A t \in Waiters : WF_vars(~At(t, "idle") /\ RefreshStep(t))
  /\ \A d \in Deleters : WF_vars(~At(d, "idle") /\ DeleterStep(d))
  /\ WF_vars(Tick)
  /\ SF_vars(RefreshVMs(Main))
  /\ SF_vars(RefreshPools(Main))
  /\ SF_vars(ReadNodes(Main))

FairSpec == Spec /\ Fairness

-----------------------------------------------------------------------------
(* Properties.                                                             *)

\* Every variable keeps its type, and a state is kept of no instance that is
\* not in the index.
TypeOK ==
  /\ vm \in [VM -> {"none", "up", "failed", "deleting"}]
  /\ list \in [VM -> {"none", "up", "failed", "deleting"}]
  /\ index \subseteq VM /\ deleting \subseteq index
  /\ count \in [SKU -> Nat] /\ profile \in [Profiled -> Nat]
  /\ asked \in [SKU -> SUBSET Nat]
  /\ nodes \in [Refresher -> [VM -> {"none", "running", "deleting"}]]
  /\ mgrFresh \in BOOLEAN
  /\ pc \in [Thread -> {"idle", "pools", "nodes", "publish", "stamp", "sized",
                        "put", "poll", "mark", "begin"}]
  /\ call \in [sku : SKU \cup {"none"}, n : Nat,
                counts : UNION {[S -> Nat] : S \in SUBSET SKU}]
  /\ batch \in [Deleters -> SUBSET VM]

\* However stale the list and the profile that IncreaseSize sends back whole,
\* and whatever was refused before, no SKU's count in Azure exceeds its maximum.
CountWithinMax == \A s \in SKU : count[s] <= MaxSize

\* A count that Azure refused stays in the cached profile, and the next increase
\* of another SKU may send it along; but the next complete fetch forgets it.  What
\* an accepted request makes of any SKU's count is one that Azure had, or that an
\* increase of that very SKU asked for, since Main last fetched, whoever else has
\* fetched in between and whatever was refused before.
RefusedForgotten ==
  [][\A s \in SKU :
       At(Main, "put") /\ At(Main, "poll")' /\ count'[s] # count[s]
         => count'[s] \in asked[s]]_vars

\* A mark wears off: a VM whose deletion was refused, failed or timed out, and
\* which stays, is reported again for good once no more deletions are asked for.
MarkWearsOff ==
  \A v \in VM :
    <>[](vm[v] \in {"up", "failed"} /\ \A d \in Deleters : v \notin batch[d])
      => <>[]HasInstance(v)

\* A VM that AKS deletes, or that is gone, for good is for good reported as one
\* that does not exist, though a refresh that began earlier publishes late.
DeletingReported ==
  \A v \in VM : <>[](vm[v] \in {"deleting", "none"}) => <>[]~HasInstance(v)

\* "Ensure we don't scale below the minimum size by excluding VMs in the
\* Deleting state": what DeleteNodes asks for leaves MinSize VMs that stay.
MinimumKept ==
  [][\A d \in Deleters, s \in SKU :
       At(d, "begin") /\ At(d, "poll")' /\ count'[s] < count[s]
         => count'[s] >= MinSize]_vars

=============================================================================
