----------------------------- MODULE AgentPool -----------------------------
(***************************************************************************)
(* The size of an AgentPool, an availability set whose VMs carry an index  *)
(* in their names (azure_agent_pool.go).  It grows by deployments that     *)
(* create the indexes after the highest one in use; finished deployments   *)
(* are cleaned up before each change.                                      *)
(*                                                                         *)
(* Thread Main runs the autoscaler's loop, the only one to refresh the     *)
(* cache, read the size or increase it, so that the pool's mutex is never  *)
(* contended; deleters run (Force)DeleteNodes.  How an instance is deleted *)
(* is the subject of VMDeletion; here DeleteInstances is one step.         *)
(***************************************************************************)
EXTENDS Integers, FiniteSets, FiniteSetsExt

CONSTANTS
  Deleters,            \* goroutines that call (Force)DeleteNodes
  MinSize, MaxSize,    \* spec.MinSize, spec.MaxSize
  Deltas,              \* the changes of size the autoscaler may ask for
  MaxDeploymentsCount, \* config.MaxDeploymentsCount
  MaxBatch,            \* bound: instances in one DeleteInstances call
  MaxIndex,            \* bound: the highest index of a VM
  MaxMade              \* bound: deployments ever created

Main == "main"
Thread == {Main} \cup Deleters
Index == 0..MaxIndex

ASSUME ThreadsAssumption == Main \notin Deleters
ASSUME SizesAssumption == /\ MinSize \in Nat /\ MaxSize \in Nat
                          /\ Deltas \subseteq Nat \ {0}
                          /\ MaxBatch \in Nat \ {0}
ASSUME LimitsAssumption == /\ MaxDeploymentsCount \in Nat \ {0}
                           /\ MaxIndex \in Nat /\ MaxMade \in Nat

VARIABLES
  vms,       \* Azure: the indexes of the pool's VMs
  late,      \* Azure: VMs still to come of deployments nobody waits for
  deployed,  \* Azure: the finished deployments of the autoscaler, by age
  made,      \* Azure: how many have finished
  unended,   \* Azure: how many that nobody waits for have not
  list,      \* azureCache.virtualMachines[name], {} where there is no entry
  curSize,   \* as.curSize
  sizeFresh, \* as.lastRefresh is less than 15 seconds ago
  mgrFresh,  \* manager.lastRefresh has not expired
  pc,        \* where each thread is
  call,      \* Main's IncreaseSize: delta and the indexes it deploys
  batch,     \* the instances each deleter was asked to delete
  outdated,  \* toBeDeleted of each thread's deleteOutdatedDeployments
  lost       \* history: a deployment was left alone before it had ended

azureVars == <<vms, late, lost>>
depVars   == <<deployed, made, unended>>
sizeVars  == <<curSize, sizeFresh>>
vars == <<azureVars, depVars, list, sizeVars, mgrFresh, pc, call, batch,
          outdated>>

At(t, l) == pc[t] = l
Goto(t, l) == pc' = [pc EXCEPT ![t] = l]

NoCall == [delta |-> 0, range |-> {}]

invalidateCache == mgrFresh' = FALSE

-----------------------------------------------------------------------------
(* Azure (external), and time.                                             *)

\* A deployment nobody waits for creates another VM, or does not.
LateVM(i) == /\ i \in late
             /\ late' = late \ {i}
             /\ vms' \in {vms, vms \cup {i}}
             /\ UNCHANGED <<lost, depVars, list, sizeVars, mgrFresh, pc, call,
                            batch, outdated>>

Tick == /\ sizeFresh' \in {sizeFresh, FALSE}
        /\ mgrFresh' \in {mgrFresh, FALSE}
        /\ UNCHANGED <<azureVars, depVars, list, curSize, pc, call, batch,
                       outdated>>

-----------------------------------------------------------------------------
(* The list of VMs and the size read from it.                              *)

\* fetchVirtualMachines.  A pool without VMs then fails regenerate, by the
\* error of its Nodes(), and so the refresh.
Refresh == /\ At(Main, "idle")
           /\ ~mgrFresh
           /\ list' = vms
           /\ mgrFresh' = (vms # {})
           /\ UNCHANGED <<azureVars, depVars, sizeVars, pc, call, batch,
                          outdated>>

\* Mutant: the size that was read is returned but not kept.
getCurSizeNotKept ==
  \/ sizeFresh /\ UNCHANGED <<sizeVars, mgrFresh>>
  \/ /\ ~sizeFresh /\ list # {}
     /\ mgrFresh' = (mgrFresh /\ curSize = Cardinality(list))
     /\ sizeFresh' = TRUE
     /\ UNCHANGED curSize

\* A getCurSize call that succeeds; it is an error where there are no VMs.
getCurSize ==
  \/ sizeFresh /\ UNCHANGED <<sizeVars, mgrFresh>>
  \/ /\ ~sizeFresh /\ list # {}
     /\ mgrFresh' = (mgrFresh /\ curSize = Cardinality(list))
     /\ curSize' = Cardinality(list)
     /\ sizeFresh' = TRUE

TargetSize == /\ At(Main, "idle")
              /\ getCurSize
              /\ UNCHANGED <<azureVars, depVars, list, pc, call, batch, outdated>>

\* Only what was asked for and does not exist yet can be given up.
DecreaseTargetSize(delta) ==
  /\ At(Main, "idle")
  /\ list # {}
  /\ curSize - delta >= Cardinality(list)
  /\ curSize' = curSize - delta
  /\ sizeFresh' = TRUE
  /\ UNCHANGED <<azureVars, depVars, list, mgrFresh, pc, call, batch, outdated>>

-----------------------------------------------------------------------------
(* deleteOutdatedDeployments: all but the newest are deleted.              *)

\* Mutant: the deployments are sorted by ascending age.
OutdatedReversed(s) ==
  {x \in s : Cardinality({y \in s : y < x}) >= MaxDeploymentsCount}

Outdated(s) ==
  {x \in s : Cardinality({y \in s : y > x}) >= MaxDeploymentsCount}

\* Listing them succeeds, or fails, which is only logged.
ListDeployments(t) ==
  /\ At(t, "cleanup")
  /\ \E s \in {Outdated(deployed), {}} : outdated' = [outdated EXCEPT ![t] = s]
  /\ Goto(t, "prune")
  /\ UNCHANGED <<azureVars, depVars, list, sizeVars, mgrFresh, call, batch>>

\* Each of the deletions succeeds, finds nothing, or fails and is logged.
DeleteDeployments(t) ==
  /\ At(t, "prune")
  /\ \E s \in SUBSET (outdated[t] \cap deployed) : deployed' = deployed \ s
  /\ outdated' = [outdated EXCEPT ![t] = {}]
  /\ Goto(t, IF t = Main THEN "deploy" ELSE "delete")
  /\ UNCHANGED <<azureVars, made, unended, list, sizeVars, mgrFresh, call, batch>>

-----------------------------------------------------------------------------
(* IncreaseSize.                                                           *)

IncreaseSize(delta) ==
  /\ At(Main, "idle")
  /\ curSize # -1
  /\ \A i \in list : i + delta <= MaxIndex
  /\ call' = [NoCall EXCEPT !.delta = delta]
  /\ Goto(Main, "cleanup")
  /\ UNCHANGED <<azureVars, depVars, list, sizeVars, mgrFresh, batch, outdated>>

Return == Goto(Main, "idle") /\ call' = NoCall

HighestUsedIndex == Max(list)

CountForTemplate(delta) ==
  IF HighestUsedIndex = 0 THEN Cardinality(list) + delta
  ELSE Cardinality(list) + delta + HighestUsedIndex + 1 - Cardinality(list)

\* Mutant: the first index of the deployment is the number of VMs.
TemplateRangeBySize(delta) ==
  Cardinality(list) .. CountForTemplate(delta) - 1

\* The template's VMs: from Offset up to, not including, Count.
TemplateRange(delta) == HighestUsedIndex + 1 .. CountForTemplate(delta) - 1

\* The cache is invalidated, but the indexes come from the list it holds.
PrepareDeployment ==
  /\ At(Main, "deploy")
  /\ invalidateCache
  /\ \/ /\ list = {} \/ Cardinality(list) + call.delta > MaxSize
        /\ Return
     \/ /\ list # {} /\ Cardinality(list) + call.delta <= MaxSize
        /\ call' = [call EXCEPT !.range = TemplateRange(call.delta)]
        /\ Goto(Main, "create")
  /\ UNCHANGED <<azureVars, depVars, list, sizeVars, batch, outdated>>

\* A deployment is listed once it has succeeded or failed, and sorted by when.
Ended == made' = made + 1 /\ deployed' = deployed \cup {made'}

\* One is created, and ends while it is waited for or does not.
Create == made + unended < MaxMade
Made == Create /\ Ended /\ UNCHANGED unended
MadeUnfinished == Create /\ unended' = unended + 1 /\ UNCHANGED <<deployed, made>>

\* One that nobody waits for ends.
EndsLate == /\ unended > 0
            /\ unended' = unended - 1
            /\ Ended
            /\ UNCHANGED <<azureVars, list, sizeVars, mgrFresh, pc, call, batch,
                           outdated>>

\* VMs of the template that exist already are left as they are.
DeploymentSucceeds ==
  /\ At(Main, "create")
  /\ Made
  /\ vms' = vms \cup call.range
  /\ curSize' = Cardinality(list) + call.delta
  /\ sizeFresh' = TRUE
  /\ invalidateCache
  /\ Return
  /\ UNCHANGED <<late, lost, list, batch, outdated>>

\* The deployment is refused, fails after some of its VMs were created, or is
\* still under way when waiting for it fails.
DeploymentFails ==
  /\ At(Main, "create")
  /\ \/ UNCHANGED <<azureVars, depVars>>
     \/ /\ Made
        /\ \E s \in SUBSET call.range : vms' = vms \cup s
        /\ UNCHANGED <<late, lost>>
     \/ /\ MadeUnfinished
        /\ late' = late \cup call.range
        /\ lost' = TRUE
        /\ UNCHANGED vms
  /\ Return
  /\ UNCHANGED <<list, sizeVars, mgrFresh, batch, outdated>>

-----------------------------------------------------------------------------
(* Deleting nodes.                                                         *)

\* The nodes belong to this pool: they were listed.
ForceDeleteNodes(d, nodes) ==
  /\ At(d, "idle")
  /\ nodes \subseteq list
  /\ batch' = [batch EXCEPT ![d] = nodes]
  /\ Goto(d, "cleanup")
  /\ UNCHANGED <<azureVars, depVars, list, sizeVars, mgrFresh, call, outdated>>

DeleteNodes(d, nodes) == /\ list # {}
                         /\ Cardinality(list) > MinSize
                         /\ ForceDeleteNodes(d, nodes)

\* Mutant: the instances to delete are looked up in the list by position.
DeleteInstancesByPosition(d) ==
  /\ At(d, "delete")
  /\ \E s \in SUBSET list : Cardinality(s) <= Cardinality(batch[d]) /\ vms' = vms \ s
  /\ batch' = [batch EXCEPT ![d] = {}]
  /\ invalidateCache
  /\ Goto(d, "idle")
  /\ UNCHANGED <<late, lost, depVars, list, sizeVars, call, outdated>>

\* All are deleted, or some and then there is an error; the cache is to be
\* refreshed in either case.
DeleteInstances(d) ==
  /\ At(d, "delete")
  /\ \E s \in SUBSET batch[d] : vms' = vms \ s
  /\ batch' = [batch EXCEPT ![d] = {}]
  /\ invalidateCache
  /\ Goto(d, "idle")
  /\ UNCHANGED <<late, lost, depVars, list, sizeVars, call, outdated>>

-----------------------------------------------------------------------------
\* The state NewAgentPool and the first refresh leave: the size is not known.
Init == /\ vms \in (SUBSET Index) \ {{}}
        /\ Cardinality(vms) <= MaxSize
        /\ late = {} /\ lost = FALSE
        /\ deployed = {} /\ made = 0 /\ unended = 0
        /\ list = vms
        /\ curSize = -1 /\ sizeFresh = FALSE
        /\ mgrFresh = TRUE
        /\ pc = [t \in Thread |-> "idle"]
        /\ call = NoCall
        /\ batch = [d \in Deleters |-> {}]
        /\ outdated = [t \in Thread |-> {}]

MainStep ==
  \/ Refresh \/ TargetSize
  \/ \E delta \in Deltas : DecreaseTargetSize(delta) \/ IncreaseSize(delta)
  \/ ListDeployments(Main) \/ DeleteDeployments(Main)
  \/ PrepareDeployment \/ DeploymentSucceeds \/ DeploymentFails

DeleterStep(d) ==
  \/ \E nodes \in SUBSET list :
       /\ Cardinality(nodes) \in 1..MaxBatch
       /\ ForceDeleteNodes(d, nodes) \/ DeleteNodes(d, nodes)
  \/ ListDeployments(d) \/ DeleteDeployments(d)
  \/ DeleteInstances(d)

Next == \/ MainStep
        \/ \E d \in Deleters : DeleterStep(d)
        \/ Tick
        \/ EndsLate
        \/ \E i \in Index : LateVM(i)

Spec == Init /\ [][Next]_vars

-----------------------------------------------------------------------------
(* Fairness.  The loop goes round for ever and finishes the calls it makes,*)
(* time passes, and Azure lists the VMs now and then.                      *)

Fairness == /\ WF_vars(MainStep /\ ~At(Main, "idle"))
            /\ WF_vars(Tick /\ sizeFresh' # sizeFresh)
            /\ WF_vars(Tick /\ mgrFresh' # mgrFresh)
            /\ SF_vars(Refresh)
            /\ SF_vars(TargetSize)

FairSpec == Spec /\ Fairness

-----------------------------------------------------------------------------
(* Properties.                                                             *)

Label == {"idle", "cleanup", "prune", "deploy", "create", "delete"}

\* Every variable keeps its type.
TypeOK ==
  /\ vms \subseteq Index /\ late \subseteq Index /\ lost \in BOOLEAN
  /\ made \in Nat /\ deployed \subseteq 1..made /\ unended \in Nat
  /\ list \subseteq Index
  /\ curSize \in Nat \cup {-1}
  /\ sizeFresh \in BOOLEAN /\ mgrFresh \in BOOLEAN
  /\ pc \in [Thread -> Label]
  /\ call \in [delta : Nat, range : SUBSET Index]
  /\ batch \in [Deleters -> SUBSET Index]
  /\ outdated \in [Thread -> SUBSET (1..made)]

\* However stale the list that IncreaseSize counts and numbers the VMs by, and
\* whatever was deleted or half deployed since, the pool has no more VMs than
\* its maximum, unless a deployment was given up before it had ended.
VMsWithinMax == ~lost => Cardinality(vms) <= MaxSize

\* What the pool keeps of a node group's promises: its deployments are the
\* increases under way, and one that was given up is nobody's.
Group == INSTANCE NodeGroup WITH
           Node <- Index,
           nodes <- vms,
           growing <- At(Main, "create") \/ late # {},
           asked <- UNION {batch[d] : d \in Deleters},
           unwatched <- lost

\* The pool is a node group: VMs appear only while one of its deployments is
\* under way, within the maximum, and disappear only after a DeleteNodes that
\* names them, whatever is stale, fails or overlaps.
IsNodeGroup == Group!Spec

\* Clean-ups that overlap each other and the creation of deployments only ever
\* delete deployments that have MaxDeploymentsCount newer ones ("keeps the
\* newest deployments in the resource group and delete others").
NewestKept ==
  [][\A x \in deployed \ deployed' :
       Cardinality({y \in deployed' : y > x}) >= MaxDeploymentsCount]_vars

\* curSize agrees with Azure again and again (for good once Azure stops
\* changing), whatever failed before, unless the pool has lost all its VMs.
SizeConverges == []<>(curSize = Cardinality(vms) \/ vms = {})

=============================================================================
