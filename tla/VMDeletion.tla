----------------------------- MODULE VMDeletion -----------------------------
(***************************************************************************)
(* How an AgentPool deletes instances (DeleteInstances and                 *)
(* deleteVirtualMachine of azure_agent_pool.go): one API call each for the *)
(* VM, its network interface and its OS disk, after the instance has been  *)
(* marked in the azureCache's index.                                       *)
(*                                                                         *)
(* Thread Main refreshes the list of VMs and the index; deleters run       *)
(* ForceDeleteNodes.  A step ends at an API call or where azureCache.mutex *)
(* is released.  VMs appear when a deployment creates them (AgentPool).    *)
(***************************************************************************)
EXTENDS Naturals, FiniteSets

CONSTANTS
  VM,                 \* names of the pool's VMs
  None,               \* no VM
  Deleters,           \* goroutines that call (Force)DeleteNodes
  MinSize,            \* spec.MinSize
  MaxBatch,           \* bound: instances in one DeleteInstances call
  StrictCacheUpdates  \* config.StrictCacheUpdates

ASSUME NoneAssumption == None \notin VM
ASSUME SizesAssumption == MinSize \in Nat /\ MaxBatch \in Nat \ {0}
ASSUME StrictAssumption == StrictCacheUpdates \in BOOLEAN

VARIABLES
  vms,        \* Azure: the pool's VMs
  nics,       \* Azure: the VM names whose network interface exists
  disks,      \* Azure: the VM names whose OS disk exists
  list,       \* azureCache.virtualMachines[name], {} where there is no entry
  listDoomed, \* the VMs among them that were listed as being deleted
  index,      \* the pool's part of instanceToNodeGroup
  marked,     \* those of index whose instanceStates are Deleting
  fresh,      \* manager.lastRefresh has not expired
  main,       \* where Main is
  pc,         \* where each deleter is
  job,        \* its instances to do, and the one under way
  failed      \* history: VMs whose deletion ended in an error

azureVars == <<vms, nics, disks>>
listVars  == <<list, listDoomed>>
indexVars == <<index, marked>>
vars == <<azureVars, listVars, indexVars, fresh, main, pc, job, failed>>

At(d, l) == pc[d] = l
Goto(d, l) == pc' = [pc EXCEPT ![d] = l]

NoJob == [todo |-> {}, cur |-> None]

invalidateCache == fresh' = FALSE

-----------------------------------------------------------------------------
(* Azure (external), and time.  Interfaces and disks are named after their *)
(* VM, and come into being with it.                                        *)

CreateVM(i) == /\ i \notin vms
               /\ vms' = vms \cup {i}
               /\ nics' = nics \cup {i}
               /\ disks' = disks \cup {i}
               /\ failed' = failed \ {i}
               /\ UNCHANGED <<listVars, indexVars, fresh, main, pc, job>>

\* VMs that Azure lists as being deleted.
Doomed == {i \in vms : \E d \in Deleters : At(d, "vm") /\ job[d].cur = i}

Tick == invalidateCache /\ UNCHANGED <<azureVars, listVars, indexVars, main, pc,
                                      job, failed>>

-----------------------------------------------------------------------------
(* The list of VMs and the index.                                          *)

\* fetchVirtualMachines.
Refresh == /\ main = "idle"
           /\ ~fresh
           /\ list' = vms
           /\ listDoomed' \in SUBSET Doomed
           /\ main' = "publish"
           /\ UNCHANGED <<azureVars, indexVars, fresh, pc, job, failed>>

\* What Nodes() returns; a status follows the provisioning state listed.
Nodes == [ids |-> list, deleting |-> listDoomed]

\* Mutant: marks are kept for the instances that are still there.
PublishKeepsMarks ==
  /\ main = "publish"
  /\ main' = "idle"
  /\ \/ list = {} /\ UNCHANGED <<indexVars, fresh>>
     \/ /\ list # {}
        /\ index' = list
        /\ marked' = (marked \cap list) \cup listDoomed
        /\ fresh' = TRUE
  /\ UNCHANGED <<azureVars, listVars, pc, job, failed>>

\* The rest of regenerate.  Nodes() of a pool without VMs is an error, which
\* ends the refresh before anything is replaced.
Publish ==
  /\ main = "publish"
  /\ main' = "idle"
  /\ \/ list = {} /\ UNCHANGED <<indexVars, fresh>>
     \/ /\ list # {}
        /\ index' = Nodes.ids
        /\ marked' = Nodes.deleting
        /\ fresh' = TRUE
  /\ UNCHANGED <<azureVars, listVars, pc, job, failed>>

-----------------------------------------------------------------------------
(* Deleting nodes.                                                         *)

Belongs(i) == i \in index

\* deleteOutdatedDeployments (see AgentPool) leaves the VMs alone.
ForceDeleteNodes(d, nodes) ==
  /\ At(d, "idle")
  /\ \A i \in nodes : Belongs(i)
  /\ job' = [job EXCEPT ![d] = [NoJob EXCEPT !.todo = nodes]]
  /\ Goto(d, "verify")
  /\ UNCHANGED <<azureVars, listVars, indexVars, fresh, main, failed>>

DeleteNodes(d, nodes) == /\ list # {}
                         /\ Cardinality(list) > MinSize
                         /\ ForceDeleteNodes(d, nodes)

\* DeleteInstances looks the node groups up again and takes their Id().
VerifyNodeGroup(d) ==
  /\ At(d, "verify")
  /\ Goto(d, IF job[d].todo \subseteq index THEN "next" ELSE "panic")
  /\ UNCHANGED <<azureVars, listVars, indexVars, fresh, main, job, failed>>

setInstanceStateByProviderID(i) ==
  marked' = IF i \in index THEN marked \cup {i} ELSE marked

\* The next instance of the batch, marked before it is deleted.
NextInstance(d, i) ==
  /\ At(d, "next")
  /\ i \in job[d].todo
  /\ job' = [job EXCEPT ![d] = [todo |-> @.todo \ {i}, cur |-> i]]
  /\ IF StrictCacheUpdates THEN UNCHANGED marked
                           ELSE setInstanceStateByProviderID(i)
  /\ Goto(d, "get")
  /\ UNCHANGED <<azureVars, listVars, index, fresh, main, failed>>

AllDeleted(d) ==
  /\ At(d, "next")
  /\ job[d].todo = {}
  /\ Goto(d, "idle")
  /\ job' = [job EXCEPT ![d] = NoJob]
  /\ invalidateCache
  /\ UNCHANGED <<azureVars, listVars, indexVars, main, failed>>

-----------------------------------------------------------------------------
(* deleteVirtualMachine.                                                   *)

\* It goes on to call l with the same VM, or is done with it.
Continue(d, l) ==
  /\ Goto(d, l)
  /\ job' = IF l = "next" THEN [job EXCEPT ![d].cur = None] ELSE job
  /\ UNCHANGED <<listVars, indexVars, fresh, main, failed>>

\* A VM that is not found has already been removed.
GetVM(d) == /\ At(d, "get")
            /\ UNCHANGED azureVars
            /\ Continue(d, IF job[d].cur \in vms THEN "vm" ELSE "next")

\* Mutant: the request names another VM than the one that was looked up.
DeleteVMNext(d) ==
  /\ At(d, "vm")
  /\ \E i \in VM : /\ i \notin job[d].todo \cup {job[d].cur}
                   /\ vms' = vms \ {i}
  /\ UNCHANGED <<nics, disks>>
  /\ Continue(d, "nic")

\* Deleting what does not exist is no error.
DeleteVM(d) == /\ At(d, "vm")
               /\ vms' = vms \ {job[d].cur}
               /\ UNCHANGED <<nics, disks>>
               /\ Continue(d, "nic")

\* The disk is a managed one or a blob.
RemoveDisk(d) == disks' = disks \ {job[d].cur} /\ UNCHANGED <<vms, nics>>

\* Azure refuses to delete what is attached to a VM, be it one of the same
\* name created since.
Detached(d) == job[d].cur \notin vms

\* Mutant: an error of the interface's deletion is only logged.
DeleteNICLogging(d) == /\ At(d, "nic")
                       /\ nics' \in {nics, nics \ {job[d].cur}}
                       /\ UNCHANGED <<vms, disks>>
                       /\ Continue(d, "disk")

DeleteNIC(d) == /\ At(d, "nic")
                /\ Detached(d)
                /\ nics' = nics \ {job[d].cur}
                /\ UNCHANGED <<vms, disks>>
                /\ Continue(d, "disk")

DeleteDisk(d) == /\ At(d, "disk")
                 /\ Detached(d)
                 /\ RemoveDisk(d)
                 /\ Continue(d, "next")

\* Any of the four calls fails, possibly after Azure has done its work: the
\* batch is given up and the cache is to be refreshed.
DeletionFails(d) ==
  /\ pc[d] \in {"get", "vm", "nic", "disk"}
  /\ \/ UNCHANGED azureVars
     \/ At(d, "vm") /\ vms' = vms \ {job[d].cur} /\ UNCHANGED <<nics, disks>>
     \/ /\ At(d, "nic") /\ Detached(d)
        /\ nics' = nics \ {job[d].cur} /\ UNCHANGED <<vms, disks>>
     \/ At(d, "disk") /\ Detached(d) /\ RemoveDisk(d)
  /\ failed' = failed \cup {job[d].cur}
  /\ Goto(d, "idle")
  /\ job' = [job EXCEPT ![d] = NoJob]
  /\ invalidateCache
  /\ UNCHANGED <<listVars, indexVars, main>>

-----------------------------------------------------------------------------
\* After the first refresh of a process.
Init == /\ vms \in (SUBSET VM) \ {{}}
        /\ nics = vms /\ disks = vms
        /\ list = vms /\ listDoomed = {}
        /\ index = vms /\ marked = {}
        /\ fresh = TRUE
        /\ main = "idle"
        /\ pc = [d \in Deleters |-> "idle"]
        /\ job = [d \in Deleters |-> NoJob]
        /\ failed = {}

Up == \A d \in Deleters : ~At(d, "panic")

\* A panic ends the process, deletions under way included; it does not come up
\* again while the pool has no VMs.
Restart == /\ ~Up
           /\ vms # {}
           /\ list' = vms /\ listDoomed' = {}
           /\ index' = vms /\ marked' = {}
           /\ fresh' = TRUE
           /\ main' = "idle"
           /\ pc' = [d \in Deleters |-> "idle"]
           /\ job' = [d \in Deleters |-> NoJob]
           /\ failed' = (failed \cup {job[d].cur : d \in Deleters}) \ {None}
           /\ UNCHANGED azureVars

MainStep == Refresh \/ Publish

DeleterStep(d) ==
  \/ \E nodes \in SUBSET index :
       /\ Cardinality(nodes) \in 1..MaxBatch
       /\ ForceDeleteNodes(d, nodes) \/ DeleteNodes(d, nodes)
  \/ VerifyNodeGroup(d)
  \/ \E i \in VM : NextInstance(d, i)
  \/ AllDeleted(d)
  \/ GetVM(d) \/ DeleteVM(d) \/ DeleteNIC(d) \/ DeleteDisk(d)
  \/ DeletionFails(d)

Next == \/ Up /\ (MainStep \/ Tick \/ \E d \in Deleters : DeleterStep(d))
        \/ \E i \in VM : CreateVM(i)
        \/ Restart

Spec == Init /\ [][Next]_vars

-----------------------------------------------------------------------------
(* Fairness.  The loop refreshes again and again, time passes, and a       *)
(* process that has crashed is started again.                              *)

Fairness == /\ WF_vars(Up /\ Publish)
            /\ WF_vars(Up /\ Tick)
            /\ WF_vars(Restart)
            /\ SF_vars(Up /\ Refresh)

FairSpec == Spec /\ Fairness

-----------------------------------------------------------------------------
(* Properties.                                                             *)

Label == {"idle", "verify", "next", "get", "vm", "nic", "disk", "panic"}

\* Every variable keeps its type, the index's marks are about instances it
\* has, and a deletion knows the VM it is about.
TypeOK ==
  /\ vms \subseteq VM /\ nics \subseteq VM /\ disks \subseteq VM
  /\ list \subseteq VM /\ listDoomed \subseteq list
  /\ index \subseteq VM /\ marked \subseteq index
  /\ fresh \in BOOLEAN
  /\ main \in {"idle", "publish"}
  /\ pc \in [Deleters -> Label]
  /\ job \in [Deleters -> [todo : SUBSET VM, cur : VM \cup {None}]]
  /\ failed \subseteq VM
  /\ \A d \in Deleters :
       job[d].cur # None <=> pc[d] \in {"get", "vm", "nic", "disk"}

\* Deleter d has looked at VM i and not yet made its last call for it.
Deleting(d, i) == job[d].cur = i /\ pc[d] \in {"vm", "nic", "disk"}

\* deleteVirtualMachine leaves no interface or disk without a VM behind, also
\* when two deletions of one VM race or the VM is created anew meanwhile,
\* unless an error was returned for it or the process has crashed.
OrphansExplained ==
  \A i \in (nics \cup disks) \ vms :
    i \in failed \/ \E d \in Deleters : Deleting(d, i)

\* The same promises as AgentPool's; here VMs may be created at any time, and
\* the maximum is not looked after.
Group == INSTANCE NodeGroup WITH
           Node <- VM,
           MaxSize <- 0,
           nodes <- vms,
           growing <- TRUE,
           asked <- UNION {job[d].todo \cup ({job[d].cur} \ {None}) : d \in Deleters},
           unwatched <- TRUE

\* Call by call, deletions that race, fail half-way or are cut short by a crash
\* remove no VM but those that a DeleteNodes still under way has named.
IsNodeGroup == Group!Spec

\* An instance is not taken for one being deleted for ever after its deletion
\* has failed ("force a cache refresh on the next loop"), unless the pool has
\* lost all its VMs.
MarkWearsOff ==
  \A i \in VM :
    []<>(i \notin marked \/ vms = {} \/ \E d \in Deleters : job[d].cur = i)

=============================================================================
