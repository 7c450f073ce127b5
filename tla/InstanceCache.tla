--------------------------- MODULE InstanceCache ---------------------------
(***************************************************************************)
(* What the provider knows of the instances of one scale set: the scale    *)
(* set's list (azure_scale_set_instance_cache.go), the index that the      *)
(* azureCache builds from it (instanceToNodeGroup and instanceStates of    *)
(* azure_cache.go), and the deletions that read and mark both.             *)
(*                                                                         *)
(* Thread Main refreshes the index; deleters run DeleteInstances for one   *)
(* instance and its waitForDeleteInstances, which refreshes the index too. *)
(* instanceMutex and azureCache.mutex are held for the length of a step;   *)
(* a list is taken at the moment Azure answers it.                         *)
(***************************************************************************)
EXTENDS Naturals, FiniteSets

CONSTANTS
  Inst,                                 \* instance ids
  Deleters,                             \* goroutines that delete
  Flexible,                             \* orchestration mode of the VMSS
  EnableFastDeleteOnFailedProvisioning, \* config
  EnableDetailedCSEMessage,             \* config
  CSEFailing,                           \* instances whose CSE extension fails
  StrictCacheUpdates                    \* config

Main == "main"
Thread == {Main} \cup Deleters
Absent == "absent"

ASSUME DeletersAssumption == Main \notin Deleters
ASSUME ModeAssumption ==
  /\ {Flexible, EnableFastDeleteOnFailedProvisioning,
      EnableDetailedCSEMessage, StrictCacheUpdates} \subseteq BOOLEAN
  /\ CSEFailing \subseteq Inst

VARIABLES
  vm,            \* Azure's VMs: provisioning state, and power where it matters
  doomed,        \* instances whose deletion Azure has accepted
  instanceCache, \* scaleSet.instanceCache: the status of each listed instance
  instValid,     \* lastInstanceRefresh has not expired
  index,         \* DOMAIN instanceToNodeGroup
  states,        \* instanceStates
  pc,            \* where each thread is
  reg,           \* the list a thread's regenerate works on
  job            \* the instance a deleter is about, and its outcome

cacheVars == <<instanceCache, instValid>>
indexVars == <<index, states>>
vars == <<vm, doomed, instanceCache, instValid, index, states, pc, reg, job>>

VMState == {"none", "Creating", "Running", "Updating", "FailedOn", "FailedOff",
            "Deleting", "gone"}
Status  == {"nil", "Creating", "Running", "Deleting", "CreateError"}
Label   == {"idle", "list", "read", "publish", "verify", "check", "send",
            "mark", "markIndex", "wait", "rewait", "drop", "panic"}

ListType == [Inst -> Status \cup {Absent}]
RegType  == [list : ListType, alias : BOOLEAN]
JobType  == [inst : Inst \cup {Absent}, ok : BOOLEAN]

Nothing == [i \in Inst |-> Absent]

At(t, l) == pc[t] = l
Goto(t, l) == pc' = [pc EXCEPT ![t] = l]

-----------------------------------------------------------------------------
(* Azure (external).                                                       *)

\* The VMSS scales up; a VM is provisioned, updated, evicted; a deletion makes
\* progress or fails.
VMMoves(i) ==
  \/ vm[i] = "none" /\ vm' = [vm EXCEPT ![i] = "Creating"]
  \/ /\ vm[i] \in {"Creating", "Updating"} /\ i \notin doomed
     /\ \E s \in {"Running", "FailedOn", "FailedOff"} : vm' = [vm EXCEPT ![i] = s]
  \/ /\ vm[i] \in {"Running", "FailedOn", "FailedOff"} /\ i \notin doomed
     /\ vm' = [vm EXCEPT ![i] = "Updating"]
  \/ vm[i] \notin {"none", "gone"} /\ vm' = [vm EXCEPT ![i] = "gone"]
  \/ vm[i] = "Updating" /\ i \in doomed /\ vm' = [vm EXCEPT ![i] = "Deleting"]
  \/ /\ i \in doomed
     /\ \E s \in {"Running", "FailedOn"} : vm' = [vm EXCEPT ![i] = s]

\* A deletion ends with the VM, or is given up or preempted.
Azure == /\ \E i \in Inst : VMMoves(i)
         /\ doomed' = {i \in doomed : vm'[i] \in {"Updating", "Deleting"}}
         /\ UNCHANGED <<cacheVars, indexVars, pc, reg, job>>

\* Azure accepts the deletion of i: the VM reports it at once, or is still
\* "Updating" for a while.  Deleting a VM that is gone succeeds.
AcceptDelete(i) ==
  IF vm[i] \in {"none", "gone"} \/ i \in doomed THEN UNCHANGED <<vm, doomed>>
  ELSE /\ \E s \in {"Updating", "Deleting"} : vm' = [vm EXCEPT ![i] = s]
       /\ doomed' = doomed \cup {i}

-----------------------------------------------------------------------------
(* The scale set's list.                                                   *)

\* Mutant: only what is gone is treated as deleted.
FromProvisioningStateLenient(i) ==
  CASE vm[i] = "Creating"  -> "Creating"
    [] vm[i] = "FailedOff" -> IF EnableFastDeleteOnFailedProvisioning
                              THEN "CreateError" ELSE "Running"
    [] OTHER               -> "Running"

FromProvisioningState(i) ==
  CASE vm[i] = "Deleting"  -> "Deleting"
    [] vm[i] = "Creating"  -> "Creating"
    [] vm[i] = "FailedOff" -> IF EnableFastDeleteOnFailedProvisioning
                              THEN "CreateError" ELSE "Running"
    [] OTHER               -> "Running"

\* Mutant: a VM that is being updated is reported as running.
instanceStatusFromVMTerminal(i) ==
  IF EnableDetailedCSEMessage /\ i \in CSEFailing THEN "CreateError"
  ELSE FromProvisioningState(i)

\* Mutant: the proactive view is preferred in terminal states too.
instanceStatusFromVMSticky(i) ==
  IF instanceCache[i] # Absent THEN instanceCache[i]
  ELSE IF vm[i] = "Updating" THEN "nil"
  ELSE FromProvisioningState(i)

\* Uniform: a VM that is being updated keeps the status it is cached with.
instanceStatusFromVM(i) ==
  IF vm[i] = "Updating"
  THEN IF instanceCache[i] = Absent THEN "nil" ELSE instanceCache[i]
  ELSE IF EnableDetailedCSEMessage /\ i \in CSEFailing THEN "CreateError"
  ELSE FromProvisioningState(i)

\* The list that Azure's answer is turned into; a VM on its way out may have
\* lost its resource id already (hidden).
Listed(hidden) ==
  [i \in Inst |->
     IF vm[i] \in {"none", "gone"} \/ i \in hidden THEN Absent
     ELSE IF Flexible THEN FromProvisioningState(i)
     ELSE instanceStatusFromVM(i)]

Lists == {Listed(hidden) : hidden \in SUBSET {i \in Inst : vm[i] = "Deleting"}}

\* updateInstanceCache, called with instanceMutex, makes list the current one:
\* it is rebuilt; or the call is throttled and the old one kept for another
\* period; or it fails.
updateInstanceCache(out, list) ==
  \/ out = "listed" /\ list \in Lists /\ instValid' = TRUE
  \/ out = "throttled" /\ list = instanceCache /\ instValid' = TRUE
  \/ out = "error" /\ list = instanceCache /\ UNCHANGED instValid

validateInstanceCache(out, list) ==
  IF instValid THEN out = "fresh" /\ list = instanceCache /\ UNCHANGED instValid
               ELSE updateInstanceCache(out, list)

Outcome == {"fresh", "listed", "throttled", "error"}

\* A rebuilt list is a new slice: who holds the old one no longer sees writes.
RegAfter(out) == IF out = "listed"
                 THEN [t \in Thread |-> [reg[t] EXCEPT !.alias = FALSE]]
                 ELSE reg

\* The list expires, or is invalidated by a change of size, by
\* DecreaseTargetSize or by a waiter.
invalidateInstanceCache == /\ instValid' = FALSE
                           /\ UNCHANGED <<vm, doomed, instanceCache, indexVars,
                                          pc, reg, job>>

-----------------------------------------------------------------------------
(* regenerate: the index is rebuilt from the list.                         *)

NoReg == [list |-> Nothing, alias |-> FALSE]
NoJob == [inst |-> Absent, ok |-> FALSE]

Finish(d) == Goto(d, "idle") /\ job' = [job EXCEPT ![d] = NoJob]

Refresh == /\ At(Main, "idle")
           /\ Goto(Main, "list")
           /\ UNCHANGED <<vm, doomed, cacheVars, indexVars, reg, job>>

\* Thread t's forceRefresh is over; a deletion's waiter is done with it, but
\* for the invalidation that follows a successful deletion.
EndRefresh(t) ==
  IF t = Main THEN Goto(t, "idle") /\ UNCHANGED job
  ELSE IF job[t].ok THEN Goto(t, "drop") /\ UNCHANGED job
  ELSE Finish(t)

\* Nodes() returns the slice itself.  The list is also rebuilt, fresh as it
\* may be, where its length is not the size of the scale set.
NodesOf(t) ==
  /\ At(t, "list")
  /\ UNCHANGED <<vm, doomed, indexVars>>
  /\ \E out \in Outcome, list \in Lists \cup {instanceCache} :
       /\ validateInstanceCache(out, list) \/ updateInstanceCache(out, list)
       /\ instanceCache' = list
       /\ IF out = "error"
          THEN EndRefresh(t) /\ UNCHANGED reg
          ELSE /\ Goto(t, "read")
               /\ reg' = [RegAfter(out) EXCEPT
                            ![t] = [list |-> list, alias |-> TRUE]]
               /\ UNCHANGED job

\* Listing the scale sets or the VMs of the resource group fails.
FetchFails(t) == /\ At(t, "list")
                 /\ EndRefresh(t)
                 /\ UNCHANGED <<vm, doomed, cacheVars, indexVars, reg>>

\* Nodes() of a VMSS that is not listed any more is empty; the list is kept.
VMSSMissing(t) == /\ At(t, "list")
                  /\ \A i \in Inst : vm[i] = "gone"
                  /\ Goto(t, "read")
                  /\ reg' = [reg EXCEPT ![t] = NoReg]
                  /\ UNCHANGED <<vm, doomed, cacheVars, indexVars, job>>

\* The loop over the instances, at one point of which the statuses are read.
ReadList(t) == /\ At(t, "read")
               /\ Goto(t, "publish")
               /\ reg' = [reg EXCEPT ![t].alias = FALSE]
               /\ UNCHANGED <<vm, doomed, cacheVars, indexVars, job>>

PublishIndex(t) ==
  /\ At(t, "publish")
  /\ index' = {i \in Inst : reg[t].list[i] # Absent}
  /\ states' = [i \in Inst |-> IF reg[t].list[i] = "nil" THEN Absent
                               ELSE reg[t].list[i]]
  /\ reg' = [reg EXCEPT ![t] = NoReg]
  /\ EndRefresh(t)
  /\ UNCHANGED <<vm, doomed, cacheVars>>

-----------------------------------------------------------------------------
(* Deleting instance job[d].inst.                                          *)

\* ForceDeleteNodes: the node belongs to this scale set.
Belongs(d, i) ==
  /\ At(d, "idle")
  /\ i \in index
  /\ job' = [job EXCEPT ![d] = [inst |-> i, ok |-> FALSE]]
  /\ Goto(d, "verify")
  /\ UNCHANGED <<vm, doomed, cacheVars, indexVars, reg>>

\* DeleteInstances looks the node group up again and takes its Id().
VerifyNodeGroup(d) ==
  /\ At(d, "verify")
  /\ Goto(d, IF job[d].inst \in index THEN "check" ELSE "panic")
  /\ UNCHANGED <<vm, doomed, cacheVars, indexVars, reg, job>>

\* getInstanceByProviderID: an instance shown as being deleted is skipped.
SkipDeleting(d) ==
  /\ At(d, "check")
  /\ UNCHANGED <<vm, doomed, indexVars>>
  /\ \E out \in Outcome, list \in Lists \cup {instanceCache} :
       /\ validateInstanceCache(out, list)
       /\ instanceCache' = list
       /\ reg' = RegAfter(out)
       /\ IF out # "error" /\ list[job[d].inst] = "Deleting"
          THEN Finish(d)
          ELSE Goto(d, "send") /\ UNCHANGED job

SendDelete(d) ==
  /\ At(d, "send")
  /\ AcceptDelete(job[d].inst)
  /\ Goto(d, IF StrictCacheUpdates THEN "wait" ELSE "mark")
  /\ UNCHANGED <<cacheVars, indexVars, reg, job>>

\* Refused, or accepted and the answer lost.
SendFails(d) ==
  /\ At(d, "send")
  /\ UNCHANGED <<vm, doomed>> \/ AcceptDelete(job[d].inst)
  /\ Finish(d)
  /\ UNCHANGED <<cacheVars, indexVars, reg>>

\* The status of i is overwritten in place, in the slice others may hold.
InPlace(list, i) == IF list[i] = Absent THEN list
                    ELSE [list EXCEPT ![i] = "Deleting"]

\* setInstanceStatusByProviderID validates the list first; where that fails
\* the stale one is marked.
MarkInstance(d) ==
  /\ At(d, "mark")
  /\ Goto(d, "markIndex")
  /\ UNCHANGED <<vm, doomed, indexVars, job>>
  /\ \E out \in Outcome, list \in Lists \cup {instanceCache} :
       /\ validateInstanceCache(out, list)
       /\ instanceCache' = InPlace(list, job[d].inst)
       /\ reg' = [t \in Thread |->
                    IF RegAfter(out)[t].alias
                    THEN [reg[t] EXCEPT !.list = InPlace(@, job[d].inst)]
                    ELSE RegAfter(out)[t]]

\* Mutant: the state is recorded whether or not the instance is indexed.
setInstanceStateAlways(i) == states' = [states EXCEPT ![i] = "Deleting"]

setInstanceStateByProviderID(i) ==
  states' = IF i \in index THEN [states EXCEPT ![i] = "Deleting"] ELSE states

MarkIndex(d) ==
  /\ At(d, "markIndex")
  /\ setInstanceStateByProviderID(job[d].inst)
  /\ Goto(d, "wait")
  /\ UNCHANGED <<vm, doomed, cacheVars, index, reg, job>>

\* waitForDeleteInstances: the poller reports success.
DeleteDone(d) ==
  /\ At(d, "wait")
  /\ vm[job[d].inst] = "gone"
  /\ IF StrictCacheUpdates
     THEN Goto(d, "list") /\ job' = [job EXCEPT ![d].ok = TRUE]
     ELSE Finish(d)
  /\ UNCHANGED <<vm, doomed, cacheVars, indexVars, reg>>

\* OperationPreempted: the deletion is sent a second time.
RetryDelete(d) ==
  /\ At(d, "wait")
  /\ AcceptDelete(job[d].inst)
  /\ Goto(d, "rewait")
  /\ UNCHANGED <<cacheVars, indexVars, reg, job>>

RetryDone(d) ==
  /\ At(d, "rewait")
  /\ vm[job[d].inst] = "gone"
  /\ Goto(d, "drop")
  /\ UNCHANGED <<vm, doomed, cacheVars, indexVars, reg, job>>

\* Azure has given the deletion up, or the waiter gives Azure up.
DeleteFails(d) ==
  /\ At(d, "wait") \/ At(d, "rewait")
  /\ instValid' = FALSE
  /\ Goto(d, "list")
  /\ UNCHANGED <<vm, doomed, instanceCache, indexVars, reg, job>>

DropList(d) == /\ At(d, "drop")
               /\ instValid' = FALSE
               /\ Finish(d)
               /\ UNCHANGED <<vm, doomed, instanceCache, indexVars, reg>>

-----------------------------------------------------------------------------
\* The process starts with empty caches.
Init == /\ vm \in [Inst -> {"none", "Running"}]
        /\ doomed = {}
        /\ instanceCache = Nothing
        /\ instValid = FALSE
        /\ index = {}
        /\ states = Nothing
        /\ pc = [t \in Thread |-> "idle"]
        /\ reg = [t \in Thread |-> NoReg]
        /\ job = [d \in Deleters |-> NoJob]

\* A panic ends the process, which is then started again.
Restart == /\ \E d \in Deleters : At(d, "panic")
           /\ instanceCache' = Nothing
           /\ instValid' = FALSE
           /\ index' = {}
           /\ states' = Nothing
           /\ pc' = [t \in Thread |-> "idle"]
           /\ reg' = [t \in Thread |-> NoReg]
           /\ job' = [d \in Deleters |-> NoJob]
           /\ UNCHANGED <<vm, doomed>>

Regenerating(t) ==
  NodesOf(t) \/ VMSSMissing(t) \/ FetchFails(t) \/ ReadList(t) \/ PublishIndex(t)

Waiting(d) == DeleteDone(d) \/ RetryDelete(d) \/ RetryDone(d) \/ DeleteFails(d)
              \/ DropList(d)

Deleting(d) ==
  \/ \E i \in Inst : Belongs(d, i)
  \/ VerifyNodeGroup(d) \/ SkipDeleting(d) \/ SendDelete(d) \/ SendFails(d)
  \/ MarkInstance(d) \/ MarkIndex(d)

Next == \/ Azure \/ invalidateInstanceCache \/ Refresh \/ Restart
        \/ \E t \in Thread : Regenerating(t)
        \/ \E d \in Deleters : Deleting(d) \/ Waiting(d)

Spec == Init /\ [][Next]_vars

-----------------------------------------------------------------------------
(* Fairness.  The autoscaler refreshes in every loop; every call has a     *)
(* deadline; the list expires; Azure answers a list now and then; and a    *)
(* crashed process is started again.                                       *)

Fairness ==
  /\ WF_vars(Refresh) /\ WF_vars(Restart) /\ WF_vars(invalidateInstanceCache)
  /\ SF_vars(NodesOf(Main) /\ pc'[Main] = "read" /\ instanceCache' \in Lists)
  /\ WF_vars(Regenerating(Main))
  /\ \A d \in Deleters : /\ WF_vars(Regenerating(d))
                         /\ WF_vars(Deleting(d) /\ ~At(d, "idle"))
                         /\ WF_vars(Waiting(d))

FairSpec == Spec /\ Fairness

-----------------------------------------------------------------------------
(* Properties.                                                             *)

HasInstance(i) == i \in index /\ states[i] # "Deleting"

\* Every variable keeps its type.
TypeOK ==
  /\ vm \in [Inst -> VMState]
  /\ doomed \subseteq Inst
  /\ instanceCache \in ListType
  /\ instValid \in BOOLEAN
  /\ index \subseteq Inst
  /\ states \in [Inst -> (Status \ {"nil"}) \cup {Absent}]
  /\ pc \in [Thread -> Label]
  /\ reg \in [Thread -> RegType]
  /\ job \in [Deleters -> JobType]
  /\ \A d \in Deleters :
       pc[d] \in {"verify", "check", "send", "mark", "markIndex", "wait",
                  "rewait"} => job[d].inst \in Inst

\* The states are kept aligned with the index: no instance has a state that
\* regenerate or Unregister would not find in instanceToNodeGroup.
StatesAligned == \A i \in Inst : states[i] # Absent => i \in index

\* While Azure is deleting an instance, one that is listed as being deleted is
\* never listed otherwise again, however the VM reports its update: else the
\* autoscaler would delete it a second time.
MarkSticks ==
  [][\A i \in doomed \cap doomed' :
       instanceCache[i] = "Deleting" => instanceCache'[i] \in {"Deleting", Absent}]_vars

\* A mark wears off: an instance whose deletion failed and which runs on is
\* reported as existing again, for good, though several threads may still
\* publish lists that were read while it was marked.
MarkWearsOff ==
  \A i \in Inst : <>[](vm[i] = "Running") => <>[]HasInstance(i)

\* An instance that is gone, or that Azure goes on deleting, is reported as gone
\* in the end, and for good, though regenerate replaces the states by ones it
\* collected before a mark was set, a relisting may have dropped the mark before
\* that, and several threads may publish lists older than the ones they replace.
DeletingReported ==
  \A i \in Inst : <>[](vm[i] \in {"Deleting", "gone"}) => <>[]~HasInstance(i)

\* An instance that was in the index when the deletion was asked for and has
\* left it since is refused as one that "doesn't belong to a known scale set":
\* the node group that is not there is not dereferenced.
UnknownRefused == \A d \in Deleters : ~At(d, "panic")

=============================================================================
