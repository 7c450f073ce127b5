------------------------------ MODULE ScaleSet ------------------------------
(***************************************************************************)
(* The size of one ScaleSet node group: curSize, the cached VMSS object it *)
(* is refreshed from, and the capacity updates and instance deletions sent *)
(* to Azure (azure_scale_set.go, with the refresh of azure_manager.go and  *)
(* azure_cache.go that replaces the cached object).                        *)
(*                                                                         *)
(* Who runs: the autoscaler loop (thread Main) refreshes, reads the size   *)
(* and increases it, one call at a time; deletions run on goroutines of    *)
(* their own (Deleters), each followed by its waitForDeleteInstances; every*)
(* accepted plain increase leaves a waitForCreateOrUpdateInstances behind  *)
(* (puts).  Azure, and whoever else writes the VMSS, moves at any time.    *)
(*                                                                         *)
(* A step is a stretch of code between two points where another goroutine  *)
(* can interfere: an API call or the release of a mutex.                   *)
(***************************************************************************)
EXTENDS Integers, FiniteSets

CONSTANTS
  Deleters,                 \* goroutines that call (Force)DeleteNodes
  Obj,                      \* addresses of *VirtualMachineScaleSet objects
  MinSize, MaxSize,         \* spec.MinSize, spec.MaxSize
  Deltas,                   \* the increases the autoscaler may ask for
  RefreshInterval,          \* azureCache.refreshInterval = sizeRefreshPeriod
  GetVmssSizeRefreshPeriod, \* refresh period of a Spot scale set
  Spot,                     \* isSpot(set)
  EnableVMSSEtag,           \* config.EnableVMSSEtag
  StrictCacheUpdates,       \* config.StrictCacheUpdates
  MaxBatch,                 \* bound: instances in one DeleteInstances call
  MaxVersion,               \* bound: writes Azure accepts
  MaxPuts                   \* bound: plain increases being waited for

Main == "main"
Thread == {Main} \cup Deleters
NoObj == 0

ASSUME ThreadsAssumption == Main \notin Deleters
ASSUME SizesAssumption == /\ MinSize \in Nat /\ MaxSize \in Nat
                          /\ MinSize <= MaxSize
                          /\ Deltas \subseteq Nat \ {0}
                          /\ MaxBatch \in Nat \ {0}
ASSUME BoundsAssumption == MaxVersion \in Nat \ {0} /\ MaxPuts \in Nat
ASSUME PeriodsAssumption == /\ RefreshInterval \in Nat \ {0}
                            /\ GetVmssSizeRefreshPeriod \in Nat \ {0}
ASSUME FlagsAssumption == /\ Spot \in BOOLEAN
                          /\ EnableVMSSEtag \in BOOLEAN
                          /\ StrictCacheUpdates \in BOOLEAN
ASSUME ObjAssumption == Obj \subseteq Nat \ {0}

VARIABLES
  vmss,      \* Azure's VMSS: does it live, SKU.Capacity, its ETag
  objs,      \* the heap: objs[o] is the VMSS object at address o
  cached,    \* azureCache.scaleSets[name], an address or NoObj
  curSize,   \* scaleSet.curSize
  sizeAge,   \* time since lastSizeRefresh
  mgrAge,    \* time since manager.lastRefresh
  instValid, \* the instance cache has not been invalidated nor expired
  pc,        \* where each thread is
  call,      \* Main's running increase: its arguments and results
  held,      \* Main's pointers: vmssInfo and effectiveVMSS
  puts,      \* the goroutines waiting for a plain capacity update
  job        \* each deleter's running DeleteInstances

cacheVars == <<objs, cached>>
sizeVars  == <<curSize, sizeAge>>
mainVars  == <<call, held, puts>>
vars == <<vmss, objs, cached, curSize, sizeAge, mgrAge, instValid,
          pc, call, held, puts, job>>

-----------------------------------------------------------------------------
(* Time.  An age saturates at MaxAge, where every timer has expired.       *)

MaxAge == IF GetVmssSizeRefreshPeriod > RefreshInterval
          THEN GetVmssSizeRefreshPeriod ELSE RefreshInterval

Older(age) == IF age < MaxAge THEN age + 1 ELSE MaxAge

EffectiveSizeRefreshPeriod ==
  IF Spot THEN GetVmssSizeRefreshPeriod ELSE RefreshInterval

\* lastSizeRefresh.Add(effectiveSizeRefreshPeriod).After(time.Now())
SizeFresh == sizeAge < EffectiveSizeRefreshPeriod

Tick == /\ sizeAge' = Older(sizeAge)
        /\ mgrAge' = Older(mgrAge)
        /\ instValid' \in {instValid, FALSE}
        /\ UNCHANGED <<vmss, cacheVars, curSize, pc, mainVars, job>>

-----------------------------------------------------------------------------
(* The heap of VMSS objects.  A fetch allocates; the garbage collector     *)
(* blanks what nobody points to.                                           *)

Blank == [cap |-> 0, etag |-> 0, backed |-> TRUE]

\* The ETag of a fetched object is kept only where it is looked at.  backed:
\* history, the capacity was read from Azure or accepted by it.
Fetched == [cap |-> vmss.cap, etag |-> IF EnableVMSSEtag THEN vmss.etag ELSE 0,
            backed |-> TRUE]

Live == ({cached, held.obj, held.eff} \cup {p.obj : p \in puts}) \ {NoObj}

Free(o) == o \in Obj \ Live /\ \A x \in Obj \ Live : o <= x

Heap(h) == objs' = [o \in Obj |-> IF o \in Live' THEN h[o] ELSE Blank]

-----------------------------------------------------------------------------
(* Azure and the other writers of the VMSS (external).                     *)

ServerWrite(c) == /\ vmss.etag < MaxVersion
                  /\ vmss' = [vmss EXCEPT !.cap = c, !.etag = @ + 1]

\* Someone else scales the VMSS: an operator, AKS, a Spot eviction.
OtherWriter == /\ vmss.live
               /\ \E c \in 0..MaxSize : c # vmss.cap /\ ServerWrite(c)
               /\ UNCHANGED <<cacheVars, sizeVars, mgrAge, instValid, pc,
                              mainVars, job>>

VMSSRemoved == /\ vmss.live
               /\ vmss' = [vmss EXCEPT !.live = FALSE, !.cap = 0]
               /\ UNCHANGED <<cacheVars, sizeVars, mgrAge, instValid, pc,
                              mainVars, job>>

\* The capacities a VMSS can be left with when the update that brought it
\* from `from` to its present capacity fails; a later write supersedes it.
AfterFailedUpdate(from, etag) ==
  IF vmss.live /\ vmss.etag = etag THEN from..vmss.cap ELSE {vmss.cap}

FailUpdate(from, etag) ==
  \E c \in AfterFailedUpdate(from, etag) :
     IF c = vmss.cap THEN UNCHANGED vmss ELSE ServerWrite(c)

-----------------------------------------------------------------------------
(* Reading the size.                                                       *)

\* Main keeps sizeMutex across the steps of an ETag retry; every other
\* holder releases it within its step.
SizeMutexFree == pc[Main] \notin {"retryGet", "retrySet", "retryPut"}

\* Mutant: the refreshed size is never stored.
getCurSizeNotStored ==
  /\ SizeMutexFree
  /\ cached # NoObj
  /\ sizeAge' = IF SizeFresh THEN sizeAge ELSE 0
  /\ UNCHANGED <<curSize, cacheVars>>

\* What the GET of a Spot scale set returns, by the time it is published: the
\* VMSS as it is, or as it may have been before other threads and Azure went on.
Answers ==
  {f \in [cap : 0..MaxSize, backed : {TRUE},
          etag : IF EnableVMSSEtag THEN 0..vmss.etag ELSE {0}] :
     vmss.live /\ f.etag = vmss.etag => f = Fetched}

\* A getCurSize call that succeeds; it returns curSize'.  The caller sets
\* instValid', which the call clears when the size has changed.
getCurSize ==
  /\ SizeMutexFree
  /\ cached # NoObj
  /\ \/ SizeFresh /\ UNCHANGED <<sizeVars, cacheVars>>
     \/ /\ ~SizeFresh /\ ~Spot
        /\ curSize' = objs[cached].cap
        /\ sizeAge' = 0
        /\ UNCHANGED cacheVars
     \/ /\ ~SizeFresh /\ Spot
        /\ \E o \in Obj, f \in Answers : /\ Free(o)
                                        /\ cached' = o
                                        /\ Heap([objs EXCEPT ![o] = f])
                                        /\ curSize' = f.cap
        /\ sizeAge' = 0

InstAfterSize == instValid /\ curSize' = curSize

\* A getCurSize call that fails: the VMSS is not in the cache, or a Spot
\* scale set's GET failed.
GetVMSSFailed(notFound) ==
  /\ SizeMutexFree
  /\ \/ cached = NoObj /\ notFound
     \/ /\ cached # NoObj /\ ~SizeFresh /\ Spot
        /\ notFound => ~vmss.live
  /\ UNCHANGED <<sizeVars, cacheVars>>

\* TargetSize, and any IncreaseSize or DeleteNodes that is refused after
\* having looked at the size.
TargetSize(t) ==
  /\ pc[t] = "idle"
  /\ UNCHANGED <<vmss, mgrAge, pc, mainVars, job>>
  /\ getCurSize
  /\ instValid' = InstAfterSize

DecreaseTargetSize ==
  /\ pc[Main] = "idle"
  /\ UNCHANGED <<vmss, mgrAge, pc, mainVars, job>>
  /\ instValid' = FALSE
  /\ getCurSize \/ \E nf \in BOOLEAN : GetVMSSFailed(nf)

\* Nodes() returns with or without an error and leaves inst in instValid: the
\* list was still valid, was rebuilt or was throttled and postponed; or
\* listing the VMs failed.  A VMSS that is gone has no nodes.
NodesReturns(ok, inst) ==
  \/ ok /\ getCurSize /\ inst = TRUE
  \/ ok /\ GetVMSSFailed(TRUE) /\ inst = instValid
  \/ ~ok /\ getCurSize /\ inst = InstAfterSize
  \/ ~ok /\ GetVMSSFailed(FALSE) /\ inst = instValid

Nodes == /\ pc[Main] = "idle"
         /\ UNCHANGED <<vmss, mgrAge, pc, mainVars, job>>
         /\ \E ok, inst \in BOOLEAN : /\ NodesReturns(ok, inst)
                                      /\ instValid' = inst

-----------------------------------------------------------------------------
(* Invalidation.  Both timestamps are moved back by the refresh interval,  *)
(* whatever the period that is compared with them.                         *)

\* Mutant: lastSizeRefresh is set to now.
invalidateLastSizeRefreshNow == sizeAge' = 0

invalidateLastSizeRefresh == sizeAge' = RefreshInterval

invalidateCache == mgrAge' = RefreshInterval

\* Mutant: invalidateLastSizeRefreshWithLock, under the mutex already held.
invalidateForPreconditionFailureRelock ==
  /\ SizeMutexFree
  /\ instValid' = FALSE /\ invalidateLastSizeRefresh /\ invalidateCache

invalidateForPreconditionFailure ==
  instValid' = FALSE /\ invalidateLastSizeRefresh /\ invalidateCache

-----------------------------------------------------------------------------
(* IncreaseSize ("plain") and AtomicIncreaseSize ("atomic").               *)

NoCall == [kind |-> "none", target |-> 0, prev |-> 0, poller |-> 0, from |-> 0]
NoHeld == [obj |-> NoObj, eff |-> NoObj]

At(t, l) == pc[t] = l
Goto(t, l) == pc' = [pc EXCEPT ![t] = l]

\* Main's call returns.
Return == /\ Goto(Main, "idle")
          /\ call' = NoCall
          /\ held' = NoHeld

\* Mutant: the size before the increase is compared with the maximum.
canIncreaseSizeOld(delta) == curSize' # -1 /\ curSize' <= MaxSize

canIncreaseSize(delta) == curSize' # -1 /\ curSize' + delta <= MaxSize

BeginIncrease(kind, delta) ==
  /\ At(Main, "idle")
  /\ Cardinality(puts) < MaxPuts
  /\ UNCHANGED <<vmss, mgrAge, held, puts, job>>
  /\ getCurSize
  /\ instValid' = InstAfterSize
  /\ canIncreaseSize(delta)
  /\ call' = [NoCall EXCEPT !.kind = kind, !.target = curSize' + delta]
  /\ Goto(Main, "sized")

\* createOrUpdateInstances shows the desired size on the cached object at once.
EagerUpdate == /\ call' = [call EXCEPT !.prev = objs[cached].cap]
               /\ objs' = [objs EXCEPT ![cached].cap = call.target,
                                       ![cached].backed = FALSE]

\* getVMSSFromCache and, for a plain increase, the eager capacity update.
LoadVMSS ==
  /\ At(Main, "sized")
  /\ UNCHANGED <<vmss, cached, sizeVars, mgrAge, instValid, puts, job>>
  /\ \/ /\ cached = NoObj
        /\ Return
        /\ UNCHANGED objs
     \/ /\ cached # NoObj
        /\ held' = [NoHeld EXCEPT !.obj = cached]
        /\ Goto(Main, "put")
        /\ IF call.kind = "plain" THEN EagerUpdate ELSE UNCHANGED <<call, objs>>

IfMatch(o) == EnableVMSSEtag => objs[o].etag = vmss.etag

\* Azure accepts the capacity PUT that carries object o's ETag.
Accept(o) == vmss.live /\ IfMatch(o) /\ ServerWrite(call.target)

\* The client gets a poller for it; eff is the object to track from now on.
Accepted(eff) ==
  /\ Accept(eff)
  /\ call' = [call EXCEPT !.poller = vmss'.etag, !.from = vmss.cap]
  /\ held' = [held EXCEPT !.eff = eff]
  /\ Goto(Main, IF call.kind = "atomic" THEN "poll" ELSE "carry")
  /\ UNCHANGED <<cacheVars, sizeVars, mgrAge, instValid, puts, job>>

\* The client gets an error: the PUT was refused, or its answer was lost.
PutRefused(o) == UNCHANGED vmss \/ Accept(o)

\* initCreateOrUpdate has returned an error to its caller.
Failed == IF call.kind = "plain"
          THEN Goto(Main, "rollback") /\ UNCHANGED <<call, held, objs>>
          ELSE Return /\ Heap(objs)

PutAccepted == At(Main, "put") /\ Accepted(held.obj)

PutConflict == /\ At(Main, "put")
               /\ EnableVMSSEtag /\ vmss.live /\ ~IfMatch(held.obj)
               /\ Goto(Main, "retryGet")
               /\ UNCHANGED <<vmss, cacheVars, sizeVars, mgrAge, instValid,
                              mainVars, job>>

PutFails == /\ At(Main, "put")
            /\ PutRefused(held.obj)
            /\ UNCHANGED <<cached, sizeVars, mgrAge, instValid, puts, job>>
            /\ Failed

\* retryCreateOrUpdateWithFreshETag, the 412's single retry.
RetryGet ==
  /\ At(Main, "retryGet")
  /\ UNCHANGED <<vmss, cached, curSize, puts, job>>
  /\ \/ /\ vmss.live
        /\ \E o \in Obj : /\ Free(o)
                          /\ held' = [held EXCEPT !.eff = o]
                          /\ Heap([objs EXCEPT ![o] = Fetched])
        /\ Goto(Main, "retrySet")
        /\ UNCHANGED <<call, sizeAge, mgrAge, instValid>>
     \/ invalidateForPreconditionFailure /\ Failed

\* Mutant: one instance short of the target counts as the target.
RetrySetOffByOne ==
  /\ At(Main, "retrySet")
  /\ UNCHANGED <<vmss, sizeVars, mgrAge, mainVars, job>>
  /\ cached' = held.eff
  /\ Heap(objs)
  /\ instValid' = FALSE
  /\ Goto(Main, IF objs[held.eff].cap + 1 >= call.target
                THEN "carry" ELSE "retryPut")

RetrySet ==
  /\ At(Main, "retrySet")
  /\ UNCHANGED <<vmss, sizeVars, mgrAge, mainVars, job>>
  /\ cached' = held.eff
  /\ Heap(objs)
  /\ instValid' = FALSE
  /\ \/ objs[held.eff].cap >= call.target /\ Goto(Main, "carry")
     \/ objs[held.eff].cap < call.target /\ Goto(Main, "retryPut")

\* Mutant: the repeated PUT carries no If-Match.
RetryPutUnconditional ==
  /\ At(Main, "retryPut")
  /\ vmss.live /\ ServerWrite(call.target)
  /\ call' = [call EXCEPT !.poller = vmss'.etag, !.from = vmss.cap]
  /\ Goto(Main, IF call.kind = "atomic" THEN "poll" ELSE "carry")
  /\ UNCHANGED <<cacheVars, sizeVars, mgrAge, instValid, held, puts, job>>

RetryPutAccepted == At(Main, "retryPut") /\ Accepted(held.eff)

RetryPutFails ==
  /\ At(Main, "retryPut")
  /\ PutRefused(held.eff)
  /\ UNCHANGED <<cached, curSize, puts, job>>
  /\ invalidateForPreconditionFailure
  /\ Failed

\* Mutant: the error is returned without undoing the eager update.
RollbackForgotten ==
  /\ At(Main, "rollback")
  /\ UNCHANGED <<vmss, cached, sizeVars, mgrAge, instValid, puts, job>>
  /\ Return
  /\ Heap(objs)

\* createOrUpdateInstances: undo the eager update of vmssInfo.
Rollback ==
  /\ At(Main, "rollback")
  /\ UNCHANGED <<vmss, cached, sizeVars, mgrAge, instValid, puts, job>>
  /\ Return
  /\ Heap([objs EXCEPT ![held.obj].cap = call.prev, ![held.obj].backed = TRUE])

\* Carry the capacity that Azure accepted onto the tracked object.
Carry ==
  /\ At(Main, "carry")
  /\ Goto(Main, "publish")
  /\ objs' = IF call.poller # 0
             THEN [objs EXCEPT ![held.eff].cap = call.target,
                               ![held.eff].backed = TRUE]
             ELSE objs
  /\ UNCHANGED <<vmss, cached, sizeVars, mgrAge, instValid, mainVars, job>>

\* Publish the new size and leave a waitForCreateOrUpdateInstances behind.
PublishedSize == IF call.poller # 0 THEN call.target ELSE objs[held.eff].cap

Publish ==
  /\ At(Main, "publish")
  /\ curSize' = PublishedSize
  /\ sizeAge' = 0
  /\ puts' = IF call.poller # 0
             THEN puts \cup {[obj |-> held.eff, etag |-> call.poller,
                              from |-> call.from]}
             ELSE puts
  /\ Return
  /\ UNCHANGED <<vmss, cached, mgrAge, instValid, job>>
  /\ Heap(objs)

\* The ETag a finished PUT of that version reports: none, its own, or that of
\* the VMSS as it is by now.
RespEtag(version) == {0, version, vmss.etag}

\* AtomicIncreaseSize: PollUntilDone succeeds, or fails.
PollDone ==
  /\ At(Main, "poll")
  /\ UNCHANGED <<vmss, cached, mgrAge, puts, job>>
  /\ instValid' = FALSE
  /\ curSize' = call.target
  /\ sizeAge' = 0
  /\ Return
  /\ \E e \in RespEtag(call.poller) :
       Heap([objs EXCEPT
               ![held.eff] = [cap |-> call.target, backed |-> TRUE,
                              etag |-> IF EnableVMSSEtag /\ e # 0
                                       THEN e ELSE @.etag]])

PollFails ==
  /\ At(Main, "poll")
  /\ FailUpdate(call.from, call.poller)
  /\ UNCHANGED <<cached, curSize, puts, job>>
  /\ instValid' = FALSE
  /\ invalidateLastSizeRefresh
  /\ invalidateCache
  /\ Return
  /\ Heap(objs)

-----------------------------------------------------------------------------
(* waitForCreateOrUpdateInstances, for the plain increase p.               *)

WaiterDone(p) ==
  /\ UNCHANGED <<vmss, cached, curSize, pc, call, held, job>>
  /\ puts' = puts \ {p}
  /\ instValid' = FALSE
  /\ \/ ~EnableVMSSEtag /\ UNCHANGED <<sizeAge, mgrAge>> /\ Heap(objs)
     \/ /\ EnableVMSSEtag
        /\ \E e \in RespEtag(p.etag) \ {0} :
             Heap([objs EXCEPT ![p.obj].etag = e])
        /\ UNCHANGED <<sizeAge, mgrAge>>
     \/ /\ EnableVMSSEtag
        /\ SizeMutexFree
        /\ invalidateLastSizeRefresh
        /\ invalidateCache
        /\ Heap(objs)

WaiterFails(p) ==
  /\ SizeMutexFree
  /\ FailUpdate(p.from, p.etag)
  /\ UNCHANGED <<cached, curSize, pc, call, held, job>>
  /\ puts' = puts \ {p}
  /\ instValid' = FALSE
  /\ invalidateLastSizeRefresh
  /\ invalidateCache
  /\ Heap(objs)

Waiter == \E p \in puts : WaiterDone(p) \/ WaiterFails(p)

-----------------------------------------------------------------------------
(* The refresh of the whole cache, by Main or by a deletion's waiter.      *)

Refresh == /\ At(Main, "idle")
           /\ mgrAge >= RefreshInterval
           /\ Goto(Main, "fetch")
           /\ UNCHANGED <<vmss, cacheVars, sizeVars, mgrAge, instValid,
                          mainVars, job>>

NoJob == [n |-> 0, gone |-> 0, etag |-> 0, ok |-> FALSE]

\* Thread t's forceRefresh returns; a deletion's waiter is then done.  It
\* invalidates the manager's cache again if the refresh failed, and after a
\* successful deletion the instance cache.
ForceRefreshReturns(t, err, inst) ==
  /\ Goto(t, "idle")
  /\ instValid' = IF t # Main /\ job[t].ok THEN FALSE ELSE inst
  /\ IF err THEN IF t = Main THEN UNCHANGED mgrAge ELSE invalidateCache
            ELSE mgrAge' = 0
  /\ job' = IF t = Main THEN job ELSE [job EXCEPT ![t] = NoJob]

\* Mutant: only a scale set that is not in the cache yet is put there.
ReplaceScaleSetsOnce ==
  /\ vmss.live
  /\ IF cached # NoObj THEN UNCHANGED cacheVars
     ELSE \E o \in Obj : /\ Free(o)
                         /\ cached' = o
                         /\ Heap([objs EXCEPT ![o] = Fetched])

\* The list of scale sets is replaced by a fresh one.
ReplaceScaleSets ==
  \/ /\ vmss.live
     /\ \E o \in Obj : /\ Free(o)
                       /\ cached' = o
                       /\ Heap([objs EXCEPT ![o] = Fetched])
  \/ ~vmss.live /\ cached' = NoObj /\ Heap(objs)

FetchOK(t) == /\ At(t, "fetch")
              /\ UNCHANGED <<vmss, sizeVars, mgrAge, instValid, mainVars, job>>
              /\ ReplaceScaleSets
              /\ Goto(t, "regen")

\* Listing the scale sets fails, or listing the VMs after that.
FetchFails(t) ==
  /\ At(t, "fetch")
  /\ UNCHANGED <<vmss, sizeVars, mainVars>>
  /\ ForceRefreshReturns(t, TRUE, instValid)
  /\ ReplaceScaleSets \/ UNCHANGED cacheVars

Regenerate(t) ==
  /\ At(t, "regen")
  /\ UNCHANGED <<vmss, mainVars>>
  /\ \E ok, inst \in BOOLEAN : /\ NodesReturns(ok, inst)
                               /\ ForceRefreshReturns(t, ~ok, inst)

-----------------------------------------------------------------------------
(* Deleting instances.                                                     *)

Ask(d, n) ==
  /\ job' = [job EXCEPT ![d] = [NoJob EXCEPT !.n = n]]
  /\ Goto(d, "delete")

DeleteNodes(d, n) ==
  /\ At(d, "idle")
  /\ UNCHANGED <<vmss, mgrAge, mainVars>>
  /\ getCurSize
  /\ instValid' = InstAfterSize
  /\ curSize' # -1 /\ curSize' > MinSize
  /\ Ask(d, n)

ForceDeleteNodes(d, n) ==
  /\ At(d, "idle")
  /\ Ask(d, n)
  /\ UNCHANGED <<vmss, cacheVars, sizeVars, mgrAge, instValid, mainVars>>

\* Azure accepts the deletion of n instances, k of which still exist.
Remove(k) == IF k = 0 THEN UNCHANGED vmss ELSE ServerWrite(vmss.cap - k)

BeginDelete(d) ==
  /\ vmss.live
  /\ \E k \in 0..job[d].n :
       /\ k <= vmss.cap
       /\ Remove(k)
       /\ job' = [job EXCEPT ![d].gone = k, ![d].etag = vmss'.etag]

DeleteAccepted(d) ==
  /\ At(d, "delete")
  /\ BeginDelete(d)
  /\ Goto(d, "mark")
  /\ UNCHANGED <<cacheVars, sizeVars, mgrAge, instValid, mainVars>>

\* Refused, or accepted and the answer lost.
DeleteRefused(d) ==
  /\ At(d, "delete")
  /\ \/ UNCHANGED vmss
     \/ vmss.live /\ \E k \in 1..job[d].n : k <= vmss.cap /\ Remove(k)
  /\ Goto(d, "idle")
  /\ job' = [job EXCEPT ![d] = NoJob]
  /\ UNCHANGED <<cacheVars, sizeVars, mgrAge, instValid, mainVars>>

\* Mutant: the size of the batch is not compared with curSize.
DecrementUnchecked(n) == curSize' = curSize - n /\ sizeAge' = 0

\* The proactive decrement of curSize by the size of the batch.
Decrement(n) ==
  IF curSize < n THEN sizeAge' = MaxAge /\ UNCHANGED curSize
                 ELSE curSize' = curSize - n /\ sizeAge' = 0

\* unreg: the batch holds nodes that never registered (hasUnregisteredNodes).
MarkDeleted(d, unreg) ==
  /\ At(d, "mark")
  /\ Goto(d, "wait")
  /\ IF StrictCacheUpdates \/ unreg
     THEN UNCHANGED sizeVars
     ELSE SizeMutexFree /\ Decrement(job[d].n)
  /\ UNCHANGED <<vmss, cacheVars, mgrAge, instValid, mainVars, job>>

\* waitForDeleteInstances: the poller reports success.
DeleteDone(d) ==
  /\ At(d, "wait")
  /\ IF StrictCacheUpdates
     THEN Goto(d, "fetch") /\ job' = [job EXCEPT ![d].ok = TRUE]
     ELSE Goto(d, "idle") /\ job' = [job EXCEPT ![d] = NoJob]
  /\ UNCHANGED <<vmss, cacheVars, sizeVars, mgrAge, instValid, mainVars>>

\* OperationPreempted: another write to the VMSS superseded the deletion.
Preempted(d) ==
  /\ At(d, "wait")
  /\ vmss.etag # job[d].etag
  /\ Goto(d, "retry")
  /\ UNCHANGED <<vmss, cacheVars, sizeVars, mgrAge, instValid, mainVars, job>>

RetryDelete(d) ==
  /\ At(d, "retry")
  /\ BeginDelete(d)
  /\ Goto(d, "rewait")
  /\ UNCHANGED <<cacheVars, sizeVars, mgrAge, instValid, mainVars>>

RetryDeleteDone(d) ==
  /\ At(d, "rewait")
  /\ Goto(d, "idle")
  /\ job' = [job EXCEPT ![d] = NoJob]
  /\ instValid' = FALSE
  /\ UNCHANGED <<vmss, cacheVars, sizeVars, mgrAge, mainVars>>

\* Azure gives up: the VMs it has not removed are still there.
DeleteFails(d) ==
  /\ pc[d] \in {"wait", "retry", "rewait"}
  /\ SizeMutexFree
  /\ \/ UNCHANGED vmss
     \/ /\ At(d, "wait") \/ At(d, "rewait")
        /\ vmss.live /\ vmss.etag = job[d].etag
        /\ \E c \in vmss.cap + 1 .. vmss.cap + job[d].gone : ServerWrite(c)
  /\ instValid' = FALSE
  /\ invalidateLastSizeRefresh
  /\ Goto(d, "fetch")
  /\ UNCHANGED <<cacheVars, curSize, mgrAge, mainVars, job>>

Deleter(d) ==
  \/ TargetSize(d)
  \/ \E n \in 1..MaxBatch :
        DeleteNodes(d, n) \/ ForceDeleteNodes(d, n)
  \/ DeleteAccepted(d) \/ DeleteRefused(d)
  \/ \E unreg \in BOOLEAN : MarkDeleted(d, unreg)
  \/ DeleteDone(d) \/ Preempted(d) \/ RetryDelete(d) \/ RetryDeleteDone(d)
  \/ DeleteFails(d)
  \/ FetchOK(d) \/ FetchFails(d) \/ Regenerate(d)

-----------------------------------------------------------------------------
IncreaseStep ==
  \/ \E delta \in Deltas, kind \in {"plain", "atomic"} :
        BeginIncrease(kind, delta)
  \/ LoadVMSS
  \/ PutAccepted \/ PutConflict \/ PutFails
  \/ RetryGet \/ RetrySet \/ RetryPutAccepted \/ RetryPutFails
  \/ Rollback \/ Carry \/ Publish \/ PollDone \/ PollFails

MainStep ==
  \/ TargetSize(Main) \/ DecreaseTargetSize \/ Nodes
  \/ Refresh \/ FetchOK(Main) \/ FetchFails(Main) \/ Regenerate(Main)
  \/ IncreaseStep

Environment == Tick \/ OtherWriter \/ VMSSRemoved

\* Right after the first refresh: curSize is still the -1 it was created
\* with, or an already observed capacity whose timestamp was never set.
Init ==
  /\ vmss \in [live : {TRUE}, cap : MinSize..MaxSize, etag : {1}]
  /\ \E o \in Obj : /\ \A x \in Obj : o <= x
                    /\ cached = o
                    /\ objs = [x \in Obj |-> IF x = o THEN Fetched ELSE Blank]
  /\ curSize \in {-1, vmss.cap}
  /\ sizeAge = MaxAge
  /\ mgrAge = 0
  /\ instValid = FALSE
  /\ pc = [t \in Thread |-> "idle"]
  /\ call = NoCall
  /\ held = NoHeld
  /\ puts = {}
  /\ job = [d \in Deleters |-> NoJob]

Next == MainStep \/ Waiter \/ (\E d \in Deleters : Deleter(d)) \/ Environment

Spec == Init /\ [][Next]_vars
RefreshSucceeds == Regenerate(Main) /\ mgrAge' = 0

\* The same program on a quiet day: nobody else writes the VMSS, it does not
\* grow, no call fails or is lost, and registered nodes are deleted one by
\* one and never by force.
QuietNext ==
  \/ Tick
  \/ TargetSize(Main) \/ Refresh \/ FetchOK(Main) \/ RefreshSucceeds
  \/ \E d \in Deleters :
        \/ DeleteNodes(d, 1)
        \/ DeleteAccepted(d) /\ vmss'.cap = vmss.cap - 1
        \/ MarkDeleted(d, FALSE)
        \/ DeleteDone(d)

QuietSpec == Init /\ [][QuietNext]_vars

-----------------------------------------------------------------------------
(* Fairness.  The autoscaler's loop goes round for ever: it finishes the   *)
(* calls it makes (every one has a deadline), refreshes and reads the size *)
(* in each iteration; time passes; and the API answers a list now and then.*)

Fairness == /\ WF_vars(MainStep /\ ~At(Main, "idle"))
            /\ WF_vars(Tick /\ <<sizeAge, mgrAge>>' # <<sizeAge, mgrAge>>)
            /\ SF_vars(Refresh)
            /\ SF_vars(TargetSize(Main))
            /\ SF_vars(FetchOK(Main))
            /\ SF_vars(RefreshSucceeds)

FairSpec == Spec /\ Fairness

-----------------------------------------------------------------------------
(* Properties.                                                             *)

Label == {"idle", "sized", "put", "retryGet", "retrySet", "retryPut", "carry",
          "publish", "poll", "rollback", "fetch", "regen", "delete", "mark",
          "wait", "retry", "rewait"}
VmssType == [live : BOOLEAN, cap : Nat, etag : Nat]
ObjType  == [cap : Nat, etag : Nat, backed : BOOLEAN]
CallType == [kind : {"none", "plain", "atomic"}, target : Nat, prev : Nat,
             poller : Nat, from : Nat]
HeldType == [obj : Obj \cup {NoObj}, eff : Obj \cup {NoObj}]
PutType  == [obj : Obj, etag : Nat, from : Nat]
JobType  == [n : Nat, gone : Nat, etag : Nat, ok : BOOLEAN]

\* Main's pointers are valid wherever the code dereferences them.
PointersOK ==
  /\ pc[Main] \in {"put", "retryGet", "retrySet", "retryPut", "rollback"}
       => held.obj # NoObj
  /\ pc[Main] \in {"retrySet", "retryPut", "carry", "publish", "poll"}
       => held.eff # NoObj

\* Every variable keeps its type (sizes are natural numbers, but for the -1 of
\* a scale set whose size was never read), and no nil pointer is dereferenced.
TypeOK ==
  /\ vmss \in VmssType
  /\ objs \in [Obj -> ObjType]
  /\ cached \in Obj \cup {NoObj}
  /\ curSize \in Nat \cup {-1}
  /\ sizeAge \in 0..MaxAge
  /\ mgrAge \in 0..MaxAge
  /\ instValid \in BOOLEAN
  /\ pc \in [Thread -> Label]
  /\ call \in CallType
  /\ held \in HeldType
  /\ puts \subseteq PutType
  /\ job \in [Deleters -> JobType]
  /\ PointersOK

\* No mixture of stale sizes, concurrent deletions and retries makes Azure
\* hold more instances than the node group's maximum (canIncreaseSize).
CapacityWithinMax == vmss.cap <= MaxSize

\* A size that getCurSize would return without refreshing is never negative,
\* however many batches are decremented from a stale curSize, and whatever
\* happens before the -1 of a new scale set has been replaced.
SizeNeverNegative == SizeFresh => curSize >= 0

\* A desired size that Azure did not accept is never left on the cached VMSS:
\* an unbacked capacity is only seen while the plain increase that wrote it
\* is still running (createOrUpdateInstances rolls it back on every error).
NoRejectedSizeLeft ==
  cached # NoObj /\ ~objs[cached].backed
    => cached = held.obj /\ call.kind = "plain"

\* An increase only reports success once Azure accepted its PUT or was read
\* at or above the target, and then publishes at least its target.
SuccessIsEarned ==
  pc[Main] \in {"carry", "publish", "poll"}
    => /\ call.poller # 0 \/ objs[held.eff].backed
       /\ PublishedSize >= call.target

\* The PUT repeated after a 412 never lowers the capacity Azure holds, though
\* other writers keep changing it between the fresh GET and that PUT.
RetryNeverShrinks ==
  [][At(Main, "retryPut") /\ pc'[Main] # "retryPut" => vmss'.cap >= vmss.cap]_vars

\* curSize agrees with Azure again and again (for good once Azure stops
\* changing), whatever failed, was lost or was overwritten before, and whatever
\* other goroutines still wait for, unless deletions are accepted for ever, each
\* of which takes its batch off the size once more.
SizeConverges == []<>(\/ curSize = vmss.cap \/ ~vmss.live
                      \/ \E d \in Deleters : At(d, "mark"))

\* Every call of the autoscaler's loop returns.
CallsReturn == ~At(Main, "idle") ~> At(Main, "idle")

\* "so concurrent modifications are rejected with 412 instead of overwritten"
\* (EnableVMSSEtag): a capacity PUT never lowers the capacity that another
\* writer gave the VMSS.
ConcurrentModificationsKept ==
  [][At(Main, "put") /\ pc'[Main] # "put" => vmss'.cap >= vmss.cap]_vars

\* "so that we don't go below minimum node count if cache data is stale":
\* even where nothing else interferes (QuietSpec), the deletions that
\* DeleteNodes lets through do not take the VMSS below its minimum.
MinimumKept == vmss.cap >= MinSize

=============================================================================
