---------------------------- MODULE VMPoolProofs ----------------------------
(***************************************************************************)
(* Proofs about VMPool, for any set of SKUs, VMs, goroutines that delete   *)
(* them and goroutines that refresh the cache: the type invariant, that no *)
(* count exceeds the maximum, and where a count that is sent comes from.   *)
(***************************************************************************)
EXTENDS VMPool, FiniteSetTheorems, TLAPS

State == {"none", "up", "failed", "deleting"}
CountsType == UNION {[S -> Nat] : S \in SUBSET SKU}

-----------------------------------------------------------------------------
(* Types.                                                                  *)

\* Sets of VMs have a size.
LEMMA Countable ==
  ASSUME NEW S \in SUBSET VM PROVE Cardinality(S) \in Nat
BY SkusAssumption, FS_Subset, FS_CardinalityType

\* So have the pools, whichever way they are counted.
LEMMA CurSizeType ==
  ASSUME NEW s, NEW skip PROVE getCurSize(s, skip) \in Nat
<1>1. getVMsFromCache(s, skip) \in SUBSET VM
      /\ {v \in VMsOf(s) : vm[v] = "up"} \in SUBSET VM
  BY DEF getVMsFromCache, VMsOf
<1> QED
  BY <1>1, Countable DEF getCurSize, getSpotPoolSize

\* No call carries counts of the right kind: none.
LEMMA NoCallType ==
  NoCall \in [sku : SKU \cup {"none"}, n : Nat, counts : CountsType]
<1>1. NoCounts \in [{} -> Nat] /\ {} \in SUBSET SKU
  BY DEF NoCounts
<1> QED
  BY <1>1 DEF NoCall, CountsType

\* The steps of a refresh keep the types.
LEMMA TypeRefresh ==
  ASSUME TypeOK, NEW t \in Refresher, RefreshStep(t) PROVE TypeOK'
<1> USE DEF azureVars, cacheVars, poolVars, indexVars
<1>0. t \in Thread
  BY DEF Thread
<1>1. CASE RefreshVMs(t)
  BY <1>0, <1>1 DEF RefreshVMs, Goto, TypeOK
<1>2. CASE RefreshPools(t)
  <2>1. profile' \in [Profiled -> Nat]
    BY <1>2, SkusAssumption DEF RefreshPools, TypeOK
  <2>2. asked' \in [SKU -> SUBSET Nat]
    <3>1. \A s \in SKU : {count[s]} \cup asked[s] \in SUBSET Nat
                         /\ {count[s]} \in SUBSET Nat
      BY DEF TypeOK
    <3> QED
      BY <1>2, <3>1 DEF RefreshPools, Known
  <2> QED
    BY <1>0, <1>2, <2>1, <2>2 DEF RefreshPools, Goto, TypeOK
<1>3. CASE ReadNodes(t)
  <2>1. Nodes \in [VM -> {"none", "running", "deleting"}]
    BY DEF Nodes
  <2> QED
    BY <1>0, <1>3, <2>1 DEF ReadNodes, Goto, TypeOK
<1>4. CASE RefreshFails(t)
  BY <1>0, <1>4 DEF RefreshFails, invalidateCache, Goto, TypeOK
<1>5. CASE Publish(t)
  <2>1. NoNodes \in [VM -> {"none", "running", "deleting"}]
    BY DEF NoNodes
  <2>2. index' \subseteq VM /\ deleting' \subseteq index'
    BY <1>5 DEF Publish
  <2> QED
    BY <1>0, <1>5, <2>1, <2>2 DEF Publish, Goto, TypeOK
<1>6. CASE Stamp(t)
  BY <1>0, <1>6 DEF Stamp, Goto, TypeOK
<1> QED
  BY <1>1, <1>2, <1>3, <1>4, <1>5, <1>6 DEF RefreshStep

\* What BuildRequest makes of the cached profile and of the call.
LEMMA RequestMade ==
  ASSUME TypeOK, BuildRequest, call.sku \in SKU
  PROVE  /\ profile' \in {profile, [profile EXCEPT ![call.sku] = call.n]}
         /\ call' = [call EXCEPT !.counts = call'.counts]
         /\ call'.counts \in {profile', [s \in {call.sku} |-> call.n],
                              call.counts}
         /\ profile' \in [Profiled -> Nat]
         /\ call'.counts \in CountsType
<1>1. profile' \in [Profiled -> Nat]
  BY SkusAssumption DEF BuildRequest, buildRequestBodyForScaleUp, TypeOK
<1>2. profile' \in CountsType
  BY <1>1, SkusAssumption DEF CountsType
<1>3. [s \in {call.sku} |-> call.n] \in [{call.sku} -> Nat]
      /\ {call.sku} \in SUBSET SKU
  BY DEF TypeOK
<1>4. [s \in {call.sku} |-> call.n] \in CountsType
  BY <1>3 DEF CountsType
<1>5. call.counts \in CountsType
      /\ call \in [sku : SKU \cup {"none"}, n : Nat, counts : CountsType]
  BY DEF TypeOK, CountsType
<1>6. \/ profile' = [profile EXCEPT ![call.sku] = call.n]
         /\ call' = [call EXCEPT !.counts = profile']
      \/ UNCHANGED <<profile, call>>
      \/ /\ call' = [call EXCEPT !.counts = [s \in {call.sku} |-> call.n]]
         /\ UNCHANGED profile
  BY DEF BuildRequest, buildRequestBodyForScaleUp
<1>7. /\ profile' \in {profile, [profile EXCEPT ![call.sku] = call.n]}
      /\ call' = [call EXCEPT !.counts = call'.counts]
      /\ call'.counts \in {profile', [s \in {call.sku} |-> call.n], call.counts}
  BY <1>5, <1>6
<1> QED
  BY <1>1, <1>2, <1>4, <1>5, <1>7

\* An increase under way is of a SKU of the pool, and a request has been made
\* only where the thread has come that far.
CallOK == /\ pc[Main] \in {"sized", "put", "poll"} => call.sku \in SKU
          /\ pc[Main] \notin {"sized", "put", "poll"} => call = NoCall

\* The loop's steps keep the types.
LEMMA TypeMain ==
  ASSUME TypeOK, CallOK, MainStep PROVE TypeOK'
<1> USE DEF azureVars, cacheVars, poolVars, indexVars
<1>0. Main \in Thread /\ Main \in Refresher
  BY DEF Thread, Refresher
<1>1. CASE DecreaseTargetSize
  BY <1>1 DEF DecreaseTargetSize, invalidateCache, TypeOK
<1>2. ASSUME NEW s \in SKU, NEW delta \in Deltas, IncreaseSize(s, delta)
      PROVE  TypeOK'
  <2>1. getCurSize(s, {"deleting", "failed"}) + delta \in Nat
    BY CurSizeType, SizesAssumption
  <2>2. call' \in [sku : SKU \cup {"none"}, n : Nat, counts : CountsType]
    BY <1>2, <2>1, NoCallType DEF IncreaseSize
  <2> QED
    BY <1>0, <1>2, <2>2 DEF IncreaseSize, Goto, TypeOK, CountsType
<1>3. CASE BuildRequest
  <2>1. call.sku \in SKU
    BY <1>3 DEF CallOK, BuildRequest, At
  <2>2. asked' \in [SKU -> SUBSET Nat]
    BY <1>3, <2>1 DEF BuildRequest, TypeOK
  <2>3. call' \in [sku : SKU \cup {"none"}, n : Nat, counts : CountsType]
    BY <1>3, <2>1, RequestMade DEF TypeOK
  <2> QED
    BY <1>0, <1>3, <2>1, <2>2, <2>3, RequestMade
    DEF BuildRequest, Goto, TypeOK, CountsType
<1>4. CASE PutAccepted
  <2>1. PICK S \in SUBSET SKU : call.counts \in [S -> Nat]
    BY DEF TypeOK
  <2>2. count' \in [SKU -> Nat]
    BY <1>4, <2>1 DEF PutAccepted, TypeOK
  <2> QED
    BY <1>0, <1>4, <2>2 DEF PutAccepted, Goto, TypeOK
<1>5. CASE IncreaseReturns
  BY <1>0, <1>5, NoCallType
  DEF IncreaseReturns, invalidateCache, Goto, TypeOK, CountsType
<1> QED
  BY <1>0, <1>1, <1>2, <1>3, <1>4, <1>5, TypeRefresh DEF MainStep

\* A deleter's steps keep the types.
LEMMA TypeDeleter ==
  ASSUME TypeOK, NEW d \in Deleters, DeleterStep(d) PROVE TypeOK'
<1> USE DEF azureVars, cacheVars, poolVars, indexVars
<1>0. d \in Thread
  BY DEF Thread
<1>1. ASSUME NEW s \in SKU, NEW vms \in SUBSET VM, DeleteNodes(d, s, vms)
      PROVE  TypeOK'
  BY <1>0, <1>1 DEF DeleteNodes, Goto, TypeOK
<1>2. CASE Mark(d)
  BY <1>0, <1>2 DEF Mark, Goto, TypeOK
<1>3. CASE DeleteAccepted(d)
  <2> DEFINE gone == {v \in batch[d] : vm[v] \in {"up", "failed"}}
             Left(s) == count[s] - Cardinality(gone \cap VMsOf(s))
  <2>1. ASSUME NEW s \in SKU
        PROVE  (IF Left(s) < 0 THEN 0 ELSE Left(s)) \in Nat
    <3>1. gone \cap VMsOf(s) \in SUBSET VM
      BY DEF VMsOf
    <3>2. Cardinality(gone \cap VMsOf(s)) \in Nat
      BY <3>1, Countable
    <3> HIDE DEF gone
    <3> QED
      BY <3>2 DEF TypeOK
  <2>2. count' = [s \in SKU |-> IF Left(s) < 0 THEN 0 ELSE Left(s)]
    BY <1>3 DEF DeleteAccepted
  <2> HIDE DEF Left
  <2>3. count' \in [SKU -> Nat]
    BY <2>1, <2>2
  <2>4. vm' \in [VM -> State]
    BY <1>3 DEF DeleteAccepted, TypeOK, State
  <2> QED
    BY <1>0, <1>3, <2>3, <2>4 DEF DeleteAccepted, Goto, TypeOK, State
<1>4. CASE DeleteReturns(d)
  BY <1>0, <1>4 DEF DeleteReturns, invalidateCache, Goto, TypeOK
<1> QED
  BY <1>1, <1>2, <1>3, <1>4 DEF DeleterStep

\* A call belongs to the thread that makes it: no other thread's step changes
\* it, nor where Main is.
LEMMA OthersLeaveCall ==
  ASSUME TypeOK, NEW t \in Waiters \cup Deleters,
         (t \in Waiters /\ RefreshStep(t)) \/ (t \in Deleters /\ DeleterStep(t))
  PROVE  call' = call /\ pc'[Main] = pc[Main]
<1>0. t # Main /\ t \in Thread /\ Main \in Thread
  BY ThreadsAssumption DEF Thread, Refresher
<1>1. CASE t \in Waiters /\ RefreshStep(t)
  BY <1>0, <1>1 DEF RefreshStep, RefreshVMs, RefreshPools, ReadNodes,
     RefreshFails, Publish, Stamp, Goto, TypeOK
<1>2. CASE t \in Deleters /\ DeleterStep(t)
  BY <1>0, <1>2 DEF DeleterStep, DeleteNodes, Mark, DeleteAccepted,
     DeleteReturns, Goto, TypeOK
<1> QED
  BY <1>1, <1>2

\* CallOK is kept.
LEMMA CallStep ==
  ASSUME TypeOK, CallOK, [Next]_vars PROVE CallOK'
<1>0. Main \in Thread
  BY DEF Thread, Refresher
<1>1. CASE RefreshStep(Main)
  BY <1>0, <1>1 DEF RefreshStep, RefreshVMs, RefreshPools, ReadNodes,
     RefreshFails, Publish, Stamp, Goto, At, CallOK, TypeOK
<1>2. CASE DecreaseTargetSize
  BY <1>2 DEF DecreaseTargetSize, CallOK
<1>3. ASSUME NEW s \in SKU, NEW delta \in Deltas, IncreaseSize(s, delta)
      PROVE  CallOK'
  BY <1>0, <1>3 DEF IncreaseSize, NoCall, Goto, CallOK, TypeOK
<1>4. CASE BuildRequest
  <2>1. call.sku \in SKU /\ call'.sku = call.sku
    BY <1>4, RequestMade DEF CallOK, BuildRequest, At, TypeOK
  <2> QED
    BY <1>0, <1>4, <2>1 DEF BuildRequest, Goto, CallOK, TypeOK
<1>5. CASE PutAccepted \/ IncreaseReturns
  BY <1>0, <1>5 DEF PutAccepted, IncreaseReturns, Goto, At, CallOK, TypeOK
<1>6. CASE UNCHANGED <<call, pc>>
  BY <1>6 DEF CallOK
<1>7. CASE AzureStep \/ Tick \/ UNCHANGED vars
  BY <1>6, <1>7 DEF AzureStep, Provision, ScaleIn, Fail, Vanish, Tick, vars
<1>8. ASSUME NEW t \in Waiters \cup Deleters,
             (t \in Waiters /\ RefreshStep(t)) \/ (t \in Deleters /\ DeleterStep(t))
      PROVE  CallOK'
  BY <1>8, OthersLeaveCall DEF CallOK
<1> QED
  BY <1>1, <1>2, <1>3, <1>4, <1>5, <1>7, <1>8 DEF Next, MainStep

TypeInv == TypeOK /\ CallOK

\* Types and calls, from the start to every next state.
LEMMA TypeInvariant == Spec => []TypeInv
<1>1. ASSUME Init PROVE TypeInv
  <2>1. \A s \in SKU : Staying(s) \in SUBSET VM
    BY DEF Staying, VMsOf
  <2>2. count \in [SKU -> Nat]
    BY <1>1, <2>1, Countable DEF Init
  <2>3. profile \in [Profiled -> Nat] /\ asked \in [SKU -> SUBSET Nat]
    BY <1>1, <2>2, SkusAssumption DEF Init
  <2>4. nodes \in [Refresher -> [VM -> {"none", "running", "deleting"}]]
    BY <1>1 DEF Init, NoNodes
  <2>5. pc[Main] = "idle"
    BY <1>1 DEF Init, Thread, Refresher
  <2> QED
    BY <1>1, <2>2, <2>3, <2>4, <2>5, NoCallType
    DEF Init, TypeInv, TypeOK, CallOK, CountsType
<1>2. ASSUME TypeInv, [Next]_vars PROVE TypeInv'
  <2> USE DEF TypeInv
  <2>1. CASE UNCHANGED vars
    BY <1>2, <2>1, CallStep
    DEF TypeOK, vars, azureVars, cacheVars, poolVars, indexVars
  <2>2. CASE AzureStep
    BY <1>2, <2>2, CallStep DEF AzureStep, Provision, ScaleIn, Fail, Vanish,
       TypeOK, cacheVars, poolVars, indexVars
  <2>3. CASE Tick
    BY <1>2, <2>3, CallStep
    DEF Tick, TypeOK, azureVars, cacheVars, poolVars, indexVars
  <2>4. ASSUME NEW t \in Waiters, RefreshStep(t) PROVE TypeOK'
    BY <1>2, <2>4, TypeRefresh DEF Refresher
  <2> QED
    BY <1>2, <2>1, <2>2, <2>3, <2>4, CallStep, TypeMain, TypeDeleter DEF Next
<1> QED
  BY <1>1, <1>2, PTL DEF Spec

\* Every variable keeps its type, and azureCache.instanceStates has no entry
\* for an instance that instanceToNodeGroup has not (azure_vms_pool.go,
\* azure_cache.go), whoever refreshes.
THEOREM TypeCorrect == Spec => []TypeOK
<1>1. TypeInv => TypeOK
  BY DEF TypeInv
<1> QED
  BY <1>1, TypeInvariant, PTL

-----------------------------------------------------------------------------
(* The maximum.  IncreaseSize may send the whole cached profile, so the    *)
(* counts in the cache and in a request under way are within it as well.   *)

Within(f) == \A s \in DOMAIN f : f[s] <= MaxSize

Bounded == Within(count) /\ Within(profile) /\ Within(call.counts)
           /\ call.n <= MaxSize

\* A step keeps the counts within the maximum.
LEMMA BoundedStep ==
  ASSUME TypeInv, Bounded, [Next]_vars PROVE Bounded'
<1> USE DEF azureVars, cacheVars, poolVars, indexVars, TypeInv
<1>1. ASSUME NEW s \in SKU, NEW delta \in Deltas, IncreaseSize(s, delta)
      PROVE  Bounded'
  BY <1>1 DEF IncreaseSize, NoCall, NoCounts, Bounded, Within
<1>2. CASE BuildRequest
  <2>1. call.sku \in SKU /\ call.n \in Nat
    BY <1>2 DEF CallOK, BuildRequest, At, TypeOK
  <2>2. Within(profile')
    BY <1>2, <2>1, RequestMade DEF Bounded, Within, TypeOK
  <2>3. Within(call'.counts)
    <3>1. Within([s \in {call.sku} |-> call.n])
      BY DEF Bounded, Within
    <3> QED
      BY <1>2, <2>1, <2>2, <3>1, RequestMade DEF Bounded
  <2>4. call'.n = call.n /\ count' = count
    BY <1>2, <2>1, RequestMade DEF BuildRequest, TypeOK
  <2> QED
    BY <2>2, <2>3, <2>4 DEF Bounded, Within
<1>3. CASE PutAccepted
  <2>1. Within(count')
    BY <1>3 DEF PutAccepted, TypeOK, Bounded, Within
  <2> QED
    BY <1>3, <2>1 DEF PutAccepted, Bounded, Within
<1>4. CASE IncreaseReturns
  BY <1>4, SizesAssumption DEF IncreaseReturns, NoCall, NoCounts, Bounded, Within
<1>5. ASSUME NEW d \in Deleters, DeleteAccepted(d) PROVE Bounded'
  <2> DEFINE gone == {v \in batch[d] : vm[v] \in {"up", "failed"}}
             Left(s) == count[s] - Cardinality(gone \cap VMsOf(s))
  <2>1. ASSUME NEW s \in SKU
        PROVE  (IF Left(s) < 0 THEN 0 ELSE Left(s)) <= MaxSize
    <3>1. gone \cap VMsOf(s) \in SUBSET VM
      BY DEF VMsOf
    <3>2. Cardinality(gone \cap VMsOf(s)) \in Nat
      BY <3>1, Countable
    <3> HIDE DEF gone
    <3> QED
      BY <3>2, SizesAssumption DEF TypeOK, Bounded, Within
  <2>2. count' = [s \in SKU |-> IF Left(s) < 0 THEN 0 ELSE Left(s)]
    BY <1>5 DEF DeleteAccepted
  <2> HIDE DEF Left
  <2>3. Within(count')
    BY <2>1, <2>2 DEF Within
  <2> QED
    BY <1>5, <2>3 DEF DeleteAccepted, Bounded, Within
<1>6. ASSUME NEW t \in Refresher, RefreshPools(t) PROVE Bounded'
  BY <1>6, SkusAssumption DEF RefreshPools, TypeOK, Bounded, Within
<1>7. CASE UNCHANGED <<count, profile, call>>
  BY <1>7 DEF Bounded, Within
<1>8. CASE DecreaseTargetSize \/ AzureStep \/ Tick \/ UNCHANGED vars
  BY <1>7, <1>8 DEF DecreaseTargetSize, AzureStep, Provision, ScaleIn, Fail,
     Vanish, Tick, vars
<1>9. ASSUME NEW t \in Refresher,
             RefreshVMs(t) \/ ReadNodes(t) \/ RefreshFails(t) \/ Publish(t)
             \/ Stamp(t)
      PROVE  Bounded'
  BY <1>7, <1>9 DEF RefreshVMs, ReadNodes, RefreshFails, Publish, Stamp
<1>10. ASSUME NEW d \in Deleters,
              \/ \E s \in SKU, vms \in SUBSET VM : DeleteNodes(d, s, vms)
              \/ Mark(d) \/ DeleteReturns(d)
       PROVE  Bounded'
  BY <1>7, <1>10 DEF DeleteNodes, Mark, DeleteReturns
<1>11. ASSUME NEW t \in Refresher, RefreshStep(t) PROVE Bounded'
  BY <1>6, <1>9, <1>11 DEF RefreshStep
<1> QED
  BY <1>1, <1>2, <1>3, <1>4, <1>5, <1>8, <1>10, <1>11
  DEF Next, MainStep, DeleterStep, Refresher

\* However stale the list and the profile that buildRequestBodyForScaleUp sends
\* back whole, however many deletions and refreshes overlap it and whatever Azure
\* refused before, no SKU's count exceeds the maximum of its VMPool.
THEOREM MaximumRespected == Spec => []CountWithinMax
<1>1. ASSUME Init PROVE Bounded
  <2>1. DOMAIN count = SKU /\ \A s \in SKU : count[s] <= MaxSize
    BY <1>1 DEF Init
  <2>2. Within(count) /\ Within(profile)
    BY <1>1, <2>1, SkusAssumption DEF Init, Within
  <2> QED
    BY <1>1, <2>2, SizesAssumption DEF Init, Bounded, Within, NoCall, NoCounts
<1>2. TypeInv /\ Bounded => CountWithinMax
  BY DEF Bounded, Within, CountWithinMax, TypeInv, TypeOK
<1> QED
  BY <1>1, <1>2, BoundedStep, TypeInvariant, PTL DEF Spec

-----------------------------------------------------------------------------
(* Where the counts that are sent come from.  Main itself cannot fetch     *)
(* between making a request and sending it, and another thread's fetch     *)
(* forgets nothing that Main may still send.                               *)

Explained(f) == \A s \in DOMAIN f : f[s] \in asked[s]

AllExplained == Explained(profile) /\ Explained(call.counts)

\* A step leaves no count in the cache or in a request that neither Azure had nor
\* an increase asked for.
LEMMA ExplainedStep ==
  ASSUME TypeInv, AllExplained, [Next]_vars PROVE AllExplained'
<1> USE DEF azureVars, cacheVars, poolVars, indexVars, TypeInv
<1>0. PICK S \in SUBSET SKU : call.counts \in [S -> Nat]
  BY DEF TypeOK
<1>1. ASSUME NEW s \in SKU, NEW delta \in Deltas, IncreaseSize(s, delta)
      PROVE  AllExplained'
  BY <1>1 DEF IncreaseSize, NoCall, NoCounts, AllExplained, Explained
<1>2. CASE BuildRequest
  <2>1. call.sku \in SKU
    BY <1>2 DEF CallOK, BuildRequest, At
  <2>2. /\ \A s \in SKU : asked[s] \subseteq asked'[s]
        /\ call.n \in asked'[call.sku]
    BY <1>2, <2>1 DEF BuildRequest, TypeOK
  <2>3. Explained(profile)'
    BY <1>2, <2>1, <2>2, RequestMade, SkusAssumption
    DEF AllExplained, Explained, TypeOK
  <2>4. \A s \in DOMAIN call'.counts : call'.counts[s] \in asked'[s]
    <3>1. CASE call'.counts = profile'
      BY <2>3, <3>1 DEF Explained
    <3>2. CASE call'.counts = [s \in {call.sku} |-> call.n]
      BY <2>2, <3>2
    <3>3. CASE call'.counts = call.counts
      BY <1>0, <2>2, <3>3 DEF AllExplained, Explained
    <3> QED
      BY <1>2, <2>1, <3>1, <3>2, <3>3, RequestMade
  <2> QED
    BY <2>3, <2>4 DEF AllExplained, Explained
<1>3. CASE PutAccepted
  BY <1>3 DEF PutAccepted, AllExplained, Explained
<1>4. CASE IncreaseReturns
  BY <1>4 DEF IncreaseReturns, NoCall, NoCounts, AllExplained, Explained
<1>5. CASE RefreshPools(Main)
  <2>1. call = NoCall
    BY <1>5 DEF RefreshPools, At, CallOK
  <2>2. Explained(profile)'
    BY <1>5, SkusAssumption DEF RefreshPools, Known, Explained
  <2> QED
    BY <1>5, <2>1, <2>2
    DEF RefreshPools, NoCall, NoCounts, AllExplained, Explained
<1>6. ASSUME NEW t \in Waiters, RefreshPools(t) PROVE AllExplained'
  <2>0. t # Main
    BY ThreadsAssumption
  <2>1. \A s \in SKU : asked[s] \subseteq asked'[s] /\ count[s] \in asked'[s]
    BY <1>6, <2>0 DEF RefreshPools, Known
  <2>2. Explained(profile)'
    BY <1>6, <2>1, SkusAssumption DEF RefreshPools, Explained
  <2>3. \A s \in DOMAIN call.counts : call.counts[s] \in asked'[s]
    BY <1>0, <2>1 DEF AllExplained, Explained
  <2> QED
    BY <1>6, <2>2, <2>3 DEF RefreshPools, AllExplained, Explained
<1>7. CASE UNCHANGED <<profile, asked, call>>
  BY <1>7 DEF AllExplained, Explained
<1>8. CASE DecreaseTargetSize \/ AzureStep \/ Tick \/ UNCHANGED vars
  BY <1>7, <1>8 DEF DecreaseTargetSize, AzureStep, Provision, ScaleIn, Fail,
     Vanish, Tick, vars
<1>9. ASSUME NEW t \in Refresher,
             RefreshVMs(t) \/ ReadNodes(t) \/ RefreshFails(t) \/ Publish(t)
             \/ Stamp(t)
      PROVE  AllExplained'
  BY <1>7, <1>9 DEF RefreshVMs, ReadNodes, RefreshFails, Publish, Stamp
<1>10. ASSUME NEW d \in Deleters, DeleterStep(d) PROVE AllExplained'
  BY <1>7, <1>10 DEF DeleterStep, DeleteNodes, Mark, DeleteAccepted,
     DeleteReturns
<1>11. ASSUME NEW t \in Refresher, RefreshStep(t) PROVE AllExplained'
  BY <1>5, <1>6, <1>9, <1>11 DEF RefreshStep, Refresher
<1> QED
  BY <1>1, <1>2, <1>3, <1>4, <1>8, <1>10, <1>11 DEF Next, MainStep, Refresher

\* What an accepted PUT (azure_vms_pool.go:171) makes of any SKU's count is a
\* count that Azure had, or that an increase of that very SKU asked for, since the
\* loop's last complete fetch: what was refused before that is forgotten, however
\* many goroutines fetch in between.
THEOREM RefusedNeverReturns == Spec => RefusedForgotten
<1>1. ASSUME Init PROVE AllExplained
  BY <1>1, SkusAssumption DEF Init, AllExplained, Explained, NoCall, NoCounts
<1>2. TypeInv /\ AllExplained /\ [Next]_vars
        => [\A s \in SKU :
              At(Main, "put") /\ At(Main, "poll")' /\ count'[s] # count[s]
                => count'[s] \in asked[s]]_vars
  <2>0. SUFFICES ASSUME TypeInv, AllExplained, [Next]_vars
                 PROVE  [\A s \in SKU :
                           At(Main, "put") /\ At(Main, "poll")'
                           /\ count'[s] # count[s] => count'[s] \in asked[s]]_vars
    OBVIOUS
  <2>1. SUFFICES ASSUME NEW s \in SKU, Next, At(Main, "put"), At(Main, "poll")',
                        count'[s] # count[s]
                 PROVE  count'[s] \in asked[s]
    BY <2>0
  <2>2. Main \in Thread /\ pc = [t \in Thread |-> pc[t]]
    BY <2>0 DEF Thread, Refresher, TypeInv, TypeOK
  <2>3. PutAccepted
    <3>1. CASE MainStep
      BY <2>1, <2>2, <3>1 DEF MainStep, At, Goto, DecreaseTargetSize,
         IncreaseSize, BuildRequest, IncreaseReturns, RefreshStep, RefreshVMs,
         RefreshPools, ReadNodes, RefreshFails, Publish, Stamp
    <3>2. CASE AzureStep \/ Tick
      BY <2>1, <3>2 DEF At, AzureStep, Provision, ScaleIn, Fail, Vanish, Tick
    <3>3. ASSUME NEW t \in Waiters \cup Deleters,
                 \/ t \in Waiters /\ RefreshStep(t)
                 \/ t \in Deleters /\ DeleterStep(t)
          PROVE  FALSE
      BY <2>0, <2>1, <3>3, OthersLeaveCall DEF At, TypeInv
    <3> QED
      BY <2>1, <3>1, <3>2, <3>3 DEF Next
  <2> QED
    BY <2>0, <2>1, <2>3 DEF PutAccepted, AllExplained, Explained
<1> QED
  BY <1>1, <1>2, ExplainedStep, TypeInvariant, PTL DEF Spec, RefusedForgotten

=============================================================================
