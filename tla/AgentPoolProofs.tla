--------------------------- MODULE AgentPoolProofs ---------------------------
(***************************************************************************)
(* Proofs about AgentPool, for any number of deleters and any sizes: the   *)
(* type invariant, and that the pool stays within its maximum although     *)
(* IncreaseSize counts the VMs of a list that may be stale.                *)
(***************************************************************************)
EXTENDS AgentPool, FiniteSetTheorems, WellFoundedInduction, TLAPS

-----------------------------------------------------------------------------
(* Facts about indexes.                                                    *)

\* A bounded set of numbers that is not empty has a highest one.
LEMMA HighestBelow ==
  ASSUME NEW n \in Nat, NEW S \in SUBSET (0..n), S # {}
  PROVE  \E x \in S : \A y \in S : x >= y
<1> DEFINE T == {n - x : x \in S}
<1>1. \A x \in S : x \in Nat /\ n - x \in Nat
  OBVIOUS
<1>2. T \subseteq Nat /\ T # {}
  BY <1>1
<1>3. PICK m \in T : \A k \in T : ~(<<k, m>> \in OpToRel(<, Nat))
  BY <1>2, WFMin, NatLessThanWellFounded, Zenon
<1>4. \A k \in T : ~(k < m)
  BY <1>2, <1>3 DEF OpToRel
<1>5. PICK x \in S : m = n - x
  BY <1>3
<1>6. ASSUME NEW y \in S PROVE x >= y
  <2>1. n - y \in T
    OBVIOUS
  <2>2. ~(n - y < n - x)
    BY <2>1, <1>4, <1>5
  <2> QED
    BY <2>2, <1>1
<1> QED
  BY <1>6

\* So has a set of indexes.
LEMMA HighestExists ==
  ASSUME NEW S \in SUBSET Index, S # {}
  PROVE  \E x \in S : \A y \in S : x >= y
BY HighestBelow, LimitsAssumption DEF Index

\* What sort.IntSlice and indexes[len(indexes)-1] find.
LEMMA MaxType ==
  ASSUME NEW S \in SUBSET Index, S # {}
  PROVE  Max(S) \in S /\ Max(S) \in Nat /\ \A y \in S : Max(S) >= y
<1>1. Max(S) \in S /\ \A y \in S : Max(S) >= y
  BY HighestExists DEF Max
<1>2. S \subseteq Nat
  BY LimitsAssumption DEF Index
<1> QED
  BY <1>1, <1>2, Zenon

\* Sets of indexes are finite.
LEMMA IndexFinite ==
  ASSUME NEW S \in SUBSET Index
  PROVE  IsFiniteSet(S) /\ Cardinality(S) \in Nat
<1>1. IsFiniteSet(Index)
  BY FS_Interval, LimitsAssumption DEF Index
<1>2. IsFiniteSet(S)
  BY <1>1, FS_Subset
<1> QED
  BY <1>2, FS_CardinalityType

\* A pool has at least one VM where the list has one.
LEMMA CountPositive ==
  ASSUME NEW S \in SUBSET Index, S # {}
  PROVE  Cardinality(S) > 0
BY IndexFinite, FS_EmptySet

\* A pool whose highest index is 0 has one VM.
LEMMA OnlyIndexZero ==
  ASSUME NEW S \in SUBSET Index, S # {}, Max(S) = 0
  PROVE  Cardinality(S) = 1
<1>1. \A y \in S : y = 0
  BY MaxType, LimitsAssumption DEF Index
<1>2. S = {0}
  BY <1>1
<1> QED
  BY <1>2, FS_Singleton

\* The template's range is the delta indexes after the highest one in use,
\* whether or not the count is corrected for the gaps below it.
LEMMA RangeIsAbove ==
  ASSUME list \in SUBSET Index, list # {}, NEW delta \in Nat
  PROVE  TemplateRange(delta) = Max(list) + 1 .. Max(list) + delta
<1>1. Max(list) \in Nat /\ Cardinality(list) \in Nat
  BY MaxType, IndexFinite
<1>2. CASE Max(list) = 0
  BY <1>1, <1>2, OnlyIndexZero
     DEF TemplateRange, CountForTemplate, HighestUsedIndex
<1>3. CASE Max(list) # 0
  <2>1. CountForTemplate(delta) - 1 = Max(list) + delta
    BY <1>1, <1>3 DEF CountForTemplate, HighestUsedIndex
  <2> QED
    BY <2>1 DEF TemplateRange, HighestUsedIndex
<1> QED
  BY <1>2, <1>3

-----------------------------------------------------------------------------
(* Types.                                                                  *)

CallType == [delta : Nat, range : SUBSET Index]

\* Main has an increase under way whose VMs have room below the bound, and a
\* range once there is one to deploy.
CallOK ==
  /\ pc[Main] \in {"cleanup", "prune", "deploy", "create"} =>
       \A i \in list : i + call.delta <= MaxIndex
  /\ pc[Main] = "create" => list # {} /\ call.range = TemplateRange(call.delta)
                            /\ Cardinality(list) + call.delta <= MaxSize

TypeInv == TypeOK /\ CallOK

\* A thread moves to a label; the others stay.
LEMMA GotoType ==
  ASSUME TypeOK, NEW t \in Thread, NEW l \in Label, Goto(t, l)
  PROVE  /\ pc' \in [Thread -> Label] /\ pc'[t] = l
         /\ \A u \in Thread \ {t} : pc'[u] = pc[u]
BY DEF TypeOK, Goto

\* Main's return leaves no increase behind.
LEMMA ReturnType ==
  ASSUME TypeOK, Return
  PROVE  pc' \in [Thread -> Label] /\ call' \in CallType /\ CallOK'
<1>1. pc' \in [Thread -> Label] /\ pc'[Main] = "idle"
  BY GotoType DEF Return, Thread, Label
<1> QED
  BY <1>1 DEF Return, NoCall, CallType, CallOK

\* A deployment that ends is counted; older ones keep their number.
LEMMA EndedType ==
  ASSUME TypeOK, Ended
  PROVE  /\ made' \in Nat /\ deployed' \subseteq 1..made'
         /\ outdated' = outdated => outdated' \in [Thread -> SUBSET (1..made')]
<1>1. made' = made + 1 /\ made \in Nat /\ 1..made \subseteq 1..made'
  BY DEF Ended, TypeOK
<1>2. made' \in 1..made'
  BY <1>1
<1>3. deployed' \subseteq 1..made'
  BY <1>1, <1>2 DEF Ended, TypeOK
<1>4. outdated' = outdated => outdated' \in [Thread -> SUBSET (1..made')]
  BY <1>1 DEF TypeOK
<1> QED
  BY <1>1, <1>3, <1>4

\* The clean-up of deployments keeps the types; Main goes on with its increase.
LEMMA TypeCleanup ==
  ASSUME TypeInv, NEW t \in Thread,
         ListDeployments(t) \/ DeleteDeployments(t)
  PROVE  TypeInv'
<1>1. PICK l \in {"prune", "deploy", "delete"} : Goto(t, l)
  BY DEF ListDeployments, DeleteDeployments
<1>2. /\ pc' \in [Thread -> Label] /\ pc'[t] = l
      /\ \A u \in Thread \ {t} : pc'[u] = pc[u]
  BY <1>1, GotoType DEF TypeInv, Label
<1>3. outdated' \in [Thread -> SUBSET (1..made)] /\ deployed' \subseteq deployed
  <2>1. outdated \in [Thread -> SUBSET (1..made)] /\ deployed \subseteq 1..made
    BY DEF TypeInv, TypeOK
  <2>2. \A s : Outdated(s) \subseteq s
    BY DEF Outdated
  <2>3. CASE ListDeployments(t)
    <3>1. PICK s \in {Outdated(deployed), {}} :
               outdated' = [outdated EXCEPT ![t] = s]
      BY <2>3 DEF ListDeployments
    <3>2. s \in SUBSET (1..made)
      BY <2>1, <2>2, <3>1
    <3> QED
      BY <2>1, <2>3, <3>1, <3>2 DEF ListDeployments, depVars
  <2>4. CASE DeleteDeployments(t)
    BY <2>1, <2>4 DEF DeleteDeployments
  <2> QED
    BY <2>3, <2>4
<1>4. TypeOK'
  BY <1>2, <1>3 DEF TypeInv, TypeOK, ListDeployments, DeleteDeployments,
                    azureVars, depVars, sizeVars
<1>5. CallOK'
  <2>1. UNCHANGED <<call, list>>
    BY DEF ListDeployments, DeleteDeployments
  <2>2. CASE t = Main
    BY <1>2, <2>1, <2>2
       DEF TypeInv, CallOK, ListDeployments, DeleteDeployments, At
  <2>3. CASE t # Main
    <3>1. pc'[Main] = pc[Main]
      BY <1>2, <2>3 DEF Thread
    <3> QED
      BY <2>1, <3>1
         DEF TypeInv, CallOK, TemplateRange, CountForTemplate, HighestUsedIndex
  <2> QED
    BY <2>2, <2>3
<1> QED
  BY <1>4, <1>5 DEF TypeInv

\* The steps of the loop keep the types.
LEMMA TypeMain == ASSUME TypeInv, MainStep PROVE TypeInv'
<1> USE DEF TypeInv
<1>1. Main \in Thread /\ list \in SUBSET Index /\ vms \in SUBSET Index
  BY DEF Thread, TypeOK
<1>2. Cardinality(list) \in Nat /\ Cardinality(vms) \in Nat
  BY <1>1, IndexFinite
<1>3. CASE Refresh
  BY <1>3 DEF Refresh, At, TypeOK, CallOK, azureVars, depVars, sizeVars
<1>4. CASE TargetSize
  <2>1. /\ curSize' \in Nat \cup {-1} /\ sizeFresh' \in BOOLEAN
        /\ mgrFresh' \in BOOLEAN
    BY <1>2, <1>4 DEF TargetSize, getCurSize, TypeOK, sizeVars
  <2> QED
    BY <1>4, <2>1 DEF TargetSize, At, TypeOK, CallOK, azureVars, depVars
<1>5. ASSUME NEW delta \in Deltas, DecreaseTargetSize(delta) PROVE TypeInv'
  <2>1. curSize' \in Nat
    BY <1>2, <1>5, SizesAssumption DEF DecreaseTargetSize, TypeOK
  <2> QED
    BY <1>5, <2>1
       DEF DecreaseTargetSize, At, TypeOK, CallOK, azureVars, depVars
<1>6. ASSUME NEW delta \in Deltas, IncreaseSize(delta) PROVE TypeInv'
  <2>1. call' \in CallType /\ call'.delta = delta
    BY <1>6, SizesAssumption DEF IncreaseSize, NoCall, CallType
  <2>2. pc' \in [Thread -> Label] /\ pc'[Main] = "cleanup"
    BY <1>1, <1>6, GotoType DEF IncreaseSize, Label
  <2> QED
    BY <1>6, <2>1, <2>2 DEF IncreaseSize, TypeOK, CallOK, CallType,
                            azureVars, depVars, sizeVars
<1>7. CASE PrepareDeployment
  <2>1. CASE Return
    BY <1>7, <2>1, ReturnType DEF PrepareDeployment, TypeOK, CallType,
                    invalidateCache, azureVars, depVars, sizeVars
  <2>2. CASE /\ list # {} /\ Cardinality(list) + call.delta <= MaxSize
             /\ call' = [call EXCEPT !.range = TemplateRange(call.delta)]
             /\ Goto(Main, "create")
    <3>1. pc' \in [Thread -> Label] /\ pc'[Main] = "create"
      BY <1>1, <2>2, GotoType DEF Label
    <3>2. call.delta \in Nat /\ call \in CallType
      BY DEF TypeOK, CallType
    <3>3. TemplateRange(call.delta) = Max(list) + 1 .. Max(list) + call.delta
      BY <1>1, <2>2, <3>2, RangeIsAbove
    <3>4. Max(list) \in Nat /\ Max(list) + call.delta <= MaxIndex
      BY <1>1, <1>7, <2>2, MaxType DEF PrepareDeployment, At, CallOK
    <3>5. TemplateRange(call.delta) \in SUBSET Index
      BY <3>2, <3>3, <3>4, LimitsAssumption DEF Index
    <3>6. /\ call' \in CallType /\ call'.delta = call.delta
          /\ call'.range = TemplateRange(call.delta)
      BY <2>2, <3>2, <3>5 DEF CallType
    <3>7. UNCHANGED list
      BY <1>7 DEF PrepareDeployment
    <3>8. TypeOK'
      BY <1>7, <3>1, <3>6 DEF PrepareDeployment, TypeOK, CallType,
                  invalidateCache, azureVars, depVars, sizeVars
    <3>9. CallOK'
      BY <1>7, <2>2, <3>1, <3>6, <3>7
         DEF PrepareDeployment, At, CallOK, TemplateRange, CountForTemplate,
             HighestUsedIndex
    <3> QED
      BY <3>8, <3>9
  <2> QED
    BY <1>7, <2>1, <2>2 DEF PrepareDeployment
<1>8. CASE DeploymentSucceeds
  <2>1. curSize' \in Nat
    BY <1>2, <1>8 DEF DeploymentSucceeds, TypeOK
  <2>2. vms' \subseteq Index
    BY <1>8 DEF DeploymentSucceeds, TypeOK
  <2>3. /\ made' \in Nat /\ deployed' \subseteq 1..made'
        /\ outdated' \in [Thread -> SUBSET (1..made')] /\ unended' \in Nat
    BY <1>8, EndedType DEF DeploymentSucceeds, Made, TypeOK
  <2>4. pc' \in [Thread -> Label] /\ call' \in CallType /\ CallOK'
    BY <1>8, ReturnType DEF DeploymentSucceeds
  <2> QED
    BY <1>8, <2>1, <2>2, <2>3, <2>4
       DEF DeploymentSucceeds, TypeOK, CallType, invalidateCache
<1>9. CASE DeploymentFails
  <2>1. vms' \subseteq Index /\ late' \subseteq Index /\ lost' \in BOOLEAN
    BY <1>9 DEF DeploymentFails, TypeOK, azureVars
  <2>2. /\ made' \in Nat /\ deployed' \subseteq 1..made'
        /\ outdated' \in [Thread -> SUBSET (1..made')] /\ unended' \in Nat
    <3>1. UNCHANGED outdated
      BY <1>9 DEF DeploymentFails
    <3>2. CASE UNCHANGED depVars
      BY <3>1, <3>2 DEF TypeOK, depVars
    <3>3. CASE MadeUnfinished
      BY <3>1, <3>3 DEF MadeUnfinished, TypeOK
    <3>4. CASE Made
      BY <3>1, <3>4, EndedType DEF Made, TypeOK
    <3> QED
      BY <1>9, <3>2, <3>3, <3>4 DEF DeploymentFails
  <2>3. pc' \in [Thread -> Label] /\ call' \in CallType /\ CallOK'
    BY <1>9, ReturnType DEF DeploymentFails
  <2> QED
    BY <1>9, <2>1, <2>2, <2>3 DEF DeploymentFails, TypeOK, CallType, sizeVars
<1> QED
  BY <1>1, <1>3, <1>4, <1>5, <1>6, <1>7, <1>8, <1>9, TypeCleanup DEF MainStep

\* A deleter's steps, Azure's and time's keep the types.
LEMMA TypeOthers ==
  ASSUME TypeInv, \/ \E d \in Deleters : DeleterStep(d)
                  \/ Tick \/ EndsLate \/ \E i \in Index : LateVM(i)
  PROVE  TypeInv'
<1> USE DEF TypeInv
<1>1. \A d \in Deleters : d \in Thread /\ d # Main
  BY ThreadsAssumption DEF Thread
<1>2. ASSUME UNCHANGED <<call, list>>, pc'[Main] = pc[Main]
      PROVE  CallOK'
  BY <1>2 DEF CallOK, TemplateRange, CountForTemplate, HighestUsedIndex
<1>3. ASSUME NEW d \in Deleters, NEW nodes \in SUBSET list,
             ForceDeleteNodes(d, nodes)
      PROVE  TypeInv'
  <2>1. pc' \in [Thread -> Label] /\ pc'[Main] = pc[Main]
    BY <1>1, <1>3, GotoType DEF ForceDeleteNodes, Label, Thread
  <2>2. batch' \in [Deleters -> SUBSET Index]
    BY <1>3 DEF ForceDeleteNodes, TypeOK
  <2> QED
    BY <1>2, <1>3, <2>1, <2>2
       DEF ForceDeleteNodes, TypeOK, azureVars, depVars, sizeVars
<1>4. ASSUME NEW d \in Deleters, DeleteInstances(d) PROVE TypeInv'
  <2>1. pc' \in [Thread -> Label] /\ pc'[Main] = pc[Main]
    BY <1>1, <1>4, GotoType DEF DeleteInstances, Label, Thread
  <2>2. batch' \in [Deleters -> SUBSET Index] /\ vms' \subseteq Index
    BY <1>4 DEF DeleteInstances, TypeOK
  <2> QED
    BY <1>2, <1>4, <2>1, <2>2
       DEF DeleteInstances, TypeOK, depVars, sizeVars, invalidateCache
<1>5. CASE Tick
  BY <1>2, <1>5 DEF Tick, TypeOK, azureVars, depVars
<1>6. ASSUME NEW i \in Index, LateVM(i) PROVE TypeInv'
  BY <1>2, <1>6 DEF LateVM, TypeOK, depVars, sizeVars
<1>7. CASE EndsLate
  <2>1. /\ made' \in Nat /\ deployed' \subseteq 1..made'
        /\ outdated' \in [Thread -> SUBSET (1..made')] /\ unended' \in Nat
    BY <1>7, EndedType DEF EndsLate, TypeOK
  <2> QED
    BY <1>2, <1>7, <2>1 DEF EndsLate, TypeOK, azureVars, sizeVars
<1> QED
  BY <1>1, <1>3, <1>4, <1>5, <1>6, <1>7, TypeCleanup DEF DeleterStep, DeleteNodes

\* TypeInv is an invariant.
LEMMA TypeInvariant == Spec => []TypeInv
<1>1. Init => TypeInv
  <2> SUFFICES ASSUME Init PROVE TypeInv
    OBVIOUS
  <2>1. pc = [t \in Thread |-> "idle"] /\ pc[Main] = "idle"
    BY DEF Init, Thread
  <2>2. pc \in [Thread -> Label] /\ CallOK
    BY <2>1 DEF Label, CallOK
  <2> QED
    BY <2>2 DEF Init, TypeInv, TypeOK, NoCall
<1>2. ASSUME TypeInv, [Next]_vars PROVE TypeInv'
  <2>1. CASE UNCHANGED vars
    BY <1>2, <2>1 DEF TypeInv, TypeOK, CallOK, TemplateRange, CountForTemplate,
                      HighestUsedIndex, vars, azureVars, depVars, sizeVars
  <2>2. CASE Next
    BY <1>2, <2>2, TypeMain, TypeOthers DEF Next
  <2> QED
    BY <1>2, <2>1, <2>2
<1> QED
  BY <1>1, <1>2, PTL DEF Spec

\* Every variable of the agent pool, its list and its deployments keeps its
\* type; the indexes IncreaseSize deploys are indexes of VMs.
THEOREM TypeCorrect == Spec => []TypeOK
<1>1. TypeInv => TypeOK
  BY DEF TypeInv
<1> QED
  BY <1>1, TypeInvariant, PTL

-----------------------------------------------------------------------------
(* The maximum.  That the VMs are no more than MaxSize is not inductive:   *)
(* an increase counts the list's VMs, not Azure's.  What is inductive is   *)
(* where the VMs may be: in the list, or among the indexes that an         *)
(* increase of a pool of the list's size may still use above it.           *)

\* The indexes above the list that an increase may deploy.
Room == Max(list) + 1 .. Max(list) + MaxSize - Cardinality(list)
Window == IF list = {} THEN {} ELSE list \cup Room

Bounded == ~lost => /\ late = {}
                    /\ Cardinality(list) <= MaxSize
                    /\ vms \subseteq Window

\* The window holds MaxSize indexes at most.
LEMMA WindowSize ==
  ASSUME TypeOK, Cardinality(list) <= MaxSize
  PROVE  IsFiniteSet(Window) /\ Cardinality(Window) <= MaxSize
<1>1. list \in SUBSET Index /\ MaxSize \in Nat
  BY SizesAssumption DEF TypeOK
<1>2. CASE list = {}
  BY <1>1, <1>2, FS_EmptySet DEF Window
<1>3. CASE list # {}
  <2>1. /\ IsFiniteSet(list) /\ Cardinality(list) \in Nat
        /\ Max(list) \in Nat /\ \A y \in list : Max(list) >= y
    BY <1>1, <1>3, IndexFinite, MaxType
  <2>2. IsFiniteSet(Room) /\ Cardinality(Room) = MaxSize - Cardinality(list)
    <3> DEFINE a == Max(list) + 1
               b == Max(list) + MaxSize - Cardinality(list)
    <3>1. a \in Int /\ b \in Int
      BY <1>1, <2>1
    <3>2. IsFiniteSet(a..b) /\ Cardinality(a..b) = IF a > b THEN 0 ELSE b - a + 1
      BY <3>1, FS_Interval
    <3> QED
      BY <1>1, <2>1, <3>2 DEF Room
  <2>3. list \cap Room = {}
    BY <1>1, <2>1, LimitsAssumption DEF Room, Index
  <2>4. /\ IsFiniteSet(list \cup Room)
        /\ Cardinality(list \cup Room)
             = Cardinality(list) + Cardinality(Room) - Cardinality(list \cap Room)
    BY <2>1, <2>2, FS_Union
  <2>5. Cardinality(list \cap Room) = 0
    BY <2>3, FS_EmptySet
  <2>6. Cardinality(list \cup Room) = MaxSize
    BY <1>1, <2>1, <2>2, <2>4, <2>5
  <2> QED
    BY <1>1, <1>3, <2>4, <2>6 DEF Window
<1> QED
  BY <1>2, <1>3

\* Where the VMs are in the window, they are no more than the maximum.
LEMMA WithinMax == TypeOK /\ Bounded => VMsWithinMax
<1> SUFFICES ASSUME TypeOK, Bounded, ~lost PROVE Cardinality(vms) <= MaxSize
  BY DEF VMsWithinMax
<1>1. /\ vms \in SUBSET Window
      /\ IsFiniteSet(Window) /\ Cardinality(Window) <= MaxSize
  BY WindowSize DEF Bounded
<1>2. Cardinality(vms) <= Cardinality(Window)
  BY <1>1, FS_Subset
<1>3. /\ Cardinality(vms) \in Nat /\ Cardinality(Window) \in Nat
      /\ MaxSize \in Nat
  BY <1>1, IndexFinite, FS_CardinalityType, SizesAssumption DEF TypeOK
<1> QED
  BY <1>1, <1>2, <1>3

\* What a running increase deploys lies in the window.
LEMMA DeployedInWindow ==
  ASSUME TypeInv, At(Main, "create")
  PROVE  call.range \subseteq Window
<1>1. /\ list \in SUBSET Index /\ list # {} /\ call.delta \in Nat
      /\ call.range = TemplateRange(call.delta)
      /\ Cardinality(list) + call.delta <= MaxSize
  BY DEF TypeInv, TypeOK, CallOK, At
<1>2. call.range = Max(list) + 1 .. Max(list) + call.delta
  BY <1>1, RangeIsAbove
<1>3. Max(list) \in Nat /\ Cardinality(list) \in Nat /\ MaxSize \in Nat
  BY <1>1, MaxType, IndexFinite, SizesAssumption
<1>4. call.range \subseteq Room
  BY <1>1, <1>2, <1>3 DEF Room
<1> QED
  BY <1>1, <1>4 DEF Window

\* A step that leaves the list and creates no VM outside the window.
LEMMA BoundedKept ==
  ASSUME Bounded, UNCHANGED list, lost' = lost, late' \subseteq late,
         vms' \subseteq vms \cup Window
  PROVE  Bounded'
BY DEF Bounded, Window, Room

\* Every step keeps the VMs in the window.
LEMMA BoundedStep == ASSUME TypeInv, Bounded, Next PROVE Bounded'
<1> USE DEF azureVars, depVars, sizeVars
<1>1. CASE Refresh
  <2> SUFFICES ASSUME ~lost PROVE Bounded'
    BY <1>1 DEF Refresh, Bounded
  <2>1. Cardinality(vms) <= MaxSize
    BY WithinMax DEF TypeInv, VMsWithinMax
  <2>2. list' = vms /\ vms' = vms /\ late' = late
    BY <1>1 DEF Refresh
  <2> QED
    BY <2>1, <2>2 DEF Bounded, Window
<1>2. CASE TargetSize
  BY <1>2, BoundedKept DEF TargetSize
<1>3. CASE \E delta \in Deltas : DecreaseTargetSize(delta) \/ IncreaseSize(delta)
  BY <1>3, BoundedKept DEF DecreaseTargetSize, IncreaseSize
<1>4. CASE \E t \in Thread : ListDeployments(t) \/ DeleteDeployments(t)
  BY <1>4, BoundedKept DEF ListDeployments, DeleteDeployments
<1>5. CASE PrepareDeployment
  BY <1>5, BoundedKept DEF PrepareDeployment
<1>6. CASE DeploymentSucceeds
  BY <1>6, DeployedInWindow, BoundedKept DEF DeploymentSucceeds
<1>7. CASE DeploymentFails
  <2>1. CASE lost'
    BY <2>1 DEF Bounded
  <2>2. CASE ~lost'
    <3>1. UNCHANGED <<late, lost, list>> /\ vms' \subseteq vms \cup call.range
      BY <1>7, <2>2 DEF DeploymentFails
    <3>2. call.range \subseteq Window
      BY <1>7, DeployedInWindow DEF DeploymentFails
    <3> QED
      BY <3>1, <3>2, BoundedKept
  <2> QED
    BY <2>1, <2>2
<1>8. CASE \E d \in Deleters, nodes \in SUBSET list : ForceDeleteNodes(d, nodes)
  BY <1>8, BoundedKept DEF ForceDeleteNodes
<1>9. CASE \E d \in Deleters : DeleteInstances(d)
  BY <1>9, BoundedKept DEF DeleteInstances
<1>10. CASE Tick \/ EndsLate
  BY <1>10, BoundedKept DEF Tick, EndsLate
<1>11. CASE \E i \in Index : LateVM(i)
  <2>1. lost
    BY <1>11 DEF LateVM, Bounded
  <2>2. lost' = lost
    BY <1>11 DEF LateVM
  <2> QED
    BY <2>1, <2>2 DEF Bounded
<1> QED
  BY <1>1, <1>2, <1>3, <1>4, <1>5, <1>6, <1>7, <1>8, <1>9, <1>10, <1>11
     DEF Next, MainStep, DeleterStep, DeleteNodes, Thread

\* The VMs stay in the window.
LEMMA BoundedInvariant == Spec => []Bounded
<1>1. Init => Bounded
  <2> SUFFICES ASSUME Init PROVE Bounded
    OBVIOUS
  <2> QED
    BY DEF Init, Bounded, Window
<1>2. ASSUME TypeInv, Bounded, [Next]_vars PROVE Bounded'
  <2>1. CASE UNCHANGED vars
    BY <1>2, <2>1, BoundedKept DEF vars, azureVars
  <2>2. CASE Next
    BY <1>2, <2>2, BoundedStep
  <2> QED
    BY <1>2, <2>1, <2>2
<1> QED
  BY <1>1, <1>2, TypeInvariant, PTL DEF Spec

\* IncreaseSize checks a list against maxSize that deletions and half-finished
\* deployments may have made stale, and numbers the new VMs by it; the pool has
\* no more VMs than its maximum all the same, unless a deployment was given up
\* while it was still under way.
THEOREM MaximumRespected == Spec => []VMsWithinMax
<1>1. TypeInv /\ Bounded => VMsWithinMax
  BY WithinMax DEF TypeInv
<1> QED
  BY <1>1, TypeInvariant, BoundedInvariant, PTL

-----------------------------------------------------------------------------
(* The pool is a node group.                                               *)

Asked == UNION {batch[d] : d \in Deleters}
Growing == At(Main, "create") \/ late # {}

\* NodeGroup counts as this module does.
LEMMA GroupCardinality ==
  ASSUME NEW S PROVE Group!Cardinality(S) = Cardinality(S)
BY Zenon DEF Group!Cardinality, Cardinality

\* A step that leaves the VMs and the batches alone begins or ends an increase.
LEMMA SilentStep ==
  ASSUME UNCHANGED <<vms, batch, lost>>
  PROVE  Group!IncreaseSize
<1>1. Growing' \in BOOLEAN /\ UNCHANGED Asked
  BY DEF Growing, Asked, At
<1> QED
  BY <1>1 DEF Group!IncreaseSize, Growing, Asked

\* VMs appear while an increase is under way, within the maximum.
LEMMA GrowStep ==
  ASSUME TypeOK', VMsWithinMax', Growing, vms \subseteq vms',
         lost' = lost \/ lost' = TRUE, UNCHANGED batch
  PROVE  Group!Grow
<1>1. Growing' \in BOOLEAN /\ UNCHANGED Asked
  BY DEF Growing, Asked, At
<1>2. vms' \subseteq Index /\ lost' \in BOOLEAN
  BY DEF TypeOK
<1>3. lost' \/ Cardinality(vms') <= MaxSize
  BY DEF VMsWithinMax
<1> QED
  BY <1>1, <1>2, <1>3, GroupCardinality, Zenon DEF Group!Grow, Growing, Asked

\* A deleter that is idle has nothing left to delete.
BatchOK == \A d \in Deleters : At(d, "idle") => batch[d] = {}

\* A step keeps that.
LEMMA BatchStep ==
  ASSUME TypeOK, BatchOK, [Next]_vars
  PROVE  BatchOK'
<1> USE DEF azureVars, depVars, sizeVars
<1>1. ASSUME NEW t \in Thread, NEW l, pc' = [pc EXCEPT ![t] = l],
             t = Main \/ l # "idle", UNCHANGED batch
      PROVE  BatchOK'
  BY <1>1, ThreadsAssumption DEF BatchOK, At, TypeOK, Thread
<1>2. CASE UNCHANGED <<pc, batch>>
  BY <1>2 DEF BatchOK, At
<1>3. ASSUME NEW t \in Thread, ListDeployments(t) \/ DeleteDeployments(t)
      PROVE  BatchOK'
  <2>1. PICK l \in {"prune", "deploy", "delete"} : pc' = [pc EXCEPT ![t] = l]
    BY <1>3 DEF ListDeployments, DeleteDeployments, Goto
  <2> QED
    BY <1>1, <1>3, <2>1 DEF ListDeployments, DeleteDeployments
<1>4. ASSUME NEW d \in Deleters, NEW s \in SUBSET list, ForceDeleteNodes(d, s)
      PROVE  BatchOK'
  BY <1>4 DEF ForceDeleteNodes, BatchOK, At, Goto, TypeOK, Thread
<1>5. ASSUME NEW d \in Deleters, DeleteInstances(d)
      PROVE  BatchOK'
  BY <1>5 DEF DeleteInstances, BatchOK, At, Goto, TypeOK, Thread
<1>6. CASE \/ \E delta \in Deltas : IncreaseSize(delta)
           \/ PrepareDeployment \/ DeploymentSucceeds \/ DeploymentFails
  <2>1. PICK l : pc' = [pc EXCEPT ![Main] = l]
    BY <1>6 DEF IncreaseSize, PrepareDeployment, DeploymentSucceeds,
       DeploymentFails, Return, Goto
  <2> QED
    BY <1>1, <1>6, <2>1 DEF IncreaseSize, PrepareDeployment,
       DeploymentSucceeds, DeploymentFails, Thread
<1>7. CASE \/ Refresh \/ TargetSize \/ Tick \/ UNCHANGED vars
           \/ \E delta \in Deltas : DecreaseTargetSize(delta)
           \/ EndsLate \/ \E i \in Index : LateVM(i)
  BY <1>2, <1>7 DEF Refresh, TargetSize, Tick, vars, DecreaseTargetSize, LateVM,
     EndsLate
<1> QED
  BY <1>3, <1>4, <1>5, <1>6, <1>7
     DEF Next, MainStep, DeleterStep, DeleteNodes, Thread

\* It is an invariant.
LEMMA BatchInvariant == Spec => []BatchOK
<1>1. Init => BatchOK
  BY DEF Init, BatchOK
<1>2. TypeInv /\ BatchOK /\ [Next]_vars => BatchOK'
  BY BatchStep DEF TypeInv
<1> QED
  BY <1>1, <1>2, TypeInvariant, PTL DEF Spec

\* Every step of the pool is one of a node group, or leaves it alone.
LEMMA NodeGroupStep ==
  ASSUME TypeInv, TypeInv', BatchOK, VMsWithinMax', [Next]_vars
  PROVE  [Group!Next]_(Group!vars)
<1> USE DEF azureVars, depVars, sizeVars
<1>0. TypeOK /\ TypeOK'
  BY DEF TypeInv
<1>1. CASE UNCHANGED <<vms, batch, lost>>
  BY <1>1, SilentStep DEF Group!Next
<1>2. CASE DeploymentSucceeds \/ DeploymentFails
  <2>1. Growing /\ vms \subseteq vms' /\ UNCHANGED batch
    BY <1>2 DEF DeploymentSucceeds, DeploymentFails, Growing
  <2>2. lost' = lost \/ lost' = TRUE
    BY <1>2 DEF DeploymentSucceeds, DeploymentFails
  <2> QED
    BY <1>0, <2>1, <2>2, GrowStep DEF Group!Next
<1>3. CASE \E i \in Index : LateVM(i)
  <2>1. Growing /\ vms \subseteq vms' /\ UNCHANGED <<batch, lost>>
    BY <1>3 DEF LateVM, Growing
  <2> QED
    BY <1>0, <2>1, GrowStep DEF Group!Next
<1>4. ASSUME NEW d \in Deleters, NEW s \in SUBSET list, ForceDeleteNodes(d, s)
      PROVE  Group!Next
  <2>1. /\ UNCHANGED <<vms, late, lost>>
        /\ batch'[d] = s /\ s \subseteq Index
        /\ batch[d] = {}
        /\ \A e \in Deleters \ {d} : batch'[e] = batch[e]
    BY <1>0, <1>4 DEF ForceDeleteNodes, TypeOK, BatchOK
  <2>2. Asked \subseteq Asked' /\ Asked' \subseteq Index
    BY <1>0, <2>1 DEF Asked, TypeOK
  <2>3. UNCHANGED Growing
    BY <1>0, <1>4, <2>1, ThreadsAssumption
       DEF ForceDeleteNodes, Growing, Goto, At, TypeOK, Thread
  <2> QED
    BY <2>1, <2>2, <2>3 DEF Group!Next, Group!DeleteNodes, Asked, Growing
<1>5. ASSUME NEW d \in Deleters, DeleteInstances(d)
      PROVE  Group!Next
  <2>1. /\ vms' \subseteq vms /\ vms \ vms' \subseteq batch[d]
        /\ UNCHANGED <<late, lost>>
        /\ \A e \in Deleters : batch'[e] \subseteq batch[e]
    BY <1>0, <1>5 DEF DeleteInstances, TypeOK
  <2>2. Asked' \subseteq Asked /\ batch[d] \subseteq Asked
    BY <2>1 DEF Asked
  <2>3. UNCHANGED Growing
    BY <1>0, <1>5, <2>1, ThreadsAssumption DEF DeleteInstances, Growing, Goto, At, TypeOK, Thread
  <2> QED
    BY <2>1, <2>2, <2>3 DEF Group!Next, Group!Shrink, Asked, Growing
<1>6. CASE UNCHANGED vars
  BY <1>1, <1>6 DEF vars
<1>7. CASE \/ Refresh \/ TargetSize
           \/ \E delta \in Deltas : DecreaseTargetSize(delta) \/ IncreaseSize(delta)
           \/ \E t \in Thread : ListDeployments(t) \/ DeleteDeployments(t)
           \/ PrepareDeployment \/ Tick \/ EndsLate
  BY <1>1, <1>7 DEF Refresh, TargetSize, DecreaseTargetSize, IncreaseSize,
     ListDeployments, DeleteDeployments, PrepareDeployment, Tick, EndsLate
<1> QED
  BY <1>2, <1>3, <1>4, <1>5, <1>6, <1>7
     DEF Next, MainStep, DeleterStep, DeleteNodes, Thread

\* An AgentPool is a node group: for any number of deleters, and whatever is
\* stale, fails or overlaps, VMs appear only while a deployment of its own is
\* under way and within the maximum, and disappear only after a DeleteNodes
\* that names them.
THEOREM Refinement == Spec => IsNodeGroup
<1>1. Init => Group!Init
  <2> SUFFICES ASSUME Init PROVE Group!Init
    OBVIOUS
  <2>1. vms \subseteq Index /\ lost = FALSE /\ Cardinality(vms) <= MaxSize
    BY DEF Init
  <2>2. Growing \in BOOLEAN /\ Asked = {}
    BY DEF Init, Asked, Growing, At
  <2> QED
    BY <2>1, <2>2, GroupCardinality, Zenon DEF Group!Init, Asked, Growing
<1>2. TypeInv /\ TypeInv' /\ BatchOK /\ VMsWithinMax' /\ [Next]_vars
        => [Group!Next]_(Group!vars)
  BY NodeGroupStep
<1> QED
  BY <1>1, <1>2, TypeInvariant, BatchInvariant, MaximumRespected, PTL
     DEF Spec, IsNodeGroup, Group!Spec

-----------------------------------------------------------------------------
(* The clean-up of deployments.                                            *)

\* A set of deployments is finite, and so is what is newer than one of them.
LEMMA NewerFinite ==
  ASSUME NEW n \in Nat, NEW D \in SUBSET (1..n), NEW x
  PROVE  /\ IsFiniteSet({y \in D : y > x})
         /\ Cardinality({y \in D : y > x}) \in Nat
<1>1. IsFiniteSet(1..n)
  BY FS_Interval
<1>2. {y \in D : y > x} \in SUBSET (1..n)
  OBVIOUS
<1>3. IsFiniteSet({y \in D : y > x})
  BY <1>1, <1>2, FS_Subset
<1> QED
  BY <1>3, FS_CardinalityType

\* Where outdated deployments are deleted, an outdated one keeps its number of newer
\* ones: the newest of the outdated has enough newer ones that are not outdated.
LEMMA NewestSurvive ==
  ASSUME NEW n \in Nat, NEW D \in SUBSET (1..n), NEW s \in SUBSET Outdated(D),
         NEW z \in Outdated(D)
  PROVE  Cardinality({y \in D \ s : y > z}) >= MaxDeploymentsCount
<1>1. Outdated(D) \subseteq D /\ Outdated(D) \in SUBSET (0..n) /\ Outdated(D) # {}
  <2>1. Outdated(D) \subseteq D
    BY DEF Outdated
  <2>2. D \subseteq 0..n
    OBVIOUS
  <2> QED
    BY <2>1, <2>2
<1>2. PICK m \in Outdated(D) : \A x \in Outdated(D) : m >= x
  BY <1>1, HighestBelow
<1>3. Cardinality({y \in D : y > m}) >= MaxDeploymentsCount
  BY DEF Outdated
<1>4. {y \in D : y > m} \subseteq {y \in D \ s : y > z}
  <2> SUFFICES ASSUME NEW y \in D, y > m PROVE y \notin s /\ y > z
    OBVIOUS
  <2>1. y \in Nat /\ m \in Nat /\ z \in Nat
    BY <1>1
  <2>2. ~(m >= y) /\ m >= z
    BY <1>2, <2>1
  <2> QED
    BY <1>2, <2>1, <2>2
<1>5. IsFiniteSet({y \in D \ s : y > z}) /\ Cardinality({y \in D \ s : y > z}) \in Nat
  <2>1. D \ s \in SUBSET (1..n)
    OBVIOUS
  <2> QED
    BY <2>1, NewerFinite
<1>6. Cardinality({y \in D : y > m}) <= Cardinality({y \in D \ s : y > z})
  BY <1>4, <1>5, FS_Subset
<1>7. Cardinality({y \in D : y > m}) \in Nat
  BY NewerFinite
<1> QED
  BY <1>3, <1>5, <1>6, <1>7, LimitsAssumption

\* A further deployment makes none of the outdated ones current again.
LEMMA OutdatedGrows ==
  ASSUME NEW n \in Nat, NEW D \in SUBSET (1..n), NEW E \in SUBSET (1..n), D \subseteq E
  PROVE  Outdated(D) \subseteq Outdated(E)
<1> SUFFICES ASSUME NEW x \in Outdated(D) PROVE x \in Outdated(E)
  OBVIOUS
<1>1. x \in D /\ Cardinality({y \in D : y > x}) >= MaxDeploymentsCount
  BY DEF Outdated
<1>2. {y \in D : y > x} \subseteq {y \in E : y > x}
  OBVIOUS
<1>3. /\ IsFiniteSet({y \in E : y > x}) /\ Cardinality({y \in E : y > x}) \in Nat
      /\ Cardinality({y \in D : y > x}) \in Nat
  BY NewerFinite
<1>4. Cardinality({y \in D : y > x}) <= Cardinality({y \in E : y > x})
  BY <1>2, <1>3, FS_Subset
<1>5. Cardinality({y \in E : y > x}) >= MaxDeploymentsCount
  BY <1>1, <1>3, <1>4, LimitsAssumption
<1> QED
  BY <1>1, <1>5 DEF Outdated

\* What a thread is about to delete, by a list that others have changed since, is
\* outdated still, as far as it is still there.
CleanInv == \A t \in Thread : outdated[t] \cap deployed \subseteq Outdated(deployed)

\* The end of a deployment.
LEMMA CleanEnded ==
  ASSUME TypeOK, CleanInv, Ended, UNCHANGED outdated
  PROVE  CleanInv' /\ deployed \subseteq deployed'
<1>1. /\ made \in Nat /\ made' = made + 1 /\ deployed \subseteq 1..made
      /\ outdated \in [Thread -> SUBSET (1..made)]
  BY DEF Ended, TypeOK
<1>2. deployed' \in {deployed, deployed \cup {made'}}
  BY DEF Ended
<1>3. Outdated(deployed) \subseteq Outdated(deployed')
  <2>1. made' \in Nat /\ deployed \in SUBSET (1..made') /\ deployed' \in SUBSET (1..made')
    BY <1>1, <1>2
  <2> QED
    BY <1>2, <2>1, OutdatedGrows
<1>4. ASSUME NEW t \in Thread PROVE outdated'[t] \cap deployed' \subseteq Outdated(deployed')
  <2>1. made' \notin outdated[t]
    BY <1>1
  <2>2. outdated'[t] \cap deployed' \subseteq outdated[t] \cap deployed
    BY <1>2, <2>1
  <2>3. outdated[t] \cap deployed \subseteq Outdated(deployed)
    BY DEF CleanInv
  <2> QED
    BY <1>3, <2>2, <2>3
<1>5. CleanInv'
  BY <1>4 DEF CleanInv, Outdated
<1> QED
  BY <1>2, <1>5

\* A clean-up deletes what is outdated, and what the others are to delete stays so.
LEMMA CleanDeleted ==
  ASSUME TypeOK, CleanInv, NEW u \in Thread, DeleteDeployments(u)
  PROVE  /\ CleanInv'
         /\ \A x \in deployed \ deployed' :
              Cardinality({y \in deployed' : y > x}) >= MaxDeploymentsCount
<1>1. /\ made \in Nat /\ deployed \in SUBSET (1..made)
      /\ outdated \in [Thread -> SUBSET (1..made)]
  BY DEF TypeOK
<1>2. PICK s \in SUBSET (outdated[u] \cap deployed) : deployed' = deployed \ s
  BY DEF DeleteDeployments
<1>3. outdated[u] \cap deployed \subseteq Outdated(deployed)
  BY DEF CleanInv
<1>4. s \in SUBSET Outdated(deployed)
  BY <1>2, <1>3
<1>5. \A z \in Outdated(deployed) :
         Cardinality({y \in deployed' : y > z}) >= MaxDeploymentsCount
  BY <1>1, <1>2, <1>4, NewestSurvive
<1>6. ASSUME NEW t \in Thread PROVE outdated'[t] \cap deployed' \subseteq Outdated(deployed')
  <2>1. outdated'[t] \subseteq outdated[t]
    BY <1>1 DEF DeleteDeployments
  <2>2. outdated[t] \cap deployed \subseteq Outdated(deployed)
    BY DEF CleanInv
  <2>3. outdated'[t] \cap deployed' \subseteq Outdated(deployed)
    BY <1>2, <2>1, <2>2
  <2> QED
    BY <1>5, <2>3 DEF Outdated
<1>7. CleanInv'
  BY <1>6 DEF CleanInv, Outdated
<1>8. deployed \ deployed' \subseteq Outdated(deployed)
  BY <1>2, <1>4
<1> QED
  BY <1>5, <1>7, <1>8

\* Every step keeps it, and deletes only what has enough newer deployments.
LEMMA CleanStep ==
  ASSUME TypeOK, CleanInv, [Next]_vars
  PROVE  /\ CleanInv'
         /\ \A x \in deployed \ deployed' :
              Cardinality({y \in deployed' : y > x}) >= MaxDeploymentsCount
<1>1. CASE UNCHANGED <<deployed, outdated>>
  BY <1>1 DEF CleanInv, Outdated
<1>2. CASE \E t \in Thread : ListDeployments(t)
  <2>1. PICK t \in Thread : ListDeployments(t)
    BY <1>2
  <2>2. PICK s \in {Outdated(deployed), {}} : outdated' = [outdated EXCEPT ![t] = s]
    BY <2>1 DEF ListDeployments
  <2>3. UNCHANGED deployed /\ outdated \in [Thread -> SUBSET (1..made)]
    BY <2>1 DEF ListDeployments, depVars, TypeOK
  <2>4. \A u \in Thread : outdated'[u] \cap deployed \subseteq Outdated(deployed)
    BY <2>2, <2>3 DEF CleanInv
  <2> QED
    BY <2>3, <2>4 DEF CleanInv, Outdated
<1>3. CASE \E t \in Thread : DeleteDeployments(t)
  BY <1>3, CleanDeleted
<1>4. CASE Ended /\ UNCHANGED outdated
  BY <1>4, CleanEnded
<1> QED
  BY <1>1, <1>2, <1>3, <1>4
     DEF Next, vars, MainStep, DeleterStep, Thread, Refresh, TargetSize,
         DecreaseTargetSize, IncreaseSize, PrepareDeployment, DeploymentSucceeds,
         DeploymentFails, ForceDeleteNodes, DeleteNodes, DeleteInstances, Tick, LateVM,
         EndsLate, Made, MadeUnfinished, depVars

\* deleteOutdatedDeployments: however many clean-ups overlap, each by a list that is
\* stale by then, a deployment is deleted only where MaxDeploymentsCount newer ones
\* remain.
THEOREM NewestTheorem == Spec => NewestKept
<1>1. Init => CleanInv
  BY DEF Init, CleanInv
<1>2. TypeOK /\ CleanInv /\ [Next]_vars => CleanInv'
  BY CleanStep
<1>3. TypeOK /\ CleanInv /\ [Next]_vars =>
        [\A x \in deployed \ deployed' :
           Cardinality({y \in deployed' : y > x}) >= MaxDeploymentsCount]_vars
  BY CleanStep
<1> QED
  BY <1>1, <1>2, <1>3, TypeCorrect, PTL DEF Spec, NewestKept

=============================================================================
