------------------------ MODULE InstanceCacheProofs ------------------------
(***************************************************************************)
(* Proofs about InstanceCache, for every set of instances and deleters.    *)
(***************************************************************************)
EXTENDS InstanceCache, TLAPS

\* What MarkSticks rests on: a VM that Azure is deleting reports it, or
\* reports that it is being updated.
DoomedInv == \A i \in doomed : vm[i] \in {"Updating", "Deleting"}

-----------------------------------------------------------------------------
(* Lemmas about the operators.                                             *)

\* No thread is both the autoscaler's loop and a deleter.
LEMMA Threads == /\ Main \in Thread
                 /\ \A d \in Deleters : d \in Thread /\ d # Main
BY DeletersAssumption DEF Thread

\* Whatever Azure answers, the list made of it is well-formed.
LEMMA ListsType == ASSUME TypeOK PROVE Lists \subseteq ListType
<1>1. \A i \in Inst : FromProvisioningState(i) \in Status
  BY DEF FromProvisioningState, Status
<1>2. \A i \in Inst : instanceStatusFromVM(i) \in Status
  BY <1>1 DEF instanceStatusFromVM, Status, TypeOK, ListType, Absent
<1> QED
  BY <1>1, <1>2 DEF Lists, Listed, ListType

\* Validating the list keeps it well-formed.
LEMMA ValidateType ==
  ASSUME TypeOK, NEW out, NEW list,
         validateInstanceCache(out, list) \/ updateInstanceCache(out, list)
  PROVE  list \in ListType /\ instValid' \in BOOLEAN
<1>1. list \in Lists \cup {instanceCache}
  BY DEF validateInstanceCache, updateInstanceCache
<1>2. list \in ListType
  BY <1>1, ListsType DEF TypeOK
<1>3. instValid' \in {TRUE, instValid}
  BY DEF validateInstanceCache, updateInstanceCache
<1>4. instValid' \in BOOLEAN
  BY <1>3, Zenon DEF TypeOK
<1> QED
  BY <1>2, <1>4

\* Rebuilding the list keeps what the threads hold well-formed.
LEMMA RegAfterType ==
  ASSUME TypeOK, NEW out
  PROVE  RegAfter(out) \in [Thread -> RegType]
<1>1. \A t \in Thread : [reg[t] EXCEPT !.alias = FALSE] \in RegType
  BY DEF TypeOK, RegType
<1> QED
  BY <1>1 DEF RegAfter, TypeOK

\* A thread's label, if it is one.
LEMMA GotoType ==
  ASSUME TypeOK, NEW t \in Thread, NEW l \in Label, Goto(t, l)
  PROVE  /\ pc' \in [Thread -> Label]
         /\ pc'[t] = l
         /\ \A u \in Thread \ {t} : pc'[u] = pc[u]
BY DEF Goto, TypeOK

\* The deleters' jobs are named where they are needed.
JobsNamed ==
  \A d \in Deleters :
    pc[d] \in {"verify", "check", "send", "mark", "markIndex", "wait", "rewait"}
      => job[d].inst \in Inst

\* Moving one thread where no instance is needed keeps the jobs named.
LEMMA JobsKept ==
  ASSUME TypeOK, NEW t \in Thread, NEW l \in Label, Goto(t, l),
         \A d \in Deleters \ {t} : job'[d] = job[d],
         \/ l \in {"idle", "list", "read", "publish", "drop", "panic"}
         \/ t \in Deleters /\ job'[t].inst \in Inst
         \/ t = Main
  PROVE  JobsNamed'
BY GotoType, Threads DEF JobsNamed, TypeOK

\* Leaving a job keeps the types.
LEMMA FinishType ==
  ASSUME TypeOK, NEW d \in Deleters, Finish(d)
  PROVE  /\ pc' \in [Thread -> Label]
         /\ job' \in [Deleters -> JobType]
         /\ JobsNamed'
<1>1. NoJob \in JobType
  BY DEF NoJob, JobType
<1>2. job' \in [Deleters -> JobType] /\ \A e \in Deleters \ {d} : job'[e] = job[e]
  BY <1>1 DEF Finish, TypeOK
<1>3. Goto(d, "idle") /\ "idle" \in Label
  BY DEF Finish, Label
<1> QED
  BY <1>2, <1>3, GotoType, JobsKept, Threads

\* Ending a refresh keeps the types.
LEMMA EndRefreshType ==
  ASSUME TypeOK, NEW t \in Thread, EndRefresh(t)
  PROVE  /\ pc' \in [Thread -> Label]
         /\ job' \in [Deleters -> JobType]
         /\ JobsNamed'
<1>1. CASE t = Main
  <2>1. Goto(t, "idle") /\ UNCHANGED job /\ "idle" \in Label
    BY <1>1 DEF EndRefresh, Label
  <2> QED
    BY <2>1, GotoType, JobsKept DEF TypeOK
<1>2. CASE t # Main /\ job[t].ok
  <2>1. Goto(t, "drop") /\ UNCHANGED job /\ "drop" \in Label
    BY <1>2 DEF EndRefresh, Label
  <2> QED
    BY <2>1, GotoType, JobsKept DEF TypeOK
<1>3. CASE t # Main /\ ~job[t].ok
  <2>1. Finish(t) /\ t \in Deleters
    BY <1>3 DEF EndRefresh, Thread
  <2> QED
    BY <2>1, FinishType
<1> QED
  BY <1>1, <1>2, <1>3

\* TypeOK in the words of the lemmas above.
LEMMA TypeParts ==
  ASSUME vm' \in [Inst -> VMState], doomed' \subseteq Inst,
         instanceCache' \in ListType, instValid' \in BOOLEAN,
         index' \subseteq Inst,
         states' \in [Inst -> (Status \ {"nil"}) \cup {Absent}],
         pc' \in [Thread -> Label], reg' \in [Thread -> RegType],
         job' \in [Deleters -> JobType], JobsNamed'
  PROVE  TypeOK'
BY Zenon DEF TypeOK, JobsNamed

\* A step that moves one thread, and touches neither the VMs, the list, the
\* index nor what the threads hold, keeps the types.
LEMMA MoveType ==
  ASSUME TypeOK, UNCHANGED <<vm, doomed, cacheVars, indexVars, reg>>,
         pc' \in [Thread -> Label], job' \in [Deleters -> JobType], JobsNamed'
  PROVE  TypeOK'
<1>1. UNCHANGED <<vm, doomed, instanceCache, instValid, index, states, reg>>
  BY DEF cacheVars, indexVars
<1> QED
  BY <1>1, TypeParts, Zenon DEF TypeOK

-----------------------------------------------------------------------------
(* Type correctness.                                                       *)

\* Initially every variable has its type.
LEMMA TypeInit == Init => TypeOK
<1> SUFFICES ASSUME Init PROVE TypeOK
  OBVIOUS
<1>1. Nothing \in ListType /\ NoReg \in RegType /\ NoJob \in JobType
  BY DEF Nothing, ListType, NoReg, RegType, NoJob, JobType
<1>2. instValid \in BOOLEAN
  BY DEF Init
<1>3. states \in [Inst -> (Status \ {"nil"}) \cup {Absent}]
  BY DEF Init, Nothing
<1>4. vm \in [Inst -> VMState]
  BY DEF Init, VMState
<1>5. pc \in [Thread -> Label] /\ \A d \in Deleters : pc[d] = "idle"
  BY Threads DEF Init, Label
<1>6. reg \in [Thread -> RegType] /\ job \in [Deleters -> JobType]
  BY <1>1 DEF Init
<1>7. instanceCache \in ListType /\ doomed \subseteq Inst /\ index \subseteq Inst
  BY <1>1 DEF Init
<1> QED
  BY <1>2, <1>3, <1>4, <1>5, <1>6, <1>7 DEF TypeOK

\* Azure's acceptance of a deletion keeps its own state well-formed.
LEMMA AcceptType ==
  ASSUME TypeOK, NEW i \in Inst, AcceptDelete(i)
  PROVE  vm' \in [Inst -> VMState] /\ doomed' \subseteq Inst
BY DEF AcceptDelete, TypeOK, VMState

\* A rebuild of the index keeps the types.
LEMMA TypeRegenerating ==
  ASSUME TypeOK, NEW t \in Thread, Regenerating(t)
  PROVE  TypeOK'
<1>1. CASE NodesOf(t)
  <2>1. PICK out \in Outcome, list \in Lists \cup {instanceCache} :
          /\ validateInstanceCache(out, list) \/ updateInstanceCache(out, list)
          /\ instanceCache' = list
          /\ IF out = "error"
             THEN EndRefresh(t) /\ UNCHANGED reg
             ELSE /\ Goto(t, "read")
                  /\ reg' = [RegAfter(out) EXCEPT
                               ![t] = [list |-> list, alias |-> TRUE]]
                  /\ UNCHANGED job
    BY <1>1 DEF NodesOf
  <2>2. instanceCache' \in ListType /\ list \in ListType
    BY <2>1, ValidateType
  <2>3. instValid' \in BOOLEAN
    BY <2>1, ValidateType
  <2>4. UNCHANGED <<vm, doomed, index, states>>
    BY <1>1 DEF NodesOf, indexVars
  <2>5. CASE out = "error"
    BY <2>1, <2>2, <2>3, <2>4, <2>5, EndRefreshType, TypeParts, Zenon DEF TypeOK
  <2>6. CASE out # "error"
    <3>1. Goto(t, "read") /\ "read" \in Label /\ UNCHANGED job
      BY <2>1, <2>6 DEF Label
    <3>2. [list |-> list, alias |-> TRUE] \in RegType
      BY <2>2 DEF RegType
    <3>3. reg' \in [Thread -> RegType]
      BY <2>1, <2>6, <3>2, RegAfterType
    <3>4. pc' \in [Thread -> Label] /\ JobsNamed'
      BY <3>1, GotoType, JobsKept
    <3> QED
      BY <2>2, <2>3, <2>4, <3>1, <3>3, <3>4, TypeParts, Zenon DEF TypeOK
  <2> QED
    BY <2>5, <2>6
<1>2. CASE VMSSMissing(t)
  <2>1. Goto(t, "read") /\ "read" \in Label /\ UNCHANGED job
    BY <1>2 DEF VMSSMissing, Label
  <2>2. NoReg \in RegType
    BY DEF NoReg, RegType, Nothing, ListType
  <2>3. reg' \in [Thread -> RegType]
    BY <1>2, <2>2 DEF VMSSMissing, TypeOK
  <2>4. pc' \in [Thread -> Label] /\ JobsNamed'
    BY <2>1, GotoType, JobsKept
  <2>5. UNCHANGED <<vm, doomed, instanceCache, instValid, index, states>>
    BY <1>2 DEF VMSSMissing, cacheVars, indexVars
  <2> QED
    BY <2>1, <2>3, <2>4, <2>5, TypeParts, Zenon DEF TypeOK
<1>3. CASE FetchFails(t)
  BY <1>3, EndRefreshType, MoveType DEF FetchFails
<1>4. CASE ReadList(t)
  <2>1. Goto(t, "publish") /\ "publish" \in Label /\ UNCHANGED job
    BY <1>4 DEF ReadList, Label
  <2>2. reg' \in [Thread -> RegType]
    BY <1>4 DEF ReadList, TypeOK, RegType
  <2>3. pc' \in [Thread -> Label] /\ JobsNamed'
    BY <2>1, GotoType, JobsKept
  <2>4. UNCHANGED <<vm, doomed, instanceCache, instValid, index, states>>
    BY <1>4 DEF ReadList, cacheVars, indexVars
  <2> QED
    BY <2>1, <2>2, <2>3, <2>4, TypeParts, Zenon DEF TypeOK
<1>5. CASE PublishIndex(t)
  <2>1. reg[t].list \in ListType
    BY DEF TypeOK, RegType
  <2>2. states' \in [Inst -> (Status \ {"nil"}) \cup {Absent}]
    BY <1>5, <2>1 DEF PublishIndex, ListType
  <2>3. NoReg \in RegType
    BY DEF NoReg, RegType, Nothing, ListType
  <2>4. reg' \in [Thread -> RegType]
    BY <1>5, <2>3 DEF PublishIndex, TypeOK
  <2>5. index' \subseteq Inst
    BY <1>5 DEF PublishIndex
  <2>6. UNCHANGED <<vm, doomed, instanceCache, instValid>> /\ EndRefresh(t)
    BY <1>5 DEF PublishIndex, cacheVars
  <2> QED
    BY <2>2, <2>4, <2>5, <2>6, EndRefreshType, TypeParts, Zenon DEF TypeOK
<1> QED
  BY <1>1, <1>2, <1>3, <1>4, <1>5 DEF Regenerating

\* A DeleteInstances keeps the types.
LEMMA TypeDeleting ==
  ASSUME TypeOK, NEW d \in Deleters, Deleting(d)
  PROVE  TypeOK'
<1>t. d \in Thread
  BY Threads
<1>1. ASSUME NEW i \in Inst, Belongs(d, i) PROVE TypeOK'
  <2>1. Goto(d, "verify") /\ "verify" \in Label
    BY <1>1 DEF Belongs, Label
  <2>2. [inst |-> i, ok |-> FALSE] \in JobType
    BY DEF JobType
  <2>3. /\ job' \in [Deleters -> JobType] /\ job'[d].inst \in Inst
        /\ \A e \in Deleters \ {d} : job'[e] = job[e]
    BY <1>1, <2>2 DEF Belongs, TypeOK
  <2>4. pc' \in [Thread -> Label] /\ JobsNamed'
    BY <1>t, <2>1, <2>3, GotoType, JobsKept
  <2> QED
    BY <1>1, <2>3, <2>4, MoveType DEF Belongs
<1>2. CASE VerifyNodeGroup(d)
  <2>1. PICK l \in {"check", "panic"} : Goto(d, l)
    BY <1>2 DEF VerifyNodeGroup
  <2>2. l \in Label /\ UNCHANGED job /\ job[d].inst \in Inst
    BY <1>2 DEF VerifyNodeGroup, Label, TypeOK, At
  <2>3. pc' \in [Thread -> Label] /\ JobsNamed'
    BY <1>t, <2>1, <2>2, GotoType, JobsKept
  <2>4. job' \in [Deleters -> JobType]
    BY <2>2 DEF TypeOK
  <2> QED
    BY <1>2, <2>3, <2>4, MoveType DEF VerifyNodeGroup
<1>3. CASE SkipDeleting(d)
  <2>1. PICK out \in Outcome, list \in Lists \cup {instanceCache} :
          /\ validateInstanceCache(out, list)
          /\ instanceCache' = list
          /\ reg' = RegAfter(out)
          /\ Finish(d) \/ (Goto(d, "send") /\ UNCHANGED job)
    BY <1>3 DEF SkipDeleting
  <2>2. instanceCache' \in ListType
    BY <2>1, ValidateType
  <2>3. instValid' \in BOOLEAN
    BY <2>1, ValidateType
  <2>4. UNCHANGED <<vm, doomed, index, states>> /\ reg' \in [Thread -> RegType]
    BY <1>3, <2>1, RegAfterType DEF SkipDeleting, indexVars
  <2>5. job[d].inst \in Inst /\ "send" \in Label
    BY <1>3 DEF SkipDeleting, TypeOK, At, Label
  <2>6. /\ pc' \in [Thread -> Label]
        /\ job' \in [Deleters -> JobType]
        /\ JobsNamed'
    <3>1. CASE Finish(d)
      BY <3>1, FinishType
    <3>2. CASE Goto(d, "send") /\ UNCHANGED job
      BY <1>t, <3>2, <2>5, GotoType, JobsKept DEF TypeOK
    <3> QED
      BY <2>1, <3>1, <3>2
  <2> QED
    BY <2>2, <2>3, <2>4, <2>6, TypeParts, Zenon DEF TypeOK
<1>4. CASE SendDelete(d)
  <2>1. PICK l \in {"wait", "mark"} : Goto(d, l)
    BY <1>4 DEF SendDelete
  <2>2. l \in Label /\ UNCHANGED job /\ job[d].inst \in Inst
    BY <1>4 DEF SendDelete, Label, TypeOK, At
  <2>3. pc' \in [Thread -> Label] /\ JobsNamed'
    BY <1>t, <2>1, <2>2, GotoType, JobsKept
  <2>4. vm' \in [Inst -> VMState] /\ doomed' \subseteq Inst
    BY <1>4, <2>2, AcceptType DEF SendDelete
  <2>5. UNCHANGED <<instanceCache, instValid, index, states, reg>>
    BY <1>4 DEF SendDelete, cacheVars, indexVars
  <2> QED
    BY <2>2, <2>3, <2>4, <2>5, TypeParts, Zenon DEF TypeOK
<1>5. CASE SendFails(d)
  <2>1. job[d].inst \in Inst
    BY <1>5 DEF SendFails, TypeOK, At
  <2>2. vm' \in [Inst -> VMState] /\ doomed' \subseteq Inst
    BY <1>5, <2>1, AcceptType DEF SendFails, TypeOK
  <2>3. UNCHANGED <<instanceCache, instValid, index, states, reg>> /\ Finish(d)
    BY <1>5 DEF SendFails, cacheVars, indexVars
  <2> QED
    BY <2>2, <2>3, FinishType, TypeParts, Zenon DEF TypeOK
<1>6. CASE MarkInstance(d)
  <2>1. PICK out \in Outcome, list \in Lists \cup {instanceCache} :
          /\ validateInstanceCache(out, list)
          /\ instanceCache' = InPlace(list, job[d].inst)
          /\ reg' = [t \in Thread |->
                       IF RegAfter(out)[t].alias
                       THEN [reg[t] EXCEPT !.list = InPlace(@, job[d].inst)]
                       ELSE RegAfter(out)[t]]
    BY <1>6 DEF MarkInstance
  <2>2. job[d].inst \in Inst
    BY <1>6 DEF MarkInstance, TypeOK, At
  <2>3. \A x \in ListType : InPlace(x, job[d].inst) \in ListType
    BY <2>2 DEF InPlace, ListType, Status
  <2>4. instanceCache' \in ListType
    BY <2>1, <2>3, ValidateType
  <2>5. instValid' \in BOOLEAN
    BY <2>1, ValidateType
  <2>6. \A t \in Thread : [reg[t] EXCEPT !.list = InPlace(@, job[d].inst)] \in RegType
    BY <2>3 DEF TypeOK, RegType
  <2>7. reg' \in [Thread -> RegType]
    BY <2>1, <2>6, RegAfterType
  <2>8. /\ Goto(d, "markIndex") /\ "markIndex" \in Label
        /\ UNCHANGED <<vm, doomed, index, states, job>>
    BY <1>6 DEF MarkInstance, indexVars, Label
  <2>9. pc' \in [Thread -> Label] /\ JobsNamed'
    BY <1>t, <2>2, <2>8, GotoType, JobsKept
  <2> QED
    BY <2>4, <2>5, <2>7, <2>8, <2>9, TypeParts, Zenon DEF TypeOK
<1>7. CASE MarkIndex(d)
  <2>1. /\ Goto(d, "wait") /\ "wait" \in Label
        /\ UNCHANGED <<vm, doomed, instanceCache, instValid, index, reg, job>>
    BY <1>7 DEF MarkIndex, cacheVars, Label
  <2>2. job[d].inst \in Inst
    BY <1>7 DEF MarkIndex, TypeOK, At
  <2>3. states' \in [Inst -> (Status \ {"nil"}) \cup {Absent}]
    BY <1>7 DEF MarkIndex, setInstanceStateByProviderID, TypeOK, Status
  <2>4. pc' \in [Thread -> Label] /\ JobsNamed'
    BY <1>t, <2>1, <2>2, GotoType, JobsKept
  <2> QED
    BY <2>1, <2>3, <2>4, TypeParts, Zenon DEF TypeOK
<1> QED
  BY <1>1, <1>2, <1>3, <1>4, <1>5, <1>6, <1>7 DEF Deleting

\* A waiter keeps the types.
LEMMA TypeWaiting ==
  ASSUME TypeOK, NEW d \in Deleters, Waiting(d)
  PROVE  TypeOK'
<1>t. d \in Thread
  BY Threads
<1>1. CASE DeleteDone(d)
  <2>1. CASE StrictCacheUpdates
    <3>1. Goto(d, "list") /\ job' = [job EXCEPT ![d].ok = TRUE] /\ "list" \in Label
      BY <1>1, <2>1 DEF DeleteDone, Label
    <3>2. /\ job' \in [Deleters -> JobType]
          /\ \A e \in Deleters \ {d} : job'[e] = job[e]
      BY <3>1 DEF TypeOK, JobType
    <3>3. pc' \in [Thread -> Label] /\ JobsNamed'
      BY <1>t, <3>1, <3>2, GotoType, JobsKept
    <3> QED
      BY <1>1, <3>2, <3>3, MoveType DEF DeleteDone
  <2>2. CASE ~StrictCacheUpdates
    BY <1>1, <2>2, FinishType, MoveType DEF DeleteDone
  <2> QED
    BY <2>1, <2>2
<1>2. CASE RetryDelete(d)
  <2>1. /\ Goto(d, "rewait") /\ "rewait" \in Label
        /\ UNCHANGED <<instanceCache, instValid, index, states, reg, job>>
    BY <1>2 DEF RetryDelete, Label, cacheVars, indexVars
  <2>2. job[d].inst \in Inst
    BY <1>2 DEF RetryDelete, TypeOK, At
  <2>3. vm' \in [Inst -> VMState] /\ doomed' \subseteq Inst
    BY <1>2, <2>2, AcceptType DEF RetryDelete
  <2>4. pc' \in [Thread -> Label] /\ JobsNamed'
    BY <1>t, <2>1, <2>2, GotoType, JobsKept
  <2> QED
    BY <2>1, <2>3, <2>4, TypeParts, Zenon DEF TypeOK
<1>3. CASE RetryDone(d)
  <2>1. Goto(d, "drop") /\ "drop" \in Label /\ UNCHANGED job
    BY <1>3 DEF RetryDone, Label
  <2>2. pc' \in [Thread -> Label] /\ JobsNamed'
    BY <1>t, <2>1, GotoType, JobsKept
  <2>3. job' \in [Deleters -> JobType]
    BY <2>1 DEF TypeOK
  <2> QED
    BY <1>3, <2>2, <2>3, MoveType DEF RetryDone
<1>4. CASE DeleteFails(d)
  <2>1. /\ Goto(d, "list") /\ "list" \in Label
        /\ UNCHANGED <<vm, doomed, instanceCache, index, states, reg, job>>
    BY <1>4 DEF DeleteFails, Label, indexVars
  <2>2. instValid' \in BOOLEAN
    BY <1>4 DEF DeleteFails
  <2>3. pc' \in [Thread -> Label] /\ JobsNamed'
    BY <1>t, <2>1, GotoType, JobsKept
  <2> QED
    BY <2>1, <2>2, <2>3, TypeParts, Zenon DEF TypeOK
<1>5. CASE DropList(d)
  <2>1. UNCHANGED <<vm, doomed, instanceCache, index, states, reg>> /\ Finish(d)
    BY <1>5 DEF DropList, indexVars
  <2>2. instValid' \in BOOLEAN
    BY <1>5 DEF DropList
  <2> QED
    BY <2>1, <2>2, FinishType, TypeParts, Zenon DEF TypeOK
<1> QED
  BY <1>1, <1>2, <1>3, <1>4, <1>5 DEF Waiting

\* Every step keeps the types.
LEMMA TypeStep == TypeOK /\ [Next]_vars => TypeOK'
<1> SUFFICES ASSUME TypeOK, [Next]_vars PROVE TypeOK'
  OBVIOUS
<1>1. CASE Azure
  <2>1. UNCHANGED <<instanceCache, instValid, index, states, pc, reg, job>>
    BY <1>1 DEF Azure, cacheVars, indexVars
  <2>2. vm' \in [Inst -> VMState]
    BY <1>1 DEF Azure, VMMoves, TypeOK, VMState
  <2>3. doomed' \subseteq Inst
    BY <1>1 DEF Azure, TypeOK
  <2> QED
    BY <2>1, <2>2, <2>3, Zenon DEF TypeOK
<1>2. CASE invalidateInstanceCache
  <2>1. UNCHANGED <<vm, doomed, instanceCache, index, states, pc, reg, job>>
    BY <1>2 DEF invalidateInstanceCache, indexVars
  <2>2. instValid' \in BOOLEAN
    BY <1>2 DEF invalidateInstanceCache
  <2> QED
    BY <2>1, <2>2, Zenon DEF TypeOK
<1>3. CASE Refresh
  <2>1. Goto(Main, "list") /\ "list" \in Label /\ UNCHANGED job
    BY <1>3 DEF Refresh, Label
  <2>2. pc' \in [Thread -> Label] /\ JobsNamed' /\ job' \in [Deleters -> JobType]
    BY <2>1, GotoType, JobsKept, Threads DEF TypeOK
  <2> QED
    BY <1>3, <2>2, MoveType DEF Refresh
<1>4. CASE Restart
  <2>1. Nothing \in ListType /\ NoReg \in RegType /\ NoJob \in JobType
    BY DEF Nothing, ListType, NoReg, RegType, NoJob, JobType
  <2>2. instValid' \in BOOLEAN
    BY <1>4 DEF Restart
  <2>3. states' \in [Inst -> (Status \ {"nil"}) \cup {Absent}]
    BY <1>4 DEF Restart, Nothing
  <2>4. pc' \in [Thread -> Label] /\ JobsNamed'
    BY <1>4, Threads DEF Restart, Label, JobsNamed
  <2>5. reg' \in [Thread -> RegType] /\ job' \in [Deleters -> JobType]
    BY <1>4, <2>1 DEF Restart
  <2>6. instanceCache' \in ListType /\ index' \subseteq Inst /\ UNCHANGED <<vm, doomed>>
    BY <1>4, <2>1 DEF Restart
  <2> QED
    BY <2>2, <2>3, <2>4, <2>5, <2>6, TypeParts, Zenon DEF TypeOK
<1>5. CASE UNCHANGED vars
  BY <1>5, Zenon DEF vars, TypeOK
<1> QED
  BY <1>1, <1>2, <1>3, <1>4, <1>5, TypeRegenerating, TypeDeleting, TypeWaiting
     DEF Next

\* Every variable of the instance caches keeps its type in every interleaving
\* of rebuilds, deletions and waiters.
THEOREM TypeCorrect == Spec => []TypeOK
BY TypeInit, TypeStep, PTL DEF Spec

-----------------------------------------------------------------------------
(* The states follow the index.                                            *)

\* A step keeps the states aligned: only a published rebuild and a marked
\* deletion change either, and both look at the index.
LEMMA AlignedStep == TypeOK /\ StatesAligned /\ [Next]_vars => StatesAligned'
<1> SUFFICES ASSUME TypeOK, StatesAligned, [Next]_vars PROVE StatesAligned'
  OBVIOUS
<1>1. CASE UNCHANGED indexVars
  BY <1>1 DEF indexVars, StatesAligned
<1>2. ASSUME NEW t \in Thread, PublishIndex(t) PROVE StatesAligned'
  BY <1>2 DEF PublishIndex, StatesAligned
<1>3. ASSUME NEW d \in Deleters, MarkIndex(d) PROVE StatesAligned'
  BY <1>3 DEF MarkIndex, setInstanceStateByProviderID, StatesAligned, TypeOK
<1>4. CASE Restart
  BY <1>4 DEF Restart, Nothing, StatesAligned
<1>5. \/ UNCHANGED indexVars \/ Restart
      \/ \E t \in Thread : PublishIndex(t)
      \/ \E d \in Deleters : MarkIndex(d)
  <2>1. CASE Azure \/ invalidateInstanceCache \/ Refresh \/ UNCHANGED vars
    BY <2>1 DEF Azure, invalidateInstanceCache, Refresh, vars, indexVars
  <2>2. ASSUME NEW t \in Thread, Regenerating(t)
        PROVE  UNCHANGED indexVars \/ PublishIndex(t)
    BY <2>2 DEF Regenerating, NodesOf, VMSSMissing, FetchFails, ReadList
  <2>3. ASSUME NEW d \in Deleters, Deleting(d)
        PROVE  UNCHANGED indexVars \/ MarkIndex(d)
    BY <2>3 DEF Deleting, Belongs, VerifyNodeGroup, SkipDeleting, SendDelete,
                SendFails, MarkInstance
  <2>4. ASSUME NEW d \in Deleters, Waiting(d) PROVE UNCHANGED indexVars
    BY <2>4 DEF Waiting, DeleteDone, RetryDelete, RetryDone, DeleteFails, DropList
  <2> QED
    BY <2>1, <2>2, <2>3, <2>4 DEF Next
<1> QED
  BY <1>1, <1>2, <1>3, <1>4, <1>5

\* HasInstance may index instanceStates with the key it finds in
\* instanceToNodeGroup: no state is kept for an instance the index does not
\* hold, whatever rebuild a deletion's mark races with.
THEOREM AlignedTheorem == Spec => []StatesAligned
<1>1. Init => StatesAligned
  BY DEF Init, Nothing, StatesAligned
<1> QED
  BY <1>1, AlignedStep, TypeCorrect, PTL DEF Spec

-----------------------------------------------------------------------------
(* A mark outlives the VM's update.                                        *)

\* Azure accepts a deletion: the VM is in one of the two states.
LEMMA DoomedAccept ==
  ASSUME TypeOK, DoomedInv, NEW i \in Inst, AcceptDelete(i)
  PROVE  DoomedInv'
BY DEF AcceptDelete, DoomedInv, TypeOK

\* Every step keeps DoomedInv.
LEMMA DoomedStep == TypeOK /\ DoomedInv /\ [Next]_vars => DoomedInv'
<1> SUFFICES ASSUME TypeOK, DoomedInv, [Next]_vars PROVE DoomedInv'
  OBVIOUS
<1>1. CASE UNCHANGED <<vm, doomed>>
  BY <1>1 DEF DoomedInv
<1>2. CASE Azure
  BY <1>2 DEF Azure, DoomedInv
<1>3. ASSUME NEW d \in Deleters, AcceptDelete(job[d].inst), job[d].inst \in Inst
      PROVE  DoomedInv'
  BY <1>3, DoomedAccept
<1>4. \/ UNCHANGED <<vm, doomed>> \/ Azure
      \/ \E d \in Deleters : AcceptDelete(job[d].inst) /\ job[d].inst \in Inst
  <2>1. CASE invalidateInstanceCache \/ Refresh \/ Restart \/ UNCHANGED vars
    BY <2>1 DEF invalidateInstanceCache, Refresh, Restart, vars
  <2>2. ASSUME NEW t \in Thread, Regenerating(t) PROVE UNCHANGED <<vm, doomed>>
    BY <2>2 DEF Regenerating, NodesOf, VMSSMissing, FetchFails, ReadList, PublishIndex
  <2>3. ASSUME NEW d \in Deleters, Deleting(d)
        PROVE  \/ UNCHANGED <<vm, doomed>>
               \/ AcceptDelete(job[d].inst) /\ job[d].inst \in Inst
    BY <2>3 DEF Deleting, Belongs, VerifyNodeGroup, SkipDeleting, SendDelete,
                SendFails, MarkInstance, MarkIndex, TypeOK, At
  <2>4. ASSUME NEW d \in Deleters, Waiting(d)
        PROVE  \/ UNCHANGED <<vm, doomed>>
               \/ AcceptDelete(job[d].inst) /\ job[d].inst \in Inst
    BY <2>4 DEF Waiting, DeleteDone, RetryDelete, RetryDone, DeleteFails,
                DropList, TypeOK, At
  <2> QED
    BY <2>1, <2>2, <2>3, <2>4 DEF Next
<1> QED
  BY <1>1, <1>2, <1>3, <1>4

\* In a Uniform scale set, an instance listed as being deleted while its VM is
\* Updating or Deleting is listed so again.
LEMMA MarkListed ==
  ASSUME ~Flexible, ~EnableDetailedCSEMessage, TypeOK, DoomedInv,
         NEW out, NEW list,
         validateInstanceCache(out, list) \/ updateInstanceCache(out, list),
         NEW i \in doomed, instanceCache[i] = "Deleting"
  PROVE  i \in Inst /\ list[i] \in {"Deleting", Absent}
<1>1. i \in Inst /\ vm[i] \in {"Updating", "Deleting"}
  BY DEF TypeOK, DoomedInv
<1>2. instanceStatusFromVM(i) = "Deleting"
  BY <1>1 DEF instanceStatusFromVM, FromProvisioningState, Absent
<1>3. \A hidden : Listed(hidden)[i] \in {"Deleting", Absent}
  BY <1>1, <1>2 DEF Listed
<1> QED
  BY <1>1, <1>3 DEF validateInstanceCache, updateInstanceCache, Lists

\* No step takes the mark of an instance that is being deleted away.
LEMMA MarkStep ==
  ASSUME ~Flexible, ~EnableDetailedCSEMessage
  PROVE  TypeOK /\ DoomedInv /\ [Next]_vars =>
           [\A i \in doomed \cap doomed' : instanceCache[i] = "Deleting"
              => instanceCache'[i] \in {"Deleting", Absent}]_vars
<1> SUFFICES ASSUME TypeOK, DoomedInv, [Next]_vars,
                    NEW i \in doomed, instanceCache[i] = "Deleting"
             PROVE  instanceCache'[i] \in {"Deleting", Absent}
  OBVIOUS
<1>i. i \in Inst
  BY DEF TypeOK
<1>1. CASE UNCHANGED instanceCache
  BY <1>1
<1>2. CASE Restart
  BY <1>2, <1>i DEF Restart, Nothing
<1>3. ASSUME NEW t \in Thread, NodesOf(t)
      PROVE  instanceCache'[i] \in {"Deleting", Absent}
  BY <1>3, MarkListed DEF NodesOf
<1>4. ASSUME NEW d \in Deleters, SkipDeleting(d)
      PROVE  instanceCache'[i] \in {"Deleting", Absent}
  BY <1>4, MarkListed DEF SkipDeleting
<1>5. ASSUME NEW d \in Deleters, MarkInstance(d)
      PROVE  instanceCache'[i] \in {"Deleting", Absent}
  <2>1. PICK out, list : /\ validateInstanceCache(out, list)
                         /\ instanceCache' = InPlace(list, job[d].inst)
    BY <1>5 DEF MarkInstance
  <2>2. list[i] \in {"Deleting", Absent} /\ list \in ListType
    BY <2>1, MarkListed, ValidateType
  <2> QED
    BY <1>i, <2>1, <2>2 DEF InPlace, ListType
<1>6. \/ UNCHANGED instanceCache \/ Restart
      \/ \E t \in Thread : NodesOf(t)
      \/ \E d \in Deleters : SkipDeleting(d) \/ MarkInstance(d)
  <2>1. CASE Azure \/ invalidateInstanceCache \/ Refresh \/ UNCHANGED vars
    BY <2>1 DEF Azure, invalidateInstanceCache, Refresh, vars, cacheVars
  <2>2. ASSUME NEW t \in Thread, Regenerating(t)
        PROVE  UNCHANGED instanceCache \/ NodesOf(t)
    BY <2>2 DEF Regenerating, VMSSMissing, FetchFails, ReadList, PublishIndex, cacheVars
  <2>3. ASSUME NEW d \in Deleters, Deleting(d)
        PROVE  UNCHANGED instanceCache \/ SkipDeleting(d) \/ MarkInstance(d)
    BY <2>3 DEF Deleting, Belongs, VerifyNodeGroup, SendDelete, SendFails,
                MarkIndex, cacheVars
  <2>4. ASSUME NEW d \in Deleters, Waiting(d) PROVE UNCHANGED instanceCache
    BY <2>4 DEF Waiting, DeleteDone, RetryDelete, RetryDone, DeleteFails,
                DropList, cacheVars
  <2> QED
    BY <2>1, <2>2, <2>3, <2>4 DEF Next
<1> QED
  BY <1>1, <1>2, <1>3, <1>4, <1>5, <1>6

\* In a Uniform scale set whose CSE failures are not reported, an instance
\* listed as being deleted is not listed otherwise for as long as Azure is
\* deleting it.  (InstancesCSE shows that the second assumption is needed.)
THEOREM MarkTheorem ==
  ASSUME ~Flexible, ~EnableDetailedCSEMessage
  PROVE  Spec => MarkSticks
<1>1. Init => DoomedInv
  BY DEF Init, DoomedInv
<1> QED
  BY <1>1, DoomedStep, MarkStep, TypeCorrect, PTL DEF Spec, MarkSticks

=============================================================================
