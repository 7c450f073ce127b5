-------------------------- MODULE VMDeletionProofs --------------------------
(***************************************************************************)
(* Proofs about VMDeletion, for any set of VMs and of goroutines that      *)
(* delete them: the type invariant, that no interface or disk is left      *)
(* behind without an error, and that the pool is a node group.             *)
(***************************************************************************)
EXTENDS VMDeletion, TLAPS

JobType == [todo : SUBSET VM, cur : VM \cup {None}]
Busy == {"get", "vm", "nic", "disk"}

\* What TypeOK says of a single deleter.
DeleterOK(d) == job[d].cur # None <=> pc[d] \in Busy

-----------------------------------------------------------------------------
(* Types.                                                                  *)

\* Nothing to do is a job.
LEMMA NoJobType == NoJob \in JobType /\ NoJob.cur = None
BY DEF NoJob, JobType

\* A step that moves one deleter to a label with a job that fits it keeps the
\* deleters' types.
LEMMA DeleterMoves ==
  ASSUME TypeOK, NEW d \in Deleters, NEW l \in Label, NEW j \in JobType,
         Goto(d, l), job' = [job EXCEPT ![d] = j],
         j.cur # None <=> l \in Busy
  PROVE  /\ pc' \in [Deleters -> Label] /\ job' \in [Deleters -> JobType]
         /\ \A e \in Deleters : DeleterOK(e)'
<1>1. pc \in [Deleters -> Label] /\ job \in [Deleters -> JobType]
  BY DEF TypeOK, JobType
<1>2. pc' \in [Deleters -> Label] /\ job' \in [Deleters -> JobType]
  BY <1>1 DEF Goto
<1>3. ASSUME NEW e \in Deleters PROVE DeleterOK(e)'
  <2>1. CASE e = d
    BY <1>1, <2>1 DEF Goto, DeleterOK
  <2>2. CASE e # d
    <3>1. pc'[e] = pc[e] /\ job'[e] = job[e]
      BY <1>1, <2>2 DEF Goto
    <3> QED
      BY <3>1 DEF TypeOK, DeleterOK, Busy
  <2> QED
    BY <2>1, <2>2
<1> QED
  BY <1>2, <1>3

\* The deleters' types, put together with the rest.
LEMMA TypeCombined ==
  ASSUME pc' \in [Deleters -> Label], job' \in [Deleters -> JobType],
         \A e \in Deleters : DeleterOK(e)',
         vms' \subseteq VM, nics' \subseteq VM, disks' \subseteq VM,
         list' \subseteq VM, listDoomed' \subseteq list',
         index' \subseteq VM, marked' \subseteq index',
         fresh' \in BOOLEAN, main' \in {"idle", "publish"}, failed' \subseteq VM
  PROVE  TypeOK'
BY DEF TypeOK, DeleterOK, Busy, JobType

\* deleteVirtualMachine's next call, or its return, keeps the types.
LEMMA ContinueType ==
  ASSUME TypeOK, NEW d \in Deleters, pc[d] \in Busy,
         NEW l \in {"next", "vm", "nic", "disk"}, Continue(d, l),
         vms' \subseteq VM, nics' \subseteq VM, disks' \subseteq VM
  PROVE  TypeOK'
<1>1. job \in [Deleters -> JobType] /\ job[d] \in JobType /\ job[d].cur # None
  BY DEF TypeOK, JobType, Busy
<1>2. l \in Label
  BY DEF Label
<1>3. PICK j \in JobType : /\ job' = [job EXCEPT ![d] = j]
                           /\ j.cur # None <=> l \in Busy
  <2>1. CASE l = "next"
    <3> DEFINE j == [job[d] EXCEPT !.cur = None]
    <3>1. j \in JobType /\ j.cur = None
      BY <1>1 DEF JobType
    <3>2. job' = [job EXCEPT ![d] = j]
      BY <1>1, <2>1 DEF Continue
    <3>3. l \notin Busy
      BY <2>1 DEF Busy
    <3> QED
      BY <3>1, <3>2, <3>3
  <2>2. CASE l # "next"
    <3>1. job' = [job EXCEPT ![d] = job[d]]
      BY <1>1, <2>2 DEF Continue
    <3>2. l \in Busy
      BY <2>2 DEF Busy
    <3> QED
      BY <1>1, <3>1, <3>2
  <2> QED
    BY <2>1, <2>2
<1>4. Goto(d, l)
  BY DEF Continue
<1>5. /\ pc' \in [Deleters -> Label] /\ job' \in [Deleters -> JobType]
      /\ \A e \in Deleters : DeleterOK(e)'
  BY <1>2, <1>3, <1>4, DeleterMoves
<1> QED
  BY <1>5, TypeCombined DEF Continue, TypeOK, listVars, indexVars

\* A deleter's steps keep the types.
LEMMA TypeDeleter ==
  ASSUME TypeOK, NEW d \in Deleters, DeleterStep(d)
  PROVE  TypeOK'
<1>1. /\ job \in [Deleters -> JobType] /\ job[d] \in JobType
      /\ pc[d] \in Busy => job[d].cur \in VM
  BY DEF TypeOK, JobType, Busy
<1>2. ASSUME NEW nodes \in SUBSET index, ForceDeleteNodes(d, nodes)
      PROVE  TypeOK'
  <2> DEFINE j == [NoJob EXCEPT !.todo = nodes]
  <2>1. j \in JobType /\ j.cur = None
    BY DEF NoJob, JobType, TypeOK
  <2>2. Goto(d, "verify") /\ "verify" \in Label \ Busy
        /\ job' = [job EXCEPT ![d] = j]
    BY <1>2 DEF ForceDeleteNodes, Label, Busy
  <2>3. /\ pc' \in [Deleters -> Label] /\ job' \in [Deleters -> JobType]
        /\ \A e \in Deleters : DeleterOK(e)'
    BY <2>1, <2>2, DeleterMoves
  <2> QED
    BY <1>2, <2>3, TypeCombined
       DEF ForceDeleteNodes, TypeOK, azureVars, listVars, indexVars
<1>3. CASE VerifyNodeGroup(d)
  <2>1. PICK l \in {"next", "panic"} : Goto(d, l)
    BY <1>3 DEF VerifyNodeGroup
  <2>2. l \in Label \ Busy /\ job' = [job EXCEPT ![d] = job[d]]
    BY <1>1, <1>3 DEF VerifyNodeGroup, Label, Busy
  <2>3. job[d].cur = None
    BY <1>3 DEF VerifyNodeGroup, TypeOK, At
  <2>4. /\ pc' \in [Deleters -> Label] /\ job' \in [Deleters -> JobType]
        /\ \A e \in Deleters : DeleterOK(e)'
    BY <1>1, <2>1, <2>2, <2>3, DeleterMoves
  <2> QED
    BY <1>3, <2>4, TypeCombined
       DEF VerifyNodeGroup, TypeOK, azureVars, listVars, indexVars
<1>4. ASSUME NEW i \in VM, NextInstance(d, i) PROVE TypeOK'
  <2> DEFINE j == [todo |-> job[d].todo \ {i}, cur |-> i]
  <2>1. j \in JobType /\ j.cur # None
    BY <1>1, NoneAssumption DEF JobType
  <2>2. Goto(d, "get") /\ "get" \in Label /\ "get" \in Busy
        /\ job' = [job EXCEPT ![d] = j]
    BY <1>4 DEF NextInstance, Label, Busy
  <2>3. /\ pc' \in [Deleters -> Label] /\ job' \in [Deleters -> JobType]
        /\ \A e \in Deleters : DeleterOK(e)'
    BY <2>1, <2>2, DeleterMoves
  <2>4. index' = index /\ marked' \subseteq index
    BY <1>4 DEF NextInstance, setInstanceStateByProviderID, TypeOK
  <2> QED
    BY <1>4, <2>3, <2>4, TypeCombined
       DEF NextInstance, TypeOK, azureVars, listVars
<1>5. CASE AllDeleted(d)
  <2>1. Goto(d, "idle") /\ "idle" \in Label \ Busy
        /\ job' = [job EXCEPT ![d] = NoJob]
    BY <1>5 DEF AllDeleted, Label, Busy
  <2>2. /\ pc' \in [Deleters -> Label] /\ job' \in [Deleters -> JobType]
        /\ \A e \in Deleters : DeleterOK(e)'
    BY <2>1, NoJobType, DeleterMoves
  <2> QED
    BY <1>5, <2>2, TypeCombined
       DEF AllDeleted, TypeOK, azureVars, listVars, indexVars, invalidateCache
<1>6. CASE GetVM(d)
  <2>1. PICK l \in {"next", "vm", "nic", "disk"} : Continue(d, l)
    BY <1>6 DEF GetVM
  <2> QED
    BY <1>6, <2>1, ContinueType DEF GetVM, At, Busy, TypeOK, azureVars
<1>7. CASE DeleteVM(d)
  BY <1>7, ContinueType DEF DeleteVM, At, Busy, TypeOK
<1>8. CASE DeleteNIC(d)
  BY <1>8, ContinueType DEF DeleteNIC, At, Busy, TypeOK
<1>9. CASE DeleteDisk(d)
  BY <1>9, ContinueType DEF DeleteDisk, RemoveDisk, At, Busy, TypeOK
<1>10. CASE DeletionFails(d)
  <2>1. Goto(d, "idle") /\ "idle" \in Label \ Busy
        /\ job' = [job EXCEPT ![d] = NoJob]
    BY <1>10 DEF DeletionFails, Label, Busy
  <2>2. /\ pc' \in [Deleters -> Label] /\ job' \in [Deleters -> JobType]
        /\ \A e \in Deleters : DeleterOK(e)'
    BY <2>1, NoJobType, DeleterMoves
  <2>3. vms' \subseteq VM /\ nics' \subseteq VM /\ disks' \subseteq VM
    BY <1>10 DEF DeletionFails, RemoveDisk, TypeOK, azureVars
  <2>4. failed' \subseteq VM
    BY <1>1, <1>10 DEF DeletionFails, TypeOK, Busy
  <2> QED
    BY <1>10, <2>2, <2>3, <2>4, TypeCombined
       DEF DeletionFails, TypeOK, listVars, indexVars, invalidateCache
<1> QED
  BY <1>2, <1>3, <1>4, <1>5, <1>6, <1>7, <1>8, <1>9, <1>10
     DEF DeleterStep, DeleteNodes

\* The steps of the loop, of Azure and of time, and a restart, keep the types.
LEMMA TypeOthers ==
  ASSUME TypeOK, \/ MainStep \/ Tick \/ Restart
                 \/ \E i \in VM : CreateVM(i)
  PROVE  TypeOK'
<1>1. CASE Refresh
  BY <1>1 DEF Refresh, Doomed, TypeOK, azureVars, indexVars
<1>2. CASE Publish
  BY <1>2 DEF Publish, Nodes, TypeOK, azureVars, listVars, indexVars
<1>3. CASE Tick
  BY <1>3 DEF Tick, invalidateCache, TypeOK, azureVars, listVars, indexVars
<1>4. CASE Restart
  <2>1. pc' \in [Deleters -> Label]
    BY <1>4 DEF Restart, Label
  <2>2. job' \in [Deleters -> JobType]
    BY <1>4, NoJobType DEF Restart
  <2>3. \A e \in Deleters : DeleterOK(e)'
    BY <1>4, NoJobType DEF Restart, DeleterOK, Busy
  <2>4. failed' \subseteq VM
    BY <1>4 DEF Restart, TypeOK
  <2> QED
    BY <1>4, <2>1, <2>2, <2>3, <2>4, TypeCombined
       DEF Restart, TypeOK, azureVars
<1>5. CASE \E i \in VM : CreateVM(i)
  BY <1>5 DEF CreateVM, TypeOK, listVars, indexVars
<1> QED
  BY <1>1, <1>2, <1>3, <1>4, <1>5 DEF MainStep

\* Every variable keeps its type, the index's marks are about instances it
\* has, and a deletion under way knows its VM (azure_agent_pool.go).
THEOREM TypeCorrect == Spec => []TypeOK
<1>1. Init => TypeOK
  BY NoJobType DEF Init, TypeOK, NoJob, Label
<1>2. ASSUME TypeOK, [Next]_vars PROVE TypeOK'
  <2>1. CASE UNCHANGED vars
    BY <1>2, <2>1 DEF TypeOK, vars, azureVars, listVars, indexVars
  <2>2. CASE Next
    BY <1>2, <2>2, TypeDeleter, TypeOthers DEF Next
  <2> QED
    BY <1>2, <2>1, <2>2
<1> QED
  BY <1>1, <1>2, PTL DEF Spec

-----------------------------------------------------------------------------
(* Orphans.  OrphansExplained is not inductive: the deletion of the disk   *)
(* ends a deletion, so it must be known that its interface is gone, or is  *)
(* another deletion's.                                                     *)

\* An error was returned for VM i, or a deleter is at one of the calls L for it.
ExplainedBy(i, L) ==
  i \in failed \/ \E d \in Deleters : job[d].cur = i /\ pc[d] \in L

\* The calls from which a deletion still comes to the interface, or the disk.
BeforeNIC == {"vm", "nic"}
BeforeDisk == {"vm", "nic", "disk"}

Orphans == \A i \in VM : /\ i \in nics \ vms => ExplainedBy(i, BeforeNIC)
                         /\ i \in disks \ vms => ExplainedBy(i, BeforeDisk)

\* The explanation outlasts a step of deleter d unless it is d's own call.
LEMMA OthersExplain ==
  ASSUME NEW d \in Deleters, NEW i \in VM, NEW L,
         ExplainedBy(i, L), ~(job[d].cur = i /\ pc[d] \in L),
         failed \subseteq failed',
         \A e \in Deleters \ {d} : pc'[e] = pc[e] /\ job'[e] = job[e]
  PROVE  ExplainedBy(i, L)'
BY DEF ExplainedBy

\* A step of d that takes none of Azure's resources away, from a label where d
\* explains nothing.
LEMMA QuietStep ==
  ASSUME Orphans, NEW d \in Deleters, pc[d] \notin BeforeDisk,
         UNCHANGED azureVars, failed \subseteq failed',
         \A e \in Deleters \ {d} : pc'[e] = pc[e] /\ job'[e] = job[e]
  PROVE  Orphans'
<1> SUFFICES ASSUME NEW i \in VM
             PROVE  /\ i \in nics' \ vms' => ExplainedBy(i, BeforeNIC)'
                    /\ i \in disks' \ vms' => ExplainedBy(i, BeforeDisk)'
  BY DEF Orphans
<1>1. pc[d] \notin BeforeNIC
  BY DEF BeforeNIC, BeforeDisk
<1> QED
  BY <1>1, OthersExplain DEF Orphans, azureVars

\* A deleter's steps explain the orphans they make.
LEMMA OrphansDeleter ==
  ASSUME TypeOK, Orphans, NEW d \in Deleters, DeleterStep(d)
  PROVE  Orphans'
<1> USE DEF Goto
<1>1. pc \in [Deleters -> Label] /\ job \in [Deleters -> JobType]
  BY DEF TypeOK, JobType
<1>2. ASSUME NEW nodes \in SUBSET index, ForceDeleteNodes(d, nodes)
      PROVE  Orphans'
  BY <1>1, <1>2, QuietStep DEF ForceDeleteNodes, At, BeforeDisk
<1>3. CASE VerifyNodeGroup(d)
  BY <1>1, <1>3, QuietStep DEF VerifyNodeGroup, At, BeforeDisk
<1>4. ASSUME NEW i \in VM, NextInstance(d, i) PROVE Orphans'
  BY <1>1, <1>4, QuietStep DEF NextInstance, At, BeforeDisk
<1>5. CASE AllDeleted(d)
  BY <1>1, <1>5, QuietStep DEF AllDeleted, At, BeforeDisk
<1>6. CASE GetVM(d)
  BY <1>1, <1>6, QuietStep DEF GetVM, Continue, At, BeforeDisk
<1>7. ASSUME \/ DeleteVM(d) \/ DeleteNIC(d) \/ DeleteDisk(d)
             \/ DeletionFails(d),
             NEW i \in VM
      PROVE  /\ i \in nics' \ vms' => ExplainedBy(i, BeforeNIC)'
             /\ i \in disks' \ vms' => ExplainedBy(i, BeforeDisk)'
  <2>1. /\ \A e \in Deleters \ {d} : pc'[e] = pc[e] /\ job'[e] = job[e]
        /\ failed \subseteq failed'
    BY <1>1, <1>7
       DEF DeleteVM, DeleteNIC, DeleteDisk, DeletionFails, Continue
  <2>2. vms' \subseteq vms /\ nics' \subseteq nics /\ disks' \subseteq disks
    BY <1>7 DEF DeleteVM, DeleteNIC, DeleteDisk, DeletionFails, RemoveDisk,
            azureVars
  <2>3. CASE job[d].cur # i
    <3>1. i \in vms <=> i \in vms'
      BY <1>7, <2>3
         DEF DeleteVM, DeleteNIC, DeleteDisk, DeletionFails, RemoveDisk,
            azureVars
    <3> QED
      BY <2>1, <2>2, <2>3, <3>1, OthersExplain DEF Orphans
  <2>4. CASE job[d].cur = i /\ DeleteVM(d)
    <3>1. job'[d].cur = i /\ pc'[d] = "nic"
      BY <1>1, <2>4 DEF DeleteVM, Continue
    <3> QED
      BY <3>1 DEF ExplainedBy, BeforeNIC, BeforeDisk
  <2>5. CASE job[d].cur = i /\ DeleteNIC(d)
    <3>1. job'[d].cur = i /\ pc'[d] = "disk" /\ i \notin nics'
      BY <1>1, <2>5 DEF DeleteNIC, Continue
    <3> QED
      BY <3>1 DEF ExplainedBy, BeforeDisk
  <2>6. CASE job[d].cur = i /\ DeleteDisk(d)
    <3>1. i \notin disks' /\ i \notin vms /\ pc[d] \notin BeforeNIC
      BY <2>6 DEF DeleteDisk, RemoveDisk, Detached, At, BeforeNIC
    <3> QED
      BY <2>1, <2>2, <3>1, OthersExplain DEF Orphans
  <2>7. CASE job[d].cur = i /\ DeletionFails(d)
    <3>1. i \in failed'
      BY <2>7 DEF DeletionFails
    <3> QED
      BY <3>1 DEF ExplainedBy
  <2> QED
    BY <1>7, <2>3, <2>4, <2>5, <2>6, <2>7
<1> QED
  BY <1>2, <1>3, <1>4, <1>5, <1>6, <1>7
     DEF DeleterStep, DeleteNodes, Orphans

\* No other step makes an orphan without explaining it; a crash counts every
\* deletion under way among the failed ones.
LEMMA OrphansOthers ==
  ASSUME TypeOK, Orphans, \/ MainStep \/ Tick \/ Restart
                          \/ \E i \in VM : CreateVM(i)
  PROVE  Orphans'
<1> USE DEF Orphans, ExplainedBy
<1>1. CASE Refresh
  BY <1>1 DEF Refresh, azureVars
<1>2. CASE Publish
  BY <1>2 DEF Publish, azureVars
<1>3. CASE Tick
  BY <1>3 DEF Tick, azureVars
<1>4. CASE Restart
  <2> SUFFICES ASSUME NEW i \in VM, NEW L, ExplainedBy(i, L)
               PROVE  ExplainedBy(i, L)'
    BY <1>4 DEF Restart, azureVars
  <2>1. i \in failed \cup {job[d].cur : d \in Deleters}
    OBVIOUS
  <2>2. i # None
    BY NoneAssumption
  <2>3. i \in failed'
    BY <1>4, <2>1, <2>2 DEF Restart
  <2> QED
    BY <2>3
<1>5. CASE \E i \in VM : CreateVM(i)
  BY <1>5 DEF CreateVM
<1> QED
  BY <1>1, <1>2, <1>3, <1>4, <1>5 DEF MainStep

\* deleteVirtualMachine leaves no interface or disk without a VM behind,
\* however many deletions of a VM race and whatever is created meanwhile,
\* unless it returned an error for it or the process crashed.
THEOREM NoUnexplainedOrphans == Spec => []OrphansExplained
<1>1. Init => Orphans
  BY DEF Init, Orphans
<1>2. ASSUME TypeOK, Orphans, [Next]_vars PROVE Orphans'
  <2>1. CASE UNCHANGED vars
    BY <1>2, <2>1 DEF Orphans, ExplainedBy, vars, azureVars
  <2>2. CASE Next
    BY <1>2, <2>2, OrphansDeleter, OrphansOthers DEF Next
  <2> QED
    BY <1>2, <2>1, <2>2
<1>3. TypeOK /\ Orphans => OrphansExplained
  BY DEF TypeOK, Orphans, OrphansExplained, ExplainedBy, Deleting,
         BeforeNIC, BeforeDisk
<1> QED
  BY <1>1, <1>2, <1>3, TypeCorrect, PTL DEF Spec

-----------------------------------------------------------------------------
(* The pool is a node group.                                               *)

AskedOf(d) == job[d].todo \cup ({job[d].cur} \ {None})
Asked == UNION {AskedOf(d) : d \in Deleters}

\* A deleter that is idle has no instances left to do.
IdleDone == \A d \in Deleters : At(d, "idle") => job[d].todo = {}

\* A step keeps that: a job ends when all is done, or is given up as a whole.
LEMMA IdleDoneStep ==
  ASSUME TypeOK, IdleDone, [Next]_vars
  PROVE  IdleDone'
<1> USE DEF At, Goto
<1>0. pc \in [Deleters -> Label] /\ job \in [Deleters -> JobType]
  BY DEF TypeOK, JobType
<1>1. CASE UNCHANGED <<pc, job>>
  BY <1>1 DEF IdleDone
<1>2. ASSUME NEW d \in Deleters, NEW j \in JobType, NEW l,
             pc' = [pc EXCEPT ![d] = l], job' = [job EXCEPT ![d] = j],
             l = "idle" => j.todo = {}
      PROVE  IdleDone'
  BY <1>0, <1>2 DEF IdleDone
<1>3. ASSUME NEW d \in Deleters, DeleterStep(d) PROVE IdleDone'
  <2>1. job[d] \in JobType /\ NoJob \in JobType /\ NoJob.todo = {}
    BY <1>0, NoJobType DEF NoJob
  <2>2. CASE AllDeleted(d) \/ DeletionFails(d)
    BY <1>2, <2>1, <2>2 DEF AllDeleted, DeletionFails
  <2>3. ASSUME NEW nodes \in SUBSET index, ForceDeleteNodes(d, nodes)
        PROVE  IdleDone'
    <3>1. [NoJob EXCEPT !.todo = nodes] \in JobType
      BY DEF NoJob, JobType, TypeOK
    <3> QED
      BY <1>2, <2>3, <3>1 DEF ForceDeleteNodes
  <2>4. ASSUME NEW i \in VM, NextInstance(d, i) PROVE IdleDone'
    <3>1. [todo |-> job[d].todo \ {i}, cur |-> i] \in JobType
      BY <2>1 DEF JobType
    <3> QED
      BY <1>2, <2>4, <3>1 DEF NextInstance
  <2>5. CASE VerifyNodeGroup(d)
    <3>1. PICK l \in {"next", "panic"} : pc' = [pc EXCEPT ![d] = l]
      BY <2>5 DEF VerifyNodeGroup
    <3>2. job' = [job EXCEPT ![d] = job[d]]
      BY <1>0, <2>5 DEF VerifyNodeGroup
    <3> QED
      BY <1>2, <2>1, <3>1, <3>2
  <2>6. ASSUME NEW l \in {"next", "vm", "nic", "disk"}, Continue(d, l)
        PROVE  IdleDone'
    <3>1. PICK j \in JobType : job' = [job EXCEPT ![d] = j]
      <4>1. [job[d] EXCEPT !.cur = None] \in JobType
        BY <2>1 DEF JobType
      <4>2. \/ job' = [job EXCEPT ![d] = [job[d] EXCEPT !.cur = None]]
            \/ job' = [job EXCEPT ![d] = job[d]]
        BY <1>0, <2>6 DEF Continue
      <4> QED
        BY <2>1, <4>1, <4>2
    <3> QED
      BY <1>2, <2>6, <3>1 DEF Continue
  <2> QED
    BY <1>3, <2>2, <2>3, <2>4, <2>5, <2>6
       DEF DeleterStep, DeleteNodes, GetVM, DeleteVM, DeleteNIC, DeleteDisk
<1>4. CASE Restart
  BY <1>4 DEF Restart, IdleDone, NoJob
<1>5. CASE MainStep \/ Tick \/ UNCHANGED vars \/ \E i \in VM : CreateVM(i)
  BY <1>1, <1>5 DEF MainStep, Refresh, Publish, Tick, CreateVM, vars
<1> QED
  BY <1>3, <1>4, <1>5 DEF Next

\* An idle thread has nothing left to delete, at any time.
LEMMA IdleDoneInvariant == Spec => []IdleDone
<1>1. Init => IdleDone
  BY DEF Init, IdleDone, NoJob
<1> QED
  BY <1>1, IdleDoneStep, TypeCorrect, PTL DEF Spec

\* A deletion goes on: it removes at most a VM it still had to, and asks for no
\* more than before.
LEMMA ShrinkStep ==
  ASSUME vms' \subseteq vms, vms \ vms' \subseteq Asked,
         \A d \in Deleters : AskedOf(d)' \subseteq AskedOf(d)
  PROVE  Group!Next
<1>1. Asked' \subseteq Asked
  BY DEF Asked
<1> QED
  BY <1>1 DEF Group!Next, Group!Shrink, Asked, AskedOf

\* Every step of a deleter is one of a node group.
LEMMA NodeGroupDeleter ==
  ASSUME TypeOK, IdleDone, NEW d \in Deleters, DeleterStep(d)
  PROVE  Group!Next
<1> USE DEF At, Goto
<1>0. pc \in [Deleters -> Label] /\ job \in [Deleters -> JobType]
  BY DEF TypeOK, JobType
<1>1. ASSUME NEW nodes \in SUBSET index, ForceDeleteNodes(d, nodes)
      PROVE  Group!Next
  <2>1. AskedOf(d) = {}
    BY <1>1 DEF ForceDeleteNodes, IdleDone, TypeOK, AskedOf
  <2>2. \A e \in Deleters \ {d} : AskedOf(e)' = AskedOf(e)
    BY <1>0, <1>1 DEF ForceDeleteNodes, AskedOf
  <2>3. AskedOf(d)' = nodes /\ nodes \subseteq VM
    BY <1>0, <1>1 DEF ForceDeleteNodes, AskedOf, NoJob, TypeOK
  <2>4. \A e \in Deleters : AskedOf(e) \subseteq VM
    BY DEF AskedOf, TypeOK
  <2>5. Asked \subseteq Asked' /\ Asked' \subseteq VM
    BY <2>1, <2>2, <2>3, <2>4 DEF Asked
  <2> QED
    BY <1>1, <2>5
       DEF Group!Next, Group!DeleteNodes, Asked, AskedOf, ForceDeleteNodes,
           azureVars
<1>2. ASSUME vms' \subseteq vms, vms \ vms' \subseteq AskedOf(d),
             NEW j \in JobType, job' = [job EXCEPT ![d] = j],
             j.todo \cup ({j.cur} \ {None}) \subseteq AskedOf(d)
      PROVE  Group!Next
  <2>1. \A e \in Deleters : AskedOf(e)' \subseteq AskedOf(e)
    BY <1>0, <1>2 DEF AskedOf
  <2>2. vms \ vms' \subseteq Asked
    BY <1>2 DEF Asked
  <2> QED
    BY <1>2, <2>1, <2>2, ShrinkStep
<1>3. job[d] \in JobType /\ NoJob \in JobType
      /\ NoJob.todo \cup ({NoJob.cur} \ {None}) = {}
  BY <1>0, NoJobType DEF NoJob
<1>4. CASE VerifyNodeGroup(d)
  <2>1. job' = [job EXCEPT ![d] = job[d]] /\ UNCHANGED vms
    BY <1>0, <1>4 DEF VerifyNodeGroup, azureVars
  <2> QED
    BY <1>2, <1>3, <2>1 DEF AskedOf
<1>5. ASSUME NEW i \in VM, NextInstance(d, i) PROVE Group!Next
  <2> DEFINE j == [todo |-> job[d].todo \ {i}, cur |-> i]
  <2>1. j \in JobType /\ job' = [job EXCEPT ![d] = j] /\ UNCHANGED vms
    BY <1>3, <1>5 DEF NextInstance, JobType, azureVars
  <2>2. j.todo \cup ({j.cur} \ {None}) \subseteq AskedOf(d)
    BY <1>5 DEF NextInstance, AskedOf
  <2> QED
    BY <1>2, <2>1, <2>2
<1>6. CASE AllDeleted(d)
  BY <1>2, <1>3, <1>6 DEF AllDeleted, azureVars
<1>7. ASSUME NEW l, Continue(d, l), pc[d] \in Busy,
             vms' = vms \/ vms' = vms \ {job[d].cur}
      PROVE  Group!Next
  <2>1. job[d].cur # None
    BY <1>7 DEF TypeOK, Busy
  <2>2. PICK j \in {job[d], [job[d] EXCEPT !.cur = None]} :
          job' = [job EXCEPT ![d] = j]
    BY <1>0, <1>7 DEF Continue
  <2>3. j \in JobType /\ j.todo \cup ({j.cur} \ {None}) \subseteq AskedOf(d)
    BY <1>3, <2>2 DEF AskedOf, JobType
  <2>4. vms' \subseteq vms /\ vms \ vms' \subseteq AskedOf(d)
    BY <1>7, <2>1 DEF AskedOf
  <2> QED
    BY <1>2, <2>2, <2>3, <2>4
<1>8. CASE GetVM(d) \/ DeleteVM(d) \/ DeleteNIC(d) \/ DeleteDisk(d)
  BY <1>7, <1>8 DEF GetVM, DeleteVM, DeleteNIC, DeleteDisk, RemoveDisk, Busy,
     azureVars
<1>9. CASE DeletionFails(d)
  <2>1. job[d].cur # None
    BY <1>9 DEF DeletionFails, TypeOK
  <2>2. vms' \subseteq vms /\ vms \ vms' \subseteq AskedOf(d)
    BY <1>9, <2>1 DEF DeletionFails, RemoveDisk, AskedOf, azureVars
  <2> QED
    BY <1>2, <1>3, <1>9, <2>2 DEF DeletionFails
<1> QED
  BY <1>1, <1>4, <1>5, <1>6, <1>8, <1>9 DEF DeleterStep, DeleteNodes

\* Deletion by deletion, call by call, an AgentPool is a node group: however
\* many deletions race, fail half-way or are cut short by a crash, no VM goes
\* but those that a DeleteNodes still under way has named.
THEOREM Refinement == Spec => IsNodeGroup
<1>1. Init => Group!Init
  BY DEF Init, Group!Init, NoJob
<1>2. ASSUME TypeOK, IdleDone, [Next]_vars
      PROVE  [Group!Next]_(Group!vars)
  <2>1. CASE UNCHANGED <<vms, job>>
    BY <2>1, ShrinkStep DEF AskedOf
  <2>2. CASE \E d \in Deleters : DeleterStep(d)
    BY <1>2, <2>2, NodeGroupDeleter
  <2>3. CASE Restart
    <3>1. \A d \in Deleters : AskedOf(d)' = {} /\ UNCHANGED vms
      BY <2>3 DEF Restart, AskedOf, NoJob, azureVars
    <3> QED
      BY <3>1, ShrinkStep, <2>3 DEF Restart, azureVars
  <2>4. CASE \E i \in VM : CreateVM(i)
    <3>1. vms \subseteq vms' /\ vms' \subseteq VM /\ UNCHANGED job
      BY <1>2, <2>4 DEF CreateVM, TypeOK
    <3> QED
      BY <3>1 DEF Group!Next, Group!Grow
  <2>5. CASE MainStep \/ Tick \/ UNCHANGED vars
    BY <2>1, <2>5 DEF MainStep, Refresh, Publish, Tick, vars, azureVars
  <2> QED
    BY <1>2, <2>2, <2>3, <2>4, <2>5 DEF Next
<1> QED
  BY <1>1, <1>2, TypeCorrect, IdleDoneInvariant, PTL
     DEF Spec, IsNodeGroup, Group!Spec

=============================================================================
