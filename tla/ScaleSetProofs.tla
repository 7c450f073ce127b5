--------------------------- MODULE ScaleSetProofs ---------------------------
(***************************************************************************)
(* Proofs about ScaleSet, for every number of deleters, every size, period *)
(* and bound.                                                              *)
(***************************************************************************)
EXTENDS ScaleSet, TLAPS

(* The inductive invariants.                                               *)

\* What CapacityWithinMax rests on: the target of a running increase is within
\* the maximum, and undoing the latest deletion stays within it too.
CapacityInv ==
  /\ vmss.cap <= MaxSize
  /\ call.target <= MaxSize
  /\ \A d \in Deleters :
       /\ job[d].etag <= vmss.etag
       /\ job[d].etag = vmss.etag => vmss.cap + job[d].gone <= MaxSize

\* What NoRejectedSizeLeft and SuccessIsEarned rest on: which of Main's two
\* objects may be unbacked where, and which of them is still in the cache.
BackedInv ==
  /\ cached # NoObj /\ ~objs[cached].backed
       => /\ cached = held.obj
          /\ call.kind = "plain"
          /\ pc[Main] \in {"put", "retryGet", "retrySet", "rollback", "carry"}
  /\ pc[Main] \in {"retrySet", "retryPut"} => objs[held.eff].backed
  /\ pc[Main] = "retrySet" => held.eff # held.obj
  /\ pc[Main] = "retryPut" => cached # held.obj
  /\ pc[Main] = "carry" => /\ held.obj # NoObj
                           /\ \/ held.eff = held.obj /\ call.poller # 0
                              \/ cached # held.obj
  /\ pc[Main] \in {"carry", "publish"} =>
       \/ call.poller # 0
       \/ objs[held.eff].backed /\ objs[held.eff].cap >= call.target
  /\ pc[Main] = "poll" => call.poller # 0

\* What RetryNeverShrinks rests on: the object fetched for the retry is Main's
\* own, and as long as its ETag is the VMSS's, so is its capacity.
RetryInv ==
  /\ pc[Main] \in {"retryGet", "retrySet", "retryPut"} => EnableVMSSEtag
  /\ pc[Main] \in {"retrySet", "retryPut"} =>
       /\ \A p \in puts : p.obj # held.eff
       /\ objs[held.eff].etag <= vmss.etag
       /\ vmss.live /\ objs[held.eff].etag = vmss.etag
            => objs[held.eff].cap = vmss.cap
  /\ pc[Main] = "retryPut" => objs[held.eff].cap < call.target

-----------------------------------------------------------------------------
(* Lemmas about the operators.                                             *)

\* The periods of the code are positive, so MaxAge is an age that both reach.
LEMMA MaxAgeType == /\ MaxAge \in Nat
                    /\ RefreshInterval \in 0..MaxAge
                    /\ EffectiveSizeRefreshPeriod <= MaxAge
BY PeriodsAssumption, FlagsAssumption
   DEF MaxAge, EffectiveSizeRefreshPeriod

\* A fetch returns a well-formed object.
LEMMA FetchedType == ASSUME TypeOK PROVE Fetched \in ObjType
BY FlagsAssumption DEF TypeOK, Fetched, ObjType, VmssType

\* So does the GET of a Spot scale set, however old its answer.
LEMMA AnswersType == ASSUME TypeOK, NEW f \in Answers
                     PROVE  f \in ObjType /\ f.cap \in Nat /\ f.backed
<1>1. PICK c \in 0..MaxSize, b \in {TRUE},
           e \in IF EnableVMSSEtag THEN 0..vmss.etag ELSE {0} :
        f = [cap |-> c, backed |-> b, etag |-> e]
  BY DEF Answers
<1>2. c \in Nat /\ e \in Nat /\ (~EnableVMSSEtag => e = 0) /\ b = TRUE
  BY SizesAssumption, FlagsAssumption DEF TypeOK, VmssType
<1> QED
  BY <1>1, <1>2, FlagsAssumption DEF ObjType

\* Garbage collection keeps the heap well-formed.
LEMMA HeapType == ASSUME NEW h \in [Obj -> ObjType], Heap(h)
                  PROVE  objs' \in [Obj -> ObjType]
<1>1. Blank \in ObjType
  BY DEF Blank, ObjType
<1> QED
  BY <1>1 DEF Heap

\* Writing one object leaves the heap well-formed.
LEMMA HeapWriteType == ASSUME NEW h \in [Obj -> ObjType], NEW o \in Obj,
                              NEW v \in ObjType, Heap([h EXCEPT ![o] = v])
                       PROVE  objs' \in [Obj -> ObjType]
<1>1. [h EXCEPT ![o] = v] \in [Obj -> ObjType]
  OBVIOUS
<1> QED
  BY <1>1, HeapType

\* getCurSize and a failed look-up keep the types of what they touch.
LEMMA GetCurSizeType ==
  ASSUME TypeOK, getCurSize
  PROVE  /\ objs' \in [Obj -> ObjType]
         /\ cached' \in Obj \cup {NoObj}
         /\ curSize' \in Nat \cup {-1}
         /\ sizeAge' \in 0..MaxAge
<1>1. CASE UNCHANGED <<sizeVars, cacheVars>>
  BY <1>1 DEF TypeOK, sizeVars, cacheVars
<1>2. CASE /\ ~SizeFresh /\ ~Spot
           /\ curSize' = objs[cached].cap /\ sizeAge' = 0
           /\ UNCHANGED cacheVars
  BY <1>2, MaxAgeType DEF TypeOK, cacheVars, ObjType, getCurSize
<1>3. CASE /\ \E o \in Obj, f \in Answers : /\ cached' = o
                                           /\ Heap([objs EXCEPT ![o] = f])
                                           /\ curSize' = f.cap
           /\ sizeAge' = 0
  <2>1. PICK o \in Obj, f \in Answers : /\ cached' = o
                                        /\ Heap([objs EXCEPT ![o] = f])
                                        /\ curSize' = f.cap
    BY <1>3
  <2>2. f \in ObjType /\ f.cap \in Nat
    BY AnswersType DEF ObjType
  <2>3. objs' \in [Obj -> ObjType]
    BY <2>1, <2>2, HeapWriteType DEF TypeOK
  <2>4. sizeAge' \in 0..MaxAge
    BY <1>3, MaxAgeType
  <2> QED
    BY <2>1, <2>2, <2>3, <2>4
<1> QED
  BY <1>1, <1>2, <1>3 DEF getCurSize

\* Initially every variable has its type.
LEMMA TypeInit == Init => TypeOK
<1> SUFFICES ASSUME Init PROVE TypeOK
  OBVIOUS
<1>1. Fetched \in ObjType /\ Blank \in ObjType
  BY SizesAssumption, FlagsAssumption DEF Init, Fetched, Blank, ObjType
<1>2. objs \in [Obj -> ObjType] /\ cached \in Obj
  BY <1>1 DEF Init
<1>3. vmss \in VmssType
  <2>1. MinSize..MaxSize \subseteq Nat /\ {TRUE} \subseteq BOOLEAN /\ {1} \subseteq Nat
    BY SizesAssumption
  <2>2. vmss \in [live : {TRUE}, cap : MinSize..MaxSize, etag : {1}]
    BY DEF Init
  <2> QED
    BY <2>1, <2>2, Zenon DEF VmssType
<1>4. curSize \in Nat \cup {-1}
  BY <1>3 DEF Init, VmssType
<1>5. job \in [Deleters -> JobType]
  BY DEF Init, NoJob, JobType
<1>6. call \in CallType /\ held \in HeldType /\ puts \subseteq PutType
  BY DEF Init, NoCall, NoHeld, CallType, HeldType
<1>7. pc = [t \in Thread |-> "idle"] /\ pc[Main] = "idle"
                                    /\ pc \in [Thread -> Label]
  BY DEF Init, Thread, Label
<1>8. instValid \in BOOLEAN
  BY DEF Init
<1>9. sizeAge \in 0..MaxAge /\ mgrAge \in 0..MaxAge
  BY MaxAgeType DEF Init
<1> QED
  BY <1>2, <1>3, <1>4, <1>5, <1>6, <1>7, <1>8, <1>9 DEF TypeOK, PointersOK

\* A thread moves to a label; the others stay.
LEMMA GotoType == ASSUME TypeOK, NEW t \in Thread, NEW l \in Label, Goto(t, l)
                  PROVE  /\ pc' \in [Thread -> Label]
                         /\ pc'[t] = l
                         /\ \A u \in Thread \ {t} : pc'[u] = pc[u]
BY DEF TypeOK, Goto

\* Main's return leaves no pointer behind.
LEMMA ReturnType == ASSUME TypeOK, Return
                    PROVE  /\ pc' \in [Thread -> Label] /\ pc'[Main] = "idle"
                           /\ call' \in CallType /\ held' \in HeldType
                           /\ PointersOK'
<1>1. pc' \in [Thread -> Label] /\ pc'[Main] = "idle"
  BY GotoType DEF Return, Thread, Label
<1> QED
  BY <1>1 DEF Return, NoCall, NoHeld, CallType, HeldType, PointersOK

\* A step of a deleter leaves Main where it was.
LEMMA DeleterGoto == ASSUME TypeOK, NEW d \in Deleters, NEW l \in Label,
                            Goto(d, l)
                     PROVE  /\ pc' \in [Thread -> Label]
                            /\ pc'[d] = l /\ pc'[Main] = pc[Main]
BY GotoType, ThreadsAssumption DEF Thread

\* A write that Azure accepts.
LEMMA ServerWriteType == ASSUME TypeOK, NEW c \in Nat, ServerWrite(c)
                         PROVE  /\ vmss' \in VmssType
                                /\ vmss'.cap = c
                                /\ vmss'.etag = vmss.etag + 1
                                /\ vmss'.live = vmss.live
<1>1. vmss \in [live : BOOLEAN, cap : Nat, etag : Nat]
  BY DEF TypeOK, VmssType
<1>2. vmss' = [vmss EXCEPT !.cap = c, !.etag = vmss.etag + 1]
  BY DEF ServerWrite
<1>3. vmss' = [live |-> vmss.live, cap |-> c, etag |-> vmss.etag + 1]
  BY <1>1, <1>2
<1>4. vmss.live \in BOOLEAN /\ vmss.etag + 1 \in Nat
  BY <1>1
<1> QED
  BY <1>3, <1>4 DEF VmssType

\* A failed update leaves the VMSS alone or takes capacity back.
LEMMA FailUpdateType == ASSUME TypeOK, NEW from \in Nat, NEW etag \in Nat,
                               FailUpdate(from, etag)
                        PROVE  \/ UNCHANGED vmss
                               \/ /\ vmss' \in VmssType
                                  /\ vmss'.cap \in Nat /\ vmss'.cap <= vmss.cap
                                  /\ vmss'.etag = vmss.etag + 1
<1>1. PICK c \in AfterFailedUpdate(from, etag) :
           IF c = vmss.cap THEN UNCHANGED vmss ELSE ServerWrite(c)
  BY DEF FailUpdate
<1>2. c \in Nat /\ c <= vmss.cap
  BY <1>1 DEF AfterFailedUpdate, TypeOK, VmssType
<1> QED
  BY <1>1, <1>2, ServerWriteType DEF TypeOK, VmssType

\* The PUT of a running increase, accepted.
LEMMA AcceptType == ASSUME TypeOK, NEW o \in Obj, Accept(o)
                    PROVE  /\ vmss' \in VmssType
                           /\ vmss'.cap = call.target
                           /\ vmss'.etag = vmss.etag + 1
                           /\ vmss'.live = vmss.live
<1>1. call.target \in Nat
  BY DEF TypeOK, CallType
<1> QED
  BY <1>1, ServerWriteType DEF Accept

\* The accepted PUT keeps the types: Main goes on with a live object.
LEMMA AcceptedType == ASSUME TypeOK, NEW o \in Obj, Accepted(o)
                      PROVE  TypeOK'
<1>1. vmss' \in VmssType /\ vmss'.etag \in Nat /\ vmss.cap \in Nat
  BY AcceptType DEF Accepted, VmssType, TypeOK
<1>2. call' \in CallType
  BY <1>1 DEF Accepted, TypeOK, CallType
<1>3. held' \in HeldType /\ held'.eff # NoObj
  BY ObjAssumption DEF Accepted, TypeOK, HeldType, NoObj
<1>4. pc' \in [Thread -> Label] /\ pc'[Main] \in {"poll", "carry"}
  BY GotoType DEF Accepted, Thread, Label
<1> QED
  BY <1>1, <1>2, <1>3, <1>4
     DEF Accepted, TypeOK, PointersOK, cacheVars, sizeVars

\* initCreateOrUpdate's error returns.
LEMMA FailedType == ASSUME TypeOK, Failed, held.obj # NoObj
                    PROVE  /\ pc' \in [Thread -> Label]
                           /\ call' \in CallType /\ held' \in HeldType
                           /\ objs' \in [Obj -> ObjType]
                           /\ PointersOK'
<1>1. CASE call.kind = "plain"
  <2>1. pc' \in [Thread -> Label] /\ pc'[Main] = "rollback"
    BY <1>1, GotoType DEF Failed, Thread, Label
  <2> QED
    BY <1>1, <2>1 DEF Failed, TypeOK, PointersOK
<1>2. CASE call.kind # "plain"
  BY <1>2, ReturnType, HeapType DEF Failed, TypeOK
<1> QED
  BY <1>1, <1>2

\* What the steps of every thread may change of an unrelated part.
LEMMA ReplaceScaleSetsType ==
  ASSUME TypeOK, ReplaceScaleSets
  PROVE  /\ objs' \in [Obj -> ObjType] /\ cached' \in Obj \cup {NoObj}
<1>1. CASE \E o \in Obj : /\ Free(o)
                          /\ cached' = o
                          /\ Heap([objs EXCEPT ![o] = Fetched])
  <2>1. objs' \in [Obj -> ObjType]
    BY <1>1, FetchedType, HeapWriteType DEF TypeOK
  <2>2. cached' \in Obj
    BY <1>1
  <2> QED
    BY <2>1, <2>2
<1>2. CASE cached' = NoObj /\ Heap(objs)
  <2>1. objs' \in [Obj -> ObjType]
    BY <1>2, HeapType DEF TypeOK
  <2> QED
    BY <1>2, <2>1
<1> QED
  BY <1>1, <1>2 DEF ReplaceScaleSets

\* forceRefresh returns with its caller idle and its job done.
LEMMA ForceRefreshType ==
  ASSUME TypeOK, NEW t \in Thread, NEW err \in BOOLEAN, NEW inst \in BOOLEAN,
         ForceRefreshReturns(t, err, inst), pc[t] \in {"fetch", "regen"}
  PROVE  /\ pc' \in [Thread -> Label] /\ instValid' \in BOOLEAN
         /\ mgrAge' \in 0..MaxAge /\ job' \in [Deleters -> JobType]
         /\ held' = held => PointersOK'
<1>1. pc' \in [Thread -> Label] /\ pc'[t] = "idle"
      /\ \A u \in Thread \ {t} : pc'[u] = pc[u]
  BY GotoType DEF ForceRefreshReturns, Label
<1>2. instValid' \in BOOLEAN
  BY DEF ForceRefreshReturns
<1>3. mgrAge' \in 0..MaxAge
  BY MaxAgeType DEF ForceRefreshReturns, TypeOK, invalidateCache
<1>4. NoJob \in JobType
  BY DEF NoJob, JobType
<1>5. job' \in [Deleters -> JobType]
  BY <1>4 DEF ForceRefreshReturns, TypeOK
<1>6. held' = held => PointersOK'
  <2>1. Main \in Thread
    BY DEF Thread
  <2> QED
    BY <1>1, <2>1 DEF PointersOK, TypeOK
<1> QED
  BY <1>1, <1>2, <1>3, <1>5, <1>6

\* A failed size read changes nothing.
LEMMA GetVMSSFailedType ==
  ASSUME TypeOK, NEW nf \in BOOLEAN, GetVMSSFailed(nf)
  PROVE  UNCHANGED <<curSize, sizeAge, objs, cached>>
BY DEF GetVMSSFailed, sizeVars, cacheVars

\* Nodes() changes no more than getCurSize does.
LEMMA NodesReturnsType ==
  ASSUME TypeOK, NEW ok \in BOOLEAN, NEW inst \in BOOLEAN,
         NodesReturns(ok, inst)
  PROVE  /\ objs' \in [Obj -> ObjType] /\ cached' \in Obj \cup {NoObj}
         /\ curSize' \in Nat \cup {-1} /\ sizeAge' \in 0..MaxAge
<1>1. CASE getCurSize
  BY <1>1, GetCurSizeType
<1>2. CASE \E nf \in BOOLEAN : GetVMSSFailed(nf)
  BY <1>2, GetVMSSFailedType DEF TypeOK
<1> QED
  BY <1>1, <1>2 DEF NodesReturns

\* The steps outside an increase and a deletion keep the types.
LEMMA TypeEnvironment == ASSUME TypeOK, Environment PROVE TypeOK'
<1>1. CASE Tick
  <2>1. sizeAge' \in 0..MaxAge /\ mgrAge' \in 0..MaxAge
    BY <1>1, MaxAgeType DEF Tick, Older, TypeOK
  <2>2. instValid' \in BOOLEAN
    BY <1>1 DEF Tick, TypeOK
  <2> QED
    BY <1>1, <2>1, <2>2 DEF Tick, TypeOK, PointersOK, cacheVars, mainVars
<1>2. CASE OtherWriter
  <2>1. PICK c \in 0..MaxSize : ServerWrite(c)
    BY <1>2 DEF OtherWriter
  <2>2. vmss' \in VmssType
    BY <2>1, ServerWriteType, SizesAssumption
  <2> QED
    BY <1>2, <2>2 DEF OtherWriter, TypeOK, PointersOK, cacheVars, sizeVars,
                      mainVars
<1>3. CASE VMSSRemoved
  <2>1. vmss' \in VmssType
    BY <1>3 DEF VMSSRemoved, TypeOK, VmssType
  <2> QED
    BY <1>3, <2>1 DEF VMSSRemoved, TypeOK, PointersOK, cacheVars, sizeVars,
                      mainVars
<1> QED
  BY <1>1, <1>2, <1>3 DEF Environment

\* The instance cache is valid or not after a size read.
LEMMA InstAfterSizeType == ASSUME TypeOK PROVE InstAfterSize \in BOOLEAN
BY DEF InstAfterSize

\* Reading the size and refreshing keep the types.
LEMMA TypeReading ==
  ASSUME TypeOK, NEW t \in Thread,
         \/ TargetSize(t) \/ DecreaseTargetSize \/ Nodes \/ Refresh
         \/ FetchOK(t) \/ FetchFails(t) \/ Regenerate(t)
  PROVE  TypeOK'
<1>1. CASE TargetSize(t)
  BY <1>1, GetCurSizeType, InstAfterSizeType
     DEF TargetSize, TypeOK, PointersOK, mainVars
<1>2. CASE DecreaseTargetSize
  <2>1. /\ objs' \in [Obj -> ObjType] /\ cached' \in Obj \cup {NoObj}
        /\ curSize' \in Nat \cup {-1} /\ sizeAge' \in 0..MaxAge
    <3>1. CASE getCurSize
      BY <3>1, GetCurSizeType
    <3>2. CASE \E nf \in BOOLEAN : GetVMSSFailed(nf)
      BY <3>2, GetVMSSFailedType DEF TypeOK
    <3> QED
      BY <1>2, <3>1, <3>2 DEF DecreaseTargetSize
  <2>2. instValid' \in BOOLEAN
    BY <1>2 DEF DecreaseTargetSize
  <2> QED
    BY <1>2, <2>1, <2>2 DEF DecreaseTargetSize, TypeOK, PointersOK, mainVars
<1>3. CASE Nodes
  <2>1. PICK ok \in BOOLEAN, inst \in BOOLEAN : /\ NodesReturns(ok, inst)
                                                /\ instValid' = inst
    BY <1>3 DEF Nodes
  <2>2. instValid' \in BOOLEAN
    BY <2>1
  <2> QED
    BY <1>3, <2>1, <2>2, NodesReturnsType
       DEF Nodes, TypeOK, PointersOK, mainVars
<1>4. CASE Refresh
  <2>1. pc' \in [Thread -> Label] /\ pc'[Main] = "fetch"
    BY <1>4, GotoType DEF Refresh, Thread, Label
  <2> QED
    BY <1>4, <2>1 DEF Refresh, TypeOK, PointersOK, cacheVars, sizeVars, mainVars
<1>5. CASE FetchOK(t)
  <2>1. /\ pc' \in [Thread -> Label] /\ pc'[t] = "regen"
        /\ \A u \in Thread \ {t} : pc'[u] = pc[u]
    BY <1>5, GotoType DEF FetchOK, Label
  <2>2. PointersOK'
    <3>1. Main \in Thread
      BY DEF Thread
    <3> QED
      BY <1>5, <2>1, <3>1 DEF FetchOK, TypeOK, PointersOK, mainVars
  <2> QED
    BY <1>5, <2>1, <2>2, ReplaceScaleSetsType
       DEF FetchOK, TypeOK, sizeVars, mainVars
<1>6. CASE FetchFails(t)
  <2>1. /\ pc' \in [Thread -> Label] /\ instValid' \in BOOLEAN
        /\ mgrAge' \in 0..MaxAge /\ job' \in [Deleters -> JobType]
        /\ PointersOK'
    <3>1. instValid \in BOOLEAN /\ TRUE \in BOOLEAN
      BY DEF TypeOK
    <3> QED
      BY <1>6, <3>1, ForceRefreshType DEF FetchFails, At, mainVars
  <2>2. /\ objs' \in [Obj -> ObjType] /\ cached' \in Obj \cup {NoObj}
    <3>1. CASE ReplaceScaleSets
      BY <3>1, ReplaceScaleSetsType
    <3>2. CASE UNCHANGED cacheVars
      BY <3>2 DEF TypeOK, cacheVars
    <3> QED
      BY <1>6, <3>1, <3>2 DEF FetchFails
  <2> QED
    BY <1>6, <2>1, <2>2 DEF FetchFails, TypeOK, sizeVars, mainVars
<1>7. CASE Regenerate(t)
  <2>1. PICK ok \in BOOLEAN, inst \in BOOLEAN :
             NodesReturns(ok, inst) /\ ForceRefreshReturns(t, ~ok, inst)
    BY <1>7 DEF Regenerate
  <2>2. /\ pc' \in [Thread -> Label] /\ instValid' \in BOOLEAN
        /\ mgrAge' \in 0..MaxAge /\ job' \in [Deleters -> JobType]
        /\ PointersOK'
    <3>1. (~ok) \in BOOLEAN
      OBVIOUS
    <3> QED
      BY <1>7, <2>1, <3>1, ForceRefreshType DEF Regenerate, At, mainVars
  <2> QED
    BY <1>7, <2>1, <2>2, NodesReturnsType DEF Regenerate, TypeOK, mainVars
<1> QED
  BY <1>1, <1>2, <1>3, <1>4, <1>5, <1>6, <1>7

\* The steps of an increase keep the types.
LEMMA TypeIncrease == ASSUME TypeOK, IncreaseStep PROVE TypeOK'
<1> USE DEF At
<1>0. Main \in Thread /\ held.obj \in Obj \cup {NoObj}
      /\ held.eff \in Obj \cup {NoObj}
  BY DEF Thread, TypeOK, HeldType
<1>1. ASSUME NEW delta \in Deltas, NEW kind \in {"plain", "atomic"},
             BeginIncrease(kind, delta)
      PROVE  TypeOK'
  <2>1. /\ objs' \in [Obj -> ObjType] /\ cached' \in Obj \cup {NoObj}
        /\ curSize' \in Nat \cup {-1} /\ sizeAge' \in 0..MaxAge
    BY <1>1, GetCurSizeType DEF BeginIncrease
  <2>2. pc' \in [Thread -> Label] /\ pc'[Main] = "sized"
    BY <1>1, <1>0, GotoType DEF BeginIncrease, Label
  <2>3. curSize' + delta \in Nat
    BY <1>1, <2>1, SizesAssumption DEF BeginIncrease, canIncreaseSize
  <2>4. call' \in CallType
    BY <1>1, <2>3 DEF BeginIncrease, NoCall, CallType
  <2>5. instValid' \in BOOLEAN
    BY <1>1, InstAfterSizeType DEF BeginIncrease
  <2> QED
    BY <1>1, <2>1, <2>2, <2>4, <2>5 DEF BeginIncrease, TypeOK, PointersOK
<1>2. CASE LoadVMSS
  <2>1. CASE cached = NoObj /\ Return /\ UNCHANGED objs
    BY <1>2, <2>1, ReturnType DEF LoadVMSS, EagerUpdate, TypeOK, sizeVars
  <2>2. CASE /\ cached # NoObj
             /\ held' = [NoHeld EXCEPT !.obj = cached]
             /\ Goto(Main, "put")
             /\ IF call.kind = "plain"
                THEN /\ call' = [call EXCEPT !.prev = objs[cached].cap]
                     /\ objs' = [objs EXCEPT ![cached].cap = call.target,
                                             ![cached].backed = FALSE]
                ELSE UNCHANGED <<call, objs>>
    <3>1. pc' \in [Thread -> Label] /\ pc'[Main] = "put"
      BY <2>2, <1>0, GotoType DEF Label
    <3>2. held' \in HeldType /\ held'.obj # NoObj
      BY <2>2 DEF NoHeld, HeldType, TypeOK
    <3>3. call.target \in Nat /\ objs[cached] \in ObjType /\ cached \in Obj
      BY <2>2 DEF TypeOK, CallType
    <3>4. call' \in CallType
      BY <2>2, <3>3 DEF CallType, ObjType, TypeOK
    <3>5. objs' \in [Obj -> ObjType]
      BY <2>2, <3>3 DEF ObjType, TypeOK
    <3> QED
      BY <1>2, <3>1, <3>2, <3>4, <3>5
         DEF LoadVMSS, EagerUpdate, TypeOK, PointersOK, sizeVars
  <2> QED
    BY <1>2, <2>1, <2>2 DEF LoadVMSS, EagerUpdate
<1>3. CASE PutAccepted
  BY <1>3, <1>0, AcceptedType DEF PutAccepted, TypeOK, PointersOK
<1>4. CASE PutConflict
  <2>1. pc' \in [Thread -> Label] /\ pc'[Main] = "retryGet"
    BY <1>4, <1>0, GotoType DEF PutConflict, Label
  <2> QED
    BY <1>4, <2>1 DEF PutConflict, TypeOK, PointersOK, cacheVars, sizeVars,
                      mainVars
<1>5. CASE PutFails
  <2>1. held.obj \in Obj
    BY <1>5, <1>0 DEF PutFails, TypeOK, PointersOK
  <2>2. vmss' \in VmssType
    BY <1>5, <2>1, AcceptType DEF PutFails, PutRefused, TypeOK
  <2> QED
    BY <1>5, <1>0, <2>1, <2>2, FailedType
       DEF PutFails, TypeOK, PointersOK, sizeVars
<1>6. CASE RetryGet
  <2>0. held.obj # NoObj
    BY <1>6 DEF RetryGet, TypeOK, PointersOK
  <2>1. CASE /\ \E o \in Obj : /\ Free(o)
                               /\ held' = [held EXCEPT !.eff = o]
                               /\ Heap([objs EXCEPT ![o] = Fetched])
             /\ Goto(Main, "retrySet")
             /\ UNCHANGED <<call, sizeAge, mgrAge, instValid>>
    <3>1. PICK o \in Obj : /\ held' = [held EXCEPT !.eff = o]
                           /\ Heap([objs EXCEPT ![o] = Fetched])
      BY <2>1
    <3>2. objs' \in [Obj -> ObjType]
      BY <3>1, FetchedType, HeapWriteType DEF TypeOK
    <3>3. held' \in HeldType /\ held'.eff # NoObj /\ held'.obj = held.obj
      BY <3>1, ObjAssumption DEF TypeOK, HeldType, NoObj
    <3>4. pc' \in [Thread -> Label] /\ pc'[Main] = "retrySet"
      BY <2>1, <1>0, GotoType DEF Label
    <3> QED
      BY <1>6, <2>0, <2>1, <3>2, <3>3, <3>4 DEF RetryGet, TypeOK, PointersOK
  <2>2. CASE invalidateForPreconditionFailure /\ Failed
    <3>1. sizeAge' \in 0..MaxAge /\ mgrAge' \in 0..MaxAge
      BY <2>2, MaxAgeType DEF invalidateForPreconditionFailure,
                              invalidateLastSizeRefresh, invalidateCache
    <3>2. instValid' \in BOOLEAN
      BY <2>2 DEF invalidateForPreconditionFailure
    <3> QED
      BY <1>6, <2>0, <2>2, <3>1, <3>2, FailedType DEF RetryGet, TypeOK
  <2> QED
    BY <1>6, <2>1, <2>2 DEF RetryGet
<1>7. CASE RetrySet
  <2>1. objs' \in [Obj -> ObjType]
    BY <1>7, HeapType DEF RetrySet, TypeOK
  <2>2. pc' \in [Thread -> Label] /\ pc'[Main] \in {"carry", "retryPut"}
    BY <1>7, <1>0, GotoType DEF RetrySet, Label
  <2>3. instValid' \in BOOLEAN
    BY <1>7 DEF RetrySet
  <2> QED
    BY <1>7, <1>0, <2>1, <2>2, <2>3
       DEF RetrySet, TypeOK, PointersOK, sizeVars, mainVars
<1>8. CASE RetryPutAccepted
  BY <1>8, <1>0, AcceptedType DEF RetryPutAccepted, TypeOK, PointersOK
<1>9. CASE RetryPutFails
  <2>1. held.eff \in Obj /\ held.obj # NoObj
    BY <1>9, <1>0 DEF RetryPutFails, TypeOK, PointersOK
  <2>2. vmss' \in VmssType
    BY <1>9, <2>1, AcceptType DEF RetryPutFails, PutRefused, TypeOK
  <2>3. sizeAge' \in 0..MaxAge /\ mgrAge' \in 0..MaxAge
    BY <1>9, MaxAgeType DEF RetryPutFails, invalidateForPreconditionFailure,
                            invalidateLastSizeRefresh, invalidateCache
  <2>4. instValid' \in BOOLEAN
    BY <1>9 DEF RetryPutFails, invalidateForPreconditionFailure
  <2> QED
    BY <1>9, <2>1, <2>2, <2>3, <2>4, FailedType DEF RetryPutFails, TypeOK
<1>10. CASE Rollback
  <2>1. held.obj \in Obj /\ call.prev \in Nat
    BY <1>10, <1>0 DEF Rollback, TypeOK, PointersOK, CallType
  <2>2. [objs EXCEPT ![held.obj].cap = call.prev, ![held.obj].backed = TRUE]
          \in [Obj -> ObjType]
    BY <2>1 DEF TypeOK, ObjType
  <2>3. objs' \in [Obj -> ObjType]
    BY <1>10, <2>2, HeapType DEF Rollback
  <2> QED
    BY <1>10, <2>3, ReturnType DEF Rollback, TypeOK, sizeVars
<1>11. CASE Carry
  <2>1. held.eff \in Obj /\ call.target \in Nat
    BY <1>11, <1>0 DEF Carry, TypeOK, PointersOK, CallType
  <2>2. objs' \in [Obj -> ObjType]
    BY <1>11, <2>1 DEF Carry, TypeOK, ObjType
  <2>3. pc' \in [Thread -> Label] /\ pc'[Main] = "publish"
    BY <1>11, <1>0, GotoType DEF Carry, Label
  <2> QED
    BY <1>11, <2>1, <2>2, <2>3, ObjAssumption
       DEF Carry, TypeOK, PointersOK, sizeVars, mainVars, NoObj
<1>12. CASE Publish
  <2>1. held.eff \in Obj /\ call.target \in Nat /\ call.poller \in Nat
        /\ call.from \in Nat /\ objs[held.eff] \in ObjType
    BY <1>12, <1>0 DEF Publish, TypeOK, PointersOK, CallType
  <2>2. objs' \in [Obj -> ObjType]
    BY <1>12, HeapType DEF Publish, TypeOK
  <2>3. puts' \subseteq PutType
    BY <1>12, <2>1 DEF Publish, TypeOK, PutType
  <2>4. curSize' \in Nat
    BY <1>12, <2>1 DEF Publish, PublishedSize, ObjType
  <2> QED
    BY <1>12, <2>2, <2>3, <2>4, ReturnType, MaxAgeType DEF Publish, TypeOK
<1>13. CASE PollDone
  <2>1. held.eff \in Obj /\ call.target \in Nat /\ call.poller \in Nat
        /\ objs[held.eff] \in ObjType /\ vmss.etag \in Nat
    BY <1>13, <1>0 DEF PollDone, TypeOK, PointersOK, CallType, VmssType
  <2>2. PICK e \in RespEtag(call.poller) :
          Heap([objs EXCEPT
               ![held.eff] = [cap |-> call.target, backed |-> TRUE,
                              etag |-> IF EnableVMSSEtag /\ e # 0
                                       THEN e ELSE @.etag]])
    BY <1>13 DEF PollDone
  <2>3. e \in Nat
    BY <2>1 DEF RespEtag
  <2>4. objs' \in [Obj -> ObjType]
    BY <2>1, <2>2, <2>3, HeapType DEF TypeOK, ObjType
  <2>5. instValid' \in BOOLEAN
    BY <1>13 DEF PollDone
  <2> QED
    BY <1>13, <2>1, <2>4, <2>5, ReturnType, MaxAgeType DEF PollDone, TypeOK
<1>14. CASE PollFails
  <2>1. call.from \in Nat /\ call.poller \in Nat
    BY DEF TypeOK, CallType
  <2>2. vmss' \in VmssType
    BY <1>14, <2>1, FailUpdateType DEF PollFails, TypeOK
  <2>3. objs' \in [Obj -> ObjType]
    BY <1>14, HeapType DEF PollFails, TypeOK
  <2>4. instValid' \in BOOLEAN
    BY <1>14 DEF PollFails
  <2> QED
    BY <1>14, <2>2, <2>3, <2>4, ReturnType, MaxAgeType
       DEF PollFails, TypeOK, invalidateLastSizeRefresh, invalidateCache
<1> QED
  BY <1>1, <1>2, <1>3, <1>4, <1>5, <1>6, <1>7, <1>8, <1>9, <1>10, <1>11,
     <1>12, <1>13, <1>14 DEF IncreaseStep

\* The goroutine that waits for a plain increase keeps the types.
LEMMA TypeWaiter == ASSUME TypeOK, Waiter PROVE TypeOK'
<1>0. PICK p \in puts : WaiterDone(p) \/ WaiterFails(p)
  BY DEF Waiter
<1>1. p.obj \in Obj /\ p.etag \in Nat /\ p.from \in Nat
      /\ objs[p.obj] \in ObjType /\ vmss.etag \in Nat
  BY DEF TypeOK, PutType, VmssType
<1>2. CASE WaiterDone(p)
  <2>1. puts' \subseteq PutType
    BY <1>2 DEF WaiterDone, TypeOK
  <2>2. instValid' \in BOOLEAN
    BY <1>2 DEF WaiterDone
  <2>3. CASE UNCHANGED <<sizeAge, mgrAge>> /\ Heap(objs)
    <3>1. objs' \in [Obj -> ObjType]
      BY <2>3, HeapType DEF TypeOK
    <3> QED
      BY <1>2, <2>1, <2>2, <2>3, <3>1 DEF WaiterDone, TypeOK, PointersOK
  <2>4. CASE /\ \E e \in RespEtag(p.etag) \ {0} :
                  Heap([objs EXCEPT ![p.obj].etag = e])
             /\ UNCHANGED <<sizeAge, mgrAge>>
    <3>1. PICK e \in RespEtag(p.etag) \ {0} :
               Heap([objs EXCEPT ![p.obj].etag = e])
      BY <2>4
    <3>2. [objs EXCEPT ![p.obj].etag = e] \in [Obj -> ObjType]
      BY <1>1 DEF RespEtag, TypeOK, ObjType
    <3>3. objs' \in [Obj -> ObjType]
      BY <3>1, <3>2, HeapType
    <3> QED
      BY <1>2, <2>1, <2>2, <2>4, <3>3 DEF WaiterDone, TypeOK, PointersOK
  <2>5. CASE invalidateLastSizeRefresh /\ invalidateCache /\ Heap(objs)
    <3>1. objs' \in [Obj -> ObjType]
      BY <2>5, HeapType DEF TypeOK
    <3> QED
      BY <1>2, <2>1, <2>2, <2>5, <3>1, MaxAgeType
         DEF WaiterDone, TypeOK, PointersOK, invalidateLastSizeRefresh,
             invalidateCache
  <2> QED
    BY <1>2, <2>3, <2>4, <2>5 DEF WaiterDone
<1>3. CASE WaiterFails(p)
  <2>1. vmss' \in VmssType
    BY <1>1, <1>3, FailUpdateType DEF WaiterFails, TypeOK
  <2>2. objs' \in [Obj -> ObjType]
    BY <1>3, HeapType DEF WaiterFails, TypeOK
  <2>3. puts' \subseteq PutType
    BY <1>3 DEF WaiterFails, TypeOK
  <2>4. instValid' \in BOOLEAN
    BY <1>3 DEF WaiterFails
  <2> QED
    BY <1>3, <2>1, <2>2, <2>3, <2>4, MaxAgeType
       DEF WaiterFails, TypeOK, PointersOK, invalidateLastSizeRefresh,
           invalidateCache
<1> QED
  BY <1>0, <1>2, <1>3

\* Azure removes k of its instances.
LEMMA RemoveType == ASSUME TypeOK, NEW k \in Nat, k <= vmss.cap, Remove(k)
                    PROVE  \/ UNCHANGED vmss /\ k = 0
                           \/ /\ vmss' \in VmssType
                              /\ vmss'.cap = vmss.cap - k
                              /\ vmss'.etag = vmss.etag + 1
<1>1. vmss.cap - k \in Nat
  BY DEF TypeOK, VmssType
<1> QED
  BY <1>1, ServerWriteType DEF Remove

\* An accepted deletion keeps the types of the VMSS and of the job.
LEMMA BeginDeleteType ==
  ASSUME TypeOK, NEW d \in Deleters, BeginDelete(d)
  PROVE  /\ vmss' \in VmssType
         /\ job' \in [Deleters -> JobType]
<1>1. PICK k \in 0..job[d].n :
           /\ k <= vmss.cap
           /\ Remove(k)
           /\ job' = [job EXCEPT ![d].gone = k, ![d].etag = vmss'.etag]
  BY DEF BeginDelete
<1>2. job[d] \in JobType /\ job[d].n \in Nat
  BY DEF TypeOK, JobType
<1>3. k \in Nat
  BY <1>1, <1>2
<1>4. vmss' \in VmssType
  BY <1>1, <1>3, RemoveType DEF TypeOK
<1>5. vmss'.etag \in Nat
  BY <1>4 DEF VmssType
<1>6. job' \in [Deleters -> JobType]
  BY <1>1, <1>2, <1>3, <1>5 DEF TypeOK, JobType
<1> QED
  BY <1>4, <1>6

\* The steps of a deletion keep the types.
LEMMA TypeDeleter ==
  ASSUME TypeOK, NEW d \in Deleters, Deleter(d) PROVE TypeOK'
<1> USE DEF At
<1>0. d \in Thread /\ job[d] \in JobType /\ job[d].n \in Nat
      /\ job[d].gone \in Nat /\ vmss.cap \in Nat
  BY DEF Thread, TypeOK, JobType, VmssType
<1>a. NoJob \in JobType
  BY DEF NoJob, JobType
<1>b. ASSUME NEW n \in 1..MaxBatch, Ask(d, n)
      PROVE  /\ pc' \in [Thread -> Label] /\ pc'[Main] = pc[Main]
             /\ job' \in [Deleters -> JobType]
  <2>1. [NoJob EXCEPT !.n = n] \in JobType
    <3>1. n \in Nat
      BY SizesAssumption
    <3> QED
      BY <3>1, <1>a DEF JobType
  <2> QED
    BY <1>b, <2>1, DeleterGoto DEF Ask, Label, TypeOK
<1>1. CASE TargetSize(d)
  BY <1>0, <1>1, TypeReading
<1>2. ASSUME NEW n \in 1..MaxBatch, DeleteNodes(d, n) PROVE TypeOK'
  <2>1. instValid' \in BOOLEAN
    BY <1>2, InstAfterSizeType DEF DeleteNodes
  <2> QED
    BY <1>2, <1>b, <2>1, GetCurSizeType
       DEF DeleteNodes, TypeOK, PointersOK, mainVars
<1>3. ASSUME NEW n \in 1..MaxBatch, ForceDeleteNodes(d, n) PROVE TypeOK'
  BY <1>3, <1>b DEF ForceDeleteNodes, TypeOK, PointersOK, cacheVars, sizeVars,
                    mainVars
<1>4. CASE DeleteAccepted(d)
  BY <1>4, BeginDeleteType, DeleterGoto
     DEF DeleteAccepted, TypeOK, PointersOK, Label, cacheVars, sizeVars, mainVars
<1>5. CASE DeleteRefused(d)
  <2>1. vmss' \in VmssType
    <3>1. CASE UNCHANGED vmss
      BY <3>1 DEF TypeOK
    <3>2. CASE \E k \in 1..job[d].n : k <= vmss.cap /\ Remove(k)
      <4>1. PICK k \in 1..job[d].n : k <= vmss.cap /\ Remove(k)
        BY <3>2
      <4>2. k \in Nat
        BY <1>0
      <4> QED
        BY <4>1, <4>2, RemoveType DEF TypeOK
    <3> QED
      BY <1>5, <3>1, <3>2 DEF DeleteRefused
  <2>2. job' \in [Deleters -> JobType]
    BY <1>5, <1>a DEF DeleteRefused, TypeOK
  <2> QED
    BY <1>5, <2>1, <2>2, DeleterGoto
       DEF DeleteRefused, TypeOK, PointersOK, Label, cacheVars, sizeVars,
           mainVars
<1>6. ASSUME NEW unreg \in BOOLEAN, MarkDeleted(d, unreg) PROVE TypeOK'
  <2>1. curSize' \in Nat \cup {-1} /\ sizeAge' \in 0..MaxAge
    <3>1. CASE UNCHANGED sizeVars
      BY <3>1 DEF TypeOK, sizeVars
    <3>2. CASE Decrement(job[d].n)
      BY <3>2, <1>0, MaxAgeType DEF Decrement, TypeOK
    <3> QED
      BY <1>6, <3>1, <3>2 DEF MarkDeleted
  <2> QED
    BY <1>6, <2>1, DeleterGoto
       DEF MarkDeleted, TypeOK, PointersOK, Label, cacheVars, mainVars
<1>7. CASE DeleteDone(d)
  <2>1. job' \in [Deleters -> JobType]
    <3>1. CASE job' = [job EXCEPT ![d].ok = TRUE]
      BY <3>1, <1>0 DEF TypeOK, JobType
    <3>2. CASE job' = [job EXCEPT ![d] = NoJob]
      BY <3>2, <1>a DEF TypeOK
    <3> QED
      BY <1>7, <3>1, <3>2 DEF DeleteDone
  <2>2. pc' \in [Thread -> Label] /\ pc'[Main] = pc[Main]
    BY <1>7, DeleterGoto DEF DeleteDone, Label
  <2> QED
    BY <1>7, <2>1, <2>2
       DEF DeleteDone, TypeOK, PointersOK, cacheVars, sizeVars, mainVars
<1>8. CASE Preempted(d)
  BY <1>8, DeleterGoto DEF Preempted, TypeOK, PointersOK, Label, cacheVars,
                           sizeVars, mainVars
<1>9. CASE RetryDelete(d)
  BY <1>9, BeginDeleteType, DeleterGoto
     DEF RetryDelete, TypeOK, PointersOK, Label, cacheVars, sizeVars, mainVars
<1>10. CASE RetryDeleteDone(d)
  <2>1. instValid' \in BOOLEAN
    BY <1>10 DEF RetryDeleteDone
  <2>2. job' \in [Deleters -> JobType]
    BY <1>10, <1>a DEF RetryDeleteDone, TypeOK
  <2> QED
    BY <1>10, <2>1, <2>2, DeleterGoto
       DEF RetryDeleteDone, TypeOK, PointersOK, Label, cacheVars, sizeVars,
           mainVars
<1>11. CASE DeleteFails(d)
  <2>1. vmss' \in VmssType
    <3>1. CASE UNCHANGED vmss
      BY <3>1 DEF TypeOK
    <3>2. CASE \E c \in vmss.cap + 1 .. vmss.cap + job[d].gone : ServerWrite(c)
      <4>1. PICK c \in vmss.cap + 1 .. vmss.cap + job[d].gone : ServerWrite(c)
        BY <3>2
      <4>2. c \in Nat
        BY <1>0
      <4> QED
        BY <4>1, <4>2, ServerWriteType
    <3> QED
      BY <1>11, <3>1, <3>2 DEF DeleteFails
  <2>2. instValid' \in BOOLEAN
    BY <1>11 DEF DeleteFails
  <2> QED
    BY <1>11, <2>1, <2>2, DeleterGoto, MaxAgeType
       DEF DeleteFails, TypeOK, PointersOK, Label, cacheVars, mainVars,
           invalidateLastSizeRefresh
<1>12. CASE FetchOK(d) \/ FetchFails(d) \/ Regenerate(d)
  BY <1>0, <1>12, TypeReading
<1> QED
  BY <1>1, <1>2, <1>3, <1>4, <1>5, <1>6, <1>7, <1>8, <1>9, <1>10, <1>11,
     <1>12 DEF Deleter

\* Every step keeps the types.
LEMMA TypeStep == ASSUME TypeOK, [Next]_vars PROVE TypeOK'
<1>1. CASE MainStep
  <2>1. Main \in Thread
    BY DEF Thread
  <2> QED
    BY <1>1, <2>1, TypeReading, TypeIncrease DEF MainStep
<1>2. CASE UNCHANGED vars
  BY <1>2 DEF vars, TypeOK, PointersOK
<1> QED
  BY <1>1, <1>2, TypeWaiter, TypeDeleter, TypeEnvironment DEF Next

\* Every reachable state is well-typed, and Main never dereferences a nil
\* VMSS pointer.
THEOREM TypeCorrect == Spec => []TypeOK
<1>1. Init => TypeOK
  BY TypeInit
<1>2. TypeOK /\ [Next]_vars => TypeOK'
  BY TypeStep
<1> QED
  BY <1>1, <1>2, PTL DEF Spec

-----------------------------------------------------------------------------
(* CapacityWithinMax.                                                      *)

\* A step keeps every deletion's record or starts it afresh.
JobsKept == \A d \in Deleters :
              \/ job'[d].gone = job[d].gone /\ job'[d].etag = job[d].etag
              \/ job'[d].gone = 0 /\ job'[d].etag = 0

\* A step that writes nothing, or one that writes a capacity within the
\* maximum, keeps the invariant.
LEMMA CapacityKept ==
  ASSUME TypeOK, CapacityInv, call'.target <= MaxSize, JobsKept,
         \/ UNCHANGED vmss
         \/ vmss'.cap \in Nat /\ vmss'.cap <= MaxSize
            /\ vmss'.etag = vmss.etag + 1
  PROVE  CapacityInv'
<1>1. /\ vmss.cap \in Nat /\ vmss.etag \in Nat /\ MaxSize \in Nat
      /\ \A d \in Deleters : job[d].etag \in Nat /\ job[d].gone \in Nat
  BY SizesAssumption DEF TypeOK, VmssType, JobType
<1>2. CASE UNCHANGED vmss
  BY <1>1, <1>2 DEF CapacityInv, JobsKept
<1>3. CASE vmss'.cap \in Nat /\ vmss'.cap <= MaxSize
           /\ vmss'.etag = vmss.etag + 1
  BY <1>1, <1>3 DEF CapacityInv, JobsKept
<1> QED
  BY <1>2, <1>3

\* A step of Main or of the waiter, none of which touches a deletion.
LEMMA CapacityMain ==
  ASSUME TypeOK, CapacityInv, IncreaseStep \/ Waiter \/ Environment
  PROVE  CapacityInv'
<1>0. /\ vmss.cap \in Nat /\ MaxSize \in Nat /\ call.target \in Nat
      /\ call.target <= MaxSize /\ vmss.cap <= MaxSize
      /\ call.from \in Nat /\ call.poller \in Nat
  BY SizesAssumption DEF TypeOK, VmssType, CallType, CapacityInv
<1>1. UNCHANGED job => JobsKept
  BY DEF JobsKept
<1>2. NoCall.target <= MaxSize
  BY <1>0 DEF NoCall
<1>3. Return => call'.target <= MaxSize
  BY <1>2 DEF Return
<1>4. Failed => call'.target <= MaxSize
  BY <1>0, <1>3 DEF Failed
<1>5. ASSUME NEW o \in Obj, Accepted(o) PROVE CapacityInv'
  <2>1. call'.target = call.target /\ UNCHANGED job
    BY <1>5 DEF Accepted, TypeOK, CallType
  <2>2. vmss'.cap = call.target /\ vmss'.etag = vmss.etag + 1
    BY <1>5, AcceptType DEF Accepted
  <2> QED
    BY <1>0, <1>1, <2>1, <2>2, CapacityKept
<1>6. ASSUME NEW o \in Obj, PutRefused(o), Failed, UNCHANGED job
      PROVE  CapacityInv'
  <2>1. \/ UNCHANGED vmss
        \/ vmss'.cap = call.target /\ vmss'.etag = vmss.etag + 1
    BY <1>6, AcceptType DEF PutRefused
  <2> QED
    BY <1>0, <1>1, <1>4, <1>6, <2>1, CapacityKept
<1>7. ASSUME NEW delta \in Deltas, NEW kind \in {"plain", "atomic"},
             BeginIncrease(kind, delta)
      PROVE  CapacityInv'
  <2>1. call'.target = curSize' + delta /\ curSize' + delta <= MaxSize
    BY <1>7 DEF BeginIncrease, NoCall, canIncreaseSize
  <2>2. UNCHANGED <<vmss, job>>
    BY <1>7 DEF BeginIncrease
  <2> QED
    BY <1>1, <2>1, <2>2, CapacityKept
<1>8. CASE LoadVMSS
  <2>1. UNCHANGED <<vmss, job>>
    BY <1>8 DEF LoadVMSS, EagerUpdate
  <2>2. call'.target <= MaxSize
    <3>1. CASE Return
      BY <3>1, <1>3
    <3>2. CASE \/ call' = [call EXCEPT !.prev = objs[cached].cap]
               \/ UNCHANGED call
      BY <3>2, <1>0 DEF TypeOK, CallType
    <3> QED
      BY <1>8, <3>1, <3>2 DEF LoadVMSS, EagerUpdate
  <2> QED
    BY <1>1, <2>1, <2>2, CapacityKept
<1>9. CASE PutAccepted \/ RetryPutAccepted
  BY <1>9, <1>5 DEF PutAccepted, RetryPutAccepted, At, TypeOK, PointersOK,
                    HeldType
<1>10. CASE PutFails
  BY <1>10, <1>6 DEF PutFails, At, TypeOK, PointersOK, HeldType
<1>11. CASE RetryPutFails
  BY <1>11, <1>6 DEF RetryPutFails, At, TypeOK, PointersOK, HeldType
<1>12. CASE PutConflict \/ RetrySet \/ Carry
  <2>1. UNCHANGED <<vmss, job, call>>
    BY <1>12 DEF PutConflict, RetrySet, Carry, mainVars
  <2> QED
    BY <1>0, <1>1, <2>1, CapacityKept
<1>13. CASE RetryGet
  BY <1>0, <1>1, <1>4, <1>13, CapacityKept DEF RetryGet
<1>14. CASE Rollback \/ Publish \/ PollDone
  BY <1>1, <1>3, <1>14, CapacityKept DEF Rollback, Publish, PollDone
<1>15. CASE PollFails
  <2>1. UNCHANGED vmss \/ (/\ vmss'.cap \in Nat /\ vmss'.cap <= vmss.cap
                           /\ vmss'.etag = vmss.etag + 1)
    BY <1>0, <1>15, FailUpdateType DEF PollFails
  <2> QED
    BY <1>0, <1>1, <1>3, <1>15, <2>1, CapacityKept DEF PollFails
<1>16. CASE Waiter
  <2>1. PICK p \in puts : WaiterDone(p) \/ WaiterFails(p)
    BY <1>16 DEF Waiter
  <2>2. p.etag \in Nat /\ p.from \in Nat
    BY DEF TypeOK, PutType
  <2>3. UNCHANGED <<call, job>>
    BY <2>1 DEF WaiterDone, WaiterFails
  <2>4. UNCHANGED vmss \/ (/\ vmss'.cap \in Nat /\ vmss'.cap <= vmss.cap
                           /\ vmss'.etag = vmss.etag + 1)
    BY <2>1, <2>2, FailUpdateType DEF WaiterDone, WaiterFails
  <2> QED
    BY <1>0, <1>1, <2>3, <2>4, CapacityKept
<1>17. CASE Environment
  <2>1. CASE Tick
    BY <1>0, <1>1, <2>1, CapacityKept DEF Tick, mainVars
  <2>2. CASE OtherWriter
    <3>1. PICK c \in 0..MaxSize : ServerWrite(c)
      BY <2>2 DEF OtherWriter
    <3>2. c \in Nat /\ c <= MaxSize
      BY <1>0
    <3>3. vmss'.cap = c /\ vmss'.etag = vmss.etag + 1
      BY <3>1, <3>2, ServerWriteType
    <3> QED
      BY <1>0, <1>1, <2>2, <3>2, <3>3, CapacityKept DEF OtherWriter, mainVars
  <2>3. CASE VMSSRemoved
    <3>1. vmss'.cap = 0 /\ vmss'.etag = vmss.etag
      BY <2>3 DEF VMSSRemoved, TypeOK, VmssType
    <3>2. UNCHANGED <<call, job>>
      BY <2>3 DEF VMSSRemoved, mainVars
    <3>3. \A d \in Deleters : job[d].gone \in Nat
      BY DEF TypeOK, JobType
    <3> QED
      BY <1>0, <3>1, <3>2, <3>3 DEF CapacityInv
  <2> QED
    BY <1>17, <2>1, <2>2, <2>3 DEF Environment
<1> QED
  BY <1>7, <1>8, <1>9, <1>10, <1>11, <1>12, <1>13, <1>14, <1>15, <1>16, <1>17
     DEF IncreaseStep

\* Reading the size and refreshing write nothing to Azure.
LEMMA CapacityReading ==
  ASSUME TypeOK, CapacityInv, NEW t \in Thread,
         \/ TargetSize(t) \/ DecreaseTargetSize \/ Nodes \/ Refresh
         \/ FetchOK(t) \/ FetchFails(t) \/ Regenerate(t)
  PROVE  CapacityInv'
<1>1. UNCHANGED <<vmss, call>>
  BY DEF TargetSize, DecreaseTargetSize, Nodes, Refresh, FetchOK, FetchFails,
         Regenerate, mainVars
<1>2. UNCHANGED job => JobsKept
  BY DEF JobsKept
<1>3. ASSUME NEW err, NEW inst, ForceRefreshReturns(t, err, inst)
      PROVE  JobsKept
  BY <1>3 DEF ForceRefreshReturns, JobsKept, NoJob, TypeOK
<1>4. JobsKept
  BY <1>2, <1>3 DEF TargetSize, DecreaseTargetSize, Nodes, Refresh, FetchOK,
                    FetchFails, Regenerate
<1>5. call.target <= MaxSize
  BY DEF CapacityInv
<1> QED
  BY <1>1, <1>4, <1>5, CapacityKept

\* A deletion never gives back more than it took.
LEMMA CapacityDeleter ==
  ASSUME TypeOK, CapacityInv, NEW d \in Deleters, Deleter(d)
  PROVE  CapacityInv'
<1>0. /\ vmss.cap \in Nat /\ vmss.etag \in Nat /\ MaxSize \in Nat
      /\ vmss.cap <= MaxSize /\ call.target <= MaxSize
      /\ d \in Thread /\ job[d].n \in Nat /\ job[d].gone \in Nat
  BY SizesAssumption DEF TypeOK, VmssType, JobType, CapacityInv, Thread
<1>1. UNCHANGED job => JobsKept
  BY DEF JobsKept
<1>2. job' = [job EXCEPT ![d] = NoJob] => JobsKept
  BY DEF JobsKept, NoJob, TypeOK
<1>3. ASSUME NEW n \in 1..MaxBatch, DeleteNodes(d, n) \/ ForceDeleteNodes(d, n)
      PROVE  CapacityInv'
  <2>1. job' = [job EXCEPT ![d] = [NoJob EXCEPT !.n = n]]
        /\ UNCHANGED <<vmss, call>>
    BY <1>3 DEF DeleteNodes, ForceDeleteNodes, Ask, mainVars
  <2>2. JobsKept
    BY <2>1 DEF JobsKept, NoJob, TypeOK
  <2> QED
    BY <1>0, <2>1, <2>2, CapacityKept
<1>4. CASE DeleteAccepted(d) \/ RetryDelete(d)
  <2>0. UNCHANGED call
    BY <1>4 DEF DeleteAccepted, RetryDelete, mainVars
  <2>1. PICK k \in 0..job[d].n :
             /\ k <= vmss.cap
             /\ Remove(k)
             /\ job' = [job EXCEPT ![d].gone = k, ![d].etag = vmss'.etag]
    BY <1>4 DEF DeleteAccepted, RetryDelete, BeginDelete
  <2>2. k \in Nat
    BY <1>0, <2>1
  <2>3. /\ job'[d].gone = k /\ job'[d].etag = vmss'.etag
        /\ \A x \in Deleters \ {d} : job'[x] = job[x]
    BY <2>1 DEF TypeOK, JobType
  <2>4. \A x \in Deleters : job[x].etag \in Nat /\ job[x].gone \in Nat
    BY DEF TypeOK, JobType
  <2>5. CASE UNCHANGED vmss /\ k = 0
    BY <1>0, <2>0, <2>3, <2>5 DEF CapacityInv
  <2>6. CASE vmss'.cap = vmss.cap - k /\ vmss'.etag = vmss.etag + 1
    BY <1>0, <2>0, <2>2, <2>3, <2>4, <2>6 DEF CapacityInv
  <2> QED
    BY <2>1, <2>2, <2>5, <2>6, RemoveType
<1>5. CASE DeleteRefused(d)
  <2>1. UNCHANGED vmss \/ (/\ vmss'.cap \in Nat /\ vmss'.cap <= MaxSize
                           /\ vmss'.etag = vmss.etag + 1)
    <3>1. CASE \E k \in 1..job[d].n : k <= vmss.cap /\ Remove(k)
      <4>1. PICK k \in 1..job[d].n : k <= vmss.cap /\ Remove(k)
        BY <3>1
      <4>2. k \in Nat
        BY <1>0
      <4> QED
        BY <1>0, <4>1, <4>2, RemoveType
    <3> QED
      BY <1>5, <3>1 DEF DeleteRefused
  <2> QED
    BY <1>0, <1>2, <1>5, <2>1, CapacityKept DEF DeleteRefused, mainVars
<1>6. CASE \/ \E unreg \in BOOLEAN : MarkDeleted(d, unreg)
           \/ Preempted(d) \/ DeleteDone(d) \/ RetryDeleteDone(d)
  <2>1. UNCHANGED <<vmss, call>>
    BY <1>6 DEF MarkDeleted, Preempted, DeleteDone, RetryDeleteDone, mainVars
  <2>2. job' = [job EXCEPT ![d].ok = TRUE] => JobsKept
    BY DEF JobsKept, TypeOK, JobType
  <2>3. JobsKept
    BY <1>1, <1>2, <1>6, <2>2
       DEF MarkDeleted, Preempted, DeleteDone, RetryDeleteDone
  <2> QED
    BY <1>0, <2>1, <2>3, CapacityKept
<1>7. CASE DeleteFails(d)
  <2>0. UNCHANGED <<call, job>>
    BY <1>7 DEF DeleteFails, mainVars
  <2>1. UNCHANGED vmss \/ (/\ vmss'.cap \in Nat /\ vmss'.cap <= MaxSize
                           /\ vmss'.etag = vmss.etag + 1)
    <3>1. CASE /\ vmss.etag = job[d].etag
               /\ \E c \in vmss.cap + 1 .. vmss.cap + job[d].gone :
                     ServerWrite(c)
      <4>1. PICK c \in vmss.cap + 1 .. vmss.cap + job[d].gone : ServerWrite(c)
        BY <3>1
      <4>2. c \in Nat /\ c <= MaxSize
        BY <1>0, <3>1 DEF CapacityInv
      <4> QED
        BY <4>1, <4>2, ServerWriteType
    <3> QED
      BY <1>7, <3>1 DEF DeleteFails
  <2> QED
    BY <1>0, <1>1, <2>0, <2>1, CapacityKept
<1>8. CASE TargetSize(d) \/ FetchOK(d) \/ FetchFails(d) \/ Regenerate(d)
  BY <1>0, <1>8, CapacityReading
<1> QED
  BY <1>3, <1>4, <1>5, <1>6, <1>7, <1>8 DEF Deleter

\* Whatever is retried, lost, preempted or undone, Azure never holds more
\* instances than the node group's maximum (canIncreaseSize is enough).
THEOREM CapacityTheorem == Spec => []CapacityWithinMax
<1>1. Init => CapacityInv
  BY SizesAssumption DEF Init, CapacityInv, NoCall, NoJob
<1>2. TypeOK /\ CapacityInv /\ [Next]_vars => CapacityInv'
  <2> SUFFICES ASSUME TypeOK, CapacityInv, [Next]_vars PROVE CapacityInv'
    OBVIOUS
  <2>1. CASE UNCHANGED vars
    BY <2>1 DEF vars, CapacityInv
  <2>2. Main \in Thread
    BY DEF Thread
  <2> QED
    BY <2>1, <2>2, CapacityMain, CapacityReading, CapacityDeleter
       DEF Next, MainStep
<1>3. CapacityInv => CapacityWithinMax
  BY DEF CapacityInv, CapacityWithinMax
<1> QED
  BY <1>1, <1>2, <1>3, TypeCorrect, PTL DEF Spec

-----------------------------------------------------------------------------
(* SizeNeverNegative.                                                      *)

\* A step publishes a real size, or leaves or makes the old one stale.
SizeKept == \/ UNCHANGED <<curSize, sizeAge>>
            \/ curSize' \in Nat
            \/ curSize' = curSize /\ sizeAge' \in {Older(sizeAge), MaxAge,
                                                   RefreshInterval}

\* getCurSize replaces a size by a natural number or leaves it.
LEMMA GetCurSizeKept == ASSUME TypeOK, getCurSize PROVE SizeKept
<1>1. CASE UNCHANGED sizeVars
  BY <1>1 DEF SizeKept, sizeVars
<1>2. CASE curSize' = objs[cached].cap /\ cached \in Obj
  BY <1>2 DEF SizeKept, TypeOK, ObjType
<1>3. CASE \E f \in Answers : curSize' = f.cap
  BY <1>3, AnswersType DEF SizeKept
<1> QED
  BY <1>1, <1>2, <1>3 DEF getCurSize, TypeOK

\* No step gives a negative size a new timestamp.
LEMMA SizeKeptStep == ASSUME TypeOK, [Next]_vars PROVE SizeKept
<1> USE DEF At
<1>1. UNCHANGED sizeVars => SizeKept
  BY DEF sizeVars, SizeKept
<1>2. ASSUME NEW nf, GetVMSSFailed(nf) PROVE SizeKept
  BY <1>1, <1>2 DEF GetVMSSFailed
<1>3. UNCHANGED curSize /\ invalidateForPreconditionFailure => SizeKept
  BY DEF invalidateForPreconditionFailure, invalidateLastSizeRefresh, SizeKept
<1>4. ASSUME NEW t \in Thread,
             \/ TargetSize(t) \/ DecreaseTargetSize \/ Nodes \/ Refresh
             \/ FetchOK(t) \/ FetchFails(t) \/ Regenerate(t)
      PROVE  SizeKept
  <2>1. ASSUME NEW ok, NEW inst, NodesReturns(ok, inst) PROVE SizeKept
    BY <1>2, <2>1, GetCurSizeKept DEF NodesReturns
  <2> QED
    BY <1>1, <1>2, <1>4, <2>1, GetCurSizeKept
       DEF TargetSize, DecreaseTargetSize, Nodes, Refresh, FetchOK, FetchFails,
           Regenerate
<1>5. CASE IncreaseStep
  <2>1. ASSUME NEW delta \in Deltas, NEW kind \in {"plain", "atomic"},
               BeginIncrease(kind, delta)
        PROVE  SizeKept
    BY <2>1, GetCurSizeKept DEF BeginIncrease
  <2>2. CASE LoadVMSS \/ PutAccepted \/ PutConflict \/ PutFails \/ RetrySet
             \/ RetryPutAccepted \/ Rollback \/ Carry
    BY <1>1, <2>2 DEF LoadVMSS, EagerUpdate, PutAccepted, PutConflict, PutFails, RetrySet,
                      RetryPutAccepted, Rollback, Carry, Accepted
  <2>3. CASE RetryGet
    BY <1>3, <2>3 DEF RetryGet, SizeKept
  <2>4. CASE RetryPutFails
    BY <1>3, <2>4 DEF RetryPutFails
  <2>5. CASE Publish
    BY <2>5 DEF Publish, PublishedSize, SizeKept, TypeOK, PointersOK, CallType,
                HeldType, ObjType
  <2>6. CASE PollDone
    BY <2>6 DEF PollDone, SizeKept, TypeOK, CallType
  <2>7. CASE PollFails
    BY <2>7 DEF PollFails, SizeKept, invalidateLastSizeRefresh
  <2> QED
    BY <1>5, <2>1, <2>2, <2>3, <2>4, <2>5, <2>6, <2>7 DEF IncreaseStep
<1>6. CASE Waiter
  BY <1>6 DEF Waiter, WaiterDone, WaiterFails, SizeKept,
              invalidateLastSizeRefresh
<1>7. ASSUME NEW d \in Deleters, Deleter(d) PROVE SizeKept
  <2>1. d \in Thread
    BY DEF Thread
  <2>2. ASSUME NEW n \in 1..MaxBatch,
               DeleteNodes(d, n) \/ ForceDeleteNodes(d, n)
        PROVE  SizeKept
    BY <1>1, <2>2, GetCurSizeKept DEF DeleteNodes, ForceDeleteNodes
  <2>3. ASSUME NEW unreg \in BOOLEAN, MarkDeleted(d, unreg) PROVE SizeKept
    <3>1. CASE Decrement(job[d].n)
      <4>1. job[d].n \in Nat
        BY DEF TypeOK, JobType
      <4> QED
        BY <3>1, <4>1 DEF Decrement, SizeKept, TypeOK
    <3> QED
      BY <1>1, <2>3, <3>1 DEF MarkDeleted
  <2>4. CASE DeleteAccepted(d) \/ DeleteRefused(d) \/ DeleteDone(d)
             \/ Preempted(d) \/ RetryDelete(d) \/ RetryDeleteDone(d)
    BY <1>1, <2>4 DEF DeleteAccepted, DeleteRefused, DeleteDone, Preempted,
                      RetryDelete, RetryDeleteDone
  <2>5. CASE DeleteFails(d)
    BY <2>5 DEF DeleteFails, SizeKept, invalidateLastSizeRefresh
  <2> QED
    BY <1>4, <1>7, <2>1, <2>2, <2>3, <2>4, <2>5 DEF Deleter
<1>8. CASE Environment
  BY <1>1, <1>8 DEF Environment, Tick, OtherWriter, VMSSRemoved, SizeKept
<1>9. CASE UNCHANGED vars
  BY <1>9 DEF vars, SizeKept
<1>10. Main \in Thread
  BY DEF Thread
<1> QED
  BY <1>4, <1>5, <1>6, <1>7, <1>8, <1>9, <1>10 DEF Next, MainStep

\* As long as the Spot period is not longer than the interval by which
\* invalidateLastSizeRefresh ages the size, getCurSize never serves the
\* initial -1 nor a size decremented below zero.
THEOREM SizeTheorem ==
  ASSUME EffectiveSizeRefreshPeriod <= RefreshInterval
  PROVE  Spec => []SizeNeverNegative
<1>1. Init => SizeNeverNegative
  BY MaxAgeType, PeriodsAssumption
     DEF Init, SizeNeverNegative, SizeFresh, EffectiveSizeRefreshPeriod
<1>2. TypeOK /\ SizeNeverNegative /\ [Next]_vars => SizeNeverNegative'
  <2> SUFFICES ASSUME TypeOK, SizeNeverNegative, [Next]_vars
               PROVE  SizeNeverNegative'
    OBVIOUS
  <2>1. EffectiveSizeRefreshPeriod \in Nat /\ MaxAge \in Nat
        /\ RefreshInterval \in Nat /\ sizeAge \in Nat
    BY MaxAgeType, PeriodsAssumption DEF EffectiveSizeRefreshPeriod, TypeOK
  <2>2. Older(sizeAge) >= sizeAge
    BY <2>1 DEF Older, TypeOK
  <2>3. SizeKept
    BY SizeKeptStep
  <2> QED
    BY <2>1, <2>2, <2>3, MaxAgeType
       DEF SizeKept, SizeNeverNegative, SizeFresh, Older, TypeOK
<1> QED
  BY <1>1, <1>2, TypeCorrect, PTL DEF Spec

-----------------------------------------------------------------------------
(* NoRejectedSizeLeft and SuccessIsEarned.                                 *)

\* What happens to an object that somebody still points to.
LEMMA HeapLive == ASSUME NEW h, Heap(h), NEW o \in Obj, o \in Live'
                  PROVE  objs'[o] = h[o]
BY DEF Heap

\* The cached object survives the garbage collector.
LEMMA CachedLive == ASSUME NEW h, Heap(h), cached' \in Obj
                    PROVE  objs'[cached'] = h[cached']
BY ObjAssumption, HeapLive DEF Live, NoObj

\* So does the object that Main tracks.
LEMMA HeldLive == ASSUME NEW h, Heap(h), held'.eff \in Obj
                  PROVE  objs'[held'.eff] = h[held'.eff]
<1>1. held'.eff \in Live'
  BY ObjAssumption DEF Live, NoObj
<1> QED
  BY <1>1, HeapLive

\* A step that leaves Main's increase alone: its objects keep their capacity,
\* and what it finds in the cache afterwards is what was there, nothing, or
\* an object just fetched.
Quiet ==
  /\ UNCHANGED <<call, held>>
  /\ puts' \subseteq puts
  /\ \/ pc'[Main] = pc[Main]
     \/ {pc[Main], pc'[Main]} \subseteq {"idle", "fetch", "regen"}
  /\ held.eff \in Obj =>
       /\ objs'[held.eff].cap = objs[held.eff].cap
       /\ objs'[held.eff].backed = objs[held.eff].backed
       /\ (\A p \in puts : p.obj # held.eff)
            => objs'[held.eff].etag = objs[held.eff].etag
  /\ \/ /\ cached' = cached
        /\ cached \in Obj => objs'[cached].backed = objs[cached].backed
     \/ cached' = NoObj
     \/ cached' \in Obj /\ objs'[cached'].backed /\ cached' # held.obj

\* The heap's share of Quiet: what the objects Main can reach become.
HeapQuiet ==
  /\ held.eff \in Obj =>
       /\ objs'[held.eff].cap = objs[held.eff].cap
       /\ objs'[held.eff].backed = objs[held.eff].backed
       /\ (\A p \in puts : p.obj # held.eff)
            => objs'[held.eff].etag = objs[held.eff].etag
  /\ \/ /\ cached' = cached
        /\ cached \in Obj => objs'[cached].backed = objs[cached].backed
     \/ cached' = NoObj
     \/ cached' \in Obj /\ objs'[cached'].backed /\ cached' # held.obj

\* A fetched object is a new one.
LEMMA FetchQuiet ==
  ASSUME TypeOK, held' = held, NEW o \in Obj, Free(o), cached' = o,
         NEW f, f.backed, Heap([objs EXCEPT ![o] = f])
  PROVE  HeapQuiet
<1>1. o # held.obj /\ o # held.eff
  BY ObjAssumption DEF Free, Live, NoObj
<1> DEFINE h == [objs EXCEPT ![o] = f]
<1>2. Heap(h)
  OBVIOUS
<1>3. h[o] = f /\ \A x \in Obj : x # o => h[x] = objs[x]
  BY DEF TypeOK
<1> HIDE DEF h
<1>4. objs'[cached'] = h[cached']
  BY <1>2, CachedLive
<1>5. held'.eff \in Obj => objs'[held'.eff] = h[held'.eff]
  BY <1>2, HeldLive
<1>6. held.eff \in Obj => objs'[held.eff] = objs[held.eff]
  BY <1>1, <1>3, <1>5
<1> QED
  BY <1>1, <1>3, <1>4, <1>6 DEF HeapQuiet

\* Dropping the cached object, or nothing, is quiet.
LEMMA SweepQuiet == ASSUME TypeOK, held' = held, Heap(objs),
                           cached' = cached \/ cached' = NoObj
                    PROVE  HeapQuiet
BY CachedLive, HeldLive DEF HeapQuiet

\* Leaving the heap alone is quiet.
LEMMA UnchangedQuiet == ASSUME UNCHANGED <<objs, cached>> PROVE HeapQuiet
BY DEF HeapQuiet

\* A size read is quiet: at most it caches a freshly fetched object.
LEMMA GetCurSizeQuiet == ASSUME TypeOK, held' = held, getCurSize PROVE HeapQuiet
BY FetchQuiet, AnswersType, UnchangedQuiet DEF getCurSize, cacheVars

\* The reads and the refresh, by whichever thread, are quiet.
LEMMA ReadingQuiet ==
  ASSUME TypeOK, NEW t \in Thread,
         \/ TargetSize(t) \/ DecreaseTargetSize \/ Nodes \/ Refresh
         \/ FetchOK(t) \/ FetchFails(t) \/ Regenerate(t)
  PROVE  Quiet
<1> USE DEF At
<1>1. UNCHANGED <<call, held, puts>>
  BY DEF TargetSize, DecreaseTargetSize, Nodes, Refresh, FetchOK, FetchFails,
         Regenerate, mainVars
<1>2. ASSUME NEW nf, GetVMSSFailed(nf) PROVE HeapQuiet
  BY <1>2, UnchangedQuiet DEF GetVMSSFailed, cacheVars
<1>3. ASSUME NEW ok, NEW inst, NodesReturns(ok, inst) PROVE HeapQuiet
  BY <1>1, <1>2, <1>3, GetCurSizeQuiet DEF NodesReturns
<1>4. ReplaceScaleSets => HeapQuiet
  <2>1. Fetched.backed
    BY DEF Fetched
  <2>2. ASSUME NEW o \in Obj, Free(o), cached' = o,
               Heap([objs EXCEPT ![o] = Fetched])
        PROVE  HeapQuiet
    BY <1>1, <2>1, <2>2, FetchQuiet
  <2> QED
    BY <1>1, <2>2, SweepQuiet DEF ReplaceScaleSets
<1>5. HeapQuiet
  BY <1>1, <1>2, <1>3, <1>4, GetCurSizeQuiet, UnchangedQuiet
     DEF TargetSize, DecreaseTargetSize, Nodes, Refresh, FetchOK, FetchFails,
         Regenerate, cacheVars
<1>6. \/ pc'[Main] = pc[Main]
      \/ {pc[Main], pc'[Main]} \subseteq {"idle", "fetch", "regen"}
  <2>0. Main \in Thread /\ {"idle", "fetch", "regen"} \subseteq Label
    BY DEF Thread, Label
  <2>1. CASE TargetSize(t) \/ DecreaseTargetSize \/ Nodes
    BY <2>1 DEF TargetSize, DecreaseTargetSize, Nodes
  <2>2. CASE Refresh
    BY <2>0, <2>2, GotoType DEF Refresh
  <2>3. CASE FetchOK(t)
    BY <2>0, <2>3, GotoType DEF FetchOK
  <2>4. CASE FetchFails(t) \/ Regenerate(t)
    <3>1. Goto(t, "idle") /\ pc[t] \in {"fetch", "regen"}
      BY <2>4 DEF FetchFails, Regenerate, ForceRefreshReturns
    <3> QED
      BY <2>0, <3>1, GotoType
  <2> QED
    BY <2>1, <2>2, <2>3, <2>4
<1> QED
  BY <1>1, <1>5, <1>6 DEF Quiet, HeapQuiet

\* A waiter writes at most the ETag of its own put's object.
LEMMA WaiterQuiet == ASSUME TypeOK, Waiter PROVE Quiet
<1>1. PICK p \in puts : WaiterDone(p) \/ WaiterFails(p)
  BY DEF Waiter
<1>2. UNCHANGED <<call, held, pc, cached>> /\ puts' \subseteq puts
  BY <1>1 DEF WaiterDone, WaiterFails
<1>3. p.obj \in Obj /\ objs[p.obj] \in ObjType
  BY DEF TypeOK, PutType
<1>4. ASSUME NEW e, Heap([objs EXCEPT ![p.obj].etag = e]) PROVE HeapQuiet
  <2> DEFINE h == [objs EXCEPT ![p.obj].etag = e]
  <2>1. \A x \in Obj : /\ h[x].cap = objs[x].cap
                       /\ h[x].backed = objs[x].backed
                       /\ x # p.obj => h[x] = objs[x]
    BY <1>3 DEF TypeOK, ObjType
  <2>a. Heap(h)
    BY <1>4
  <2> HIDE DEF h
  <2>2. cached \in Obj => objs'[cached] = h[cached]
    BY <1>2, <2>a, CachedLive
  <2>3. held'.eff \in Obj => objs'[held'.eff] = h[held'.eff]
    BY <2>a, HeldLive
  <2> QED
    BY <1>2, <2>1, <2>2, <2>3 DEF HeapQuiet
<1>5. HeapQuiet
  BY <1>1, <1>2, <1>4, SweepQuiet DEF WaiterDone, WaiterFails
<1> QED
  BY <1>2, <1>5 DEF Quiet, HeapQuiet

\* The steps of a deletion are quiet.
LEMMA DeleterQuiet == ASSUME TypeOK, NEW d \in Deleters, Deleter(d) PROVE Quiet
<1> USE DEF At
<1>0. d \in Thread
  BY DEF Thread
<1>1. CASE TargetSize(d) \/ FetchOK(d) \/ FetchFails(d) \/ Regenerate(d)
  BY <1>0, <1>1, ReadingQuiet
<1>2. ASSUME UNCHANGED mainVars, HeapQuiet, NEW l \in Label, Goto(d, l)
      PROVE  Quiet
  BY <1>2, DeleterGoto DEF Quiet, HeapQuiet, mainVars
<1>3. {"delete", "mark", "wait", "retry", "rewait", "fetch", "idle"}
        \subseteq Label
  BY DEF Label
<1>4. ASSUME NEW n \in 1..MaxBatch, DeleteNodes(d, n) PROVE Quiet
  BY <1>2, <1>3, <1>4, GetCurSizeQuiet DEF DeleteNodes, Ask, mainVars
<1>5. ASSUME NEW n \in 1..MaxBatch, ForceDeleteNodes(d, n) PROVE Quiet
  BY <1>2, <1>3, <1>5, UnchangedQuiet DEF ForceDeleteNodes, Ask, cacheVars
<1>6. CASE \/ DeleteAccepted(d) \/ DeleteRefused(d) \/ DeleteDone(d)
           \/ Preempted(d) \/ RetryDelete(d) \/ RetryDeleteDone(d)
           \/ DeleteFails(d) \/ \E unreg \in BOOLEAN : MarkDeleted(d, unreg)
  <2>1. UNCHANGED <<objs, cached>> /\ UNCHANGED mainVars
    BY <1>6 DEF DeleteAccepted, DeleteRefused, DeleteDone, Preempted,
                RetryDelete, RetryDeleteDone, DeleteFails, MarkDeleted,
                cacheVars
  <2>2. PICK l \in Label : Goto(d, l)
    BY <1>3, <1>6 DEF DeleteAccepted, DeleteRefused, DeleteDone, Preempted,
                      RetryDelete, RetryDeleteDone, DeleteFails, MarkDeleted
  <2> QED
    BY <1>2, <2>1, <2>2, UnchangedQuiet
<1> QED
  BY <1>1, <1>4, <1>5, <1>6 DEF Deleter

\* Everything but the steps of an increase is quiet.
LEMMA QuietStep == ASSUME TypeOK, [Next]_vars, ~IncreaseStep PROVE Quiet
<1>1. Main \in Thread
  BY DEF Thread
<1>2. CASE Environment
  BY <1>2, UnchangedQuiet DEF Environment, Tick, OtherWriter, VMSSRemoved,
                              Quiet, HeapQuiet, cacheVars, mainVars
<1>3. CASE UNCHANGED vars
  BY <1>3 DEF vars, Quiet
<1> QED
  BY <1>1, <1>2, <1>3, ReadingQuiet, WaiterQuiet, DeleterQuiet
     DEF Next, MainStep

\* Quiet steps keep BackedInv.
LEMMA BackedQuiet == ASSUME TypeOK, BackedInv, Quiet PROVE BackedInv'
<1>1. cached \in Obj \cup {NoObj} /\ held.eff \in Obj \cup {NoObj}
      /\ PointersOK
  BY DEF TypeOK, HeldType
<1> QED
  BY <1>1 DEF Quiet, BackedInv, PointersOK

\* A return keeps BackedInv once the cached object is backed.
LEMMA BackedReturn ==
  ASSUME TypeOK, Return, cached' \in Obj => objs'[cached'].backed,
         cached' \in Obj \cup {NoObj}
  PROVE  BackedInv'
<1>1. pc'[Main] = "idle"
  BY ReturnType
<1> QED
  BY <1>1 DEF BackedInv

\* The error returns of initCreateOrUpdate keep BackedInv.
LEMMA BackedFailed ==
  ASSUME TypeOK, BackedInv, Failed, UNCHANGED cached,
         pc[Main] \in {"put", "retryGet", "retryPut"}
  PROVE  BackedInv'
<1>0. Main \in Thread /\ "rollback" \in Label /\ cached \in Obj \cup {NoObj}
  BY DEF Thread, Label, TypeOK
<1>1. CASE call.kind = "plain"
  <2>1. pc'[Main] = "rollback" /\ UNCHANGED <<call, held, objs>>
    BY <1>0, <1>1, GotoType DEF Failed
  <2> QED
    BY <2>1 DEF BackedInv
<1>2. CASE call.kind # "plain"
  <2>1. Return /\ Heap(objs)
    BY <1>2 DEF Failed
  <2>2. cached \in Obj => objs[cached].backed
    BY <1>2, ObjAssumption DEF BackedInv, NoObj
  <2>3. cached' \in Obj => objs'[cached'].backed
    BY <2>1, <2>2, CachedLive
  <2> QED
    BY <1>0, <2>1, <2>3, BackedReturn
<1> QED
  BY <1>1, <1>2

\* The steps of an increase keep BackedInv.
LEMMA BackedIncrease ==
  ASSUME TypeOK, BackedInv, IncreaseStep PROVE BackedInv'
<1> USE DEF At
<1>0. /\ Main \in Thread /\ cached \in Obj \cup {NoObj}
      /\ held.obj \in Obj \cup {NoObj} /\ held.eff \in Obj \cup {NoObj}
      /\ PointersOK /\ NoObj \notin Obj
  BY ObjAssumption DEF Thread, TypeOK, HeldType, NoObj
<1>a. {"idle", "sized", "put", "retryGet", "retrySet", "retryPut", "carry",
       "publish", "poll", "rollback"} \subseteq Label
  BY DEF Label
<1>b. pc[Main] \in {"idle", "sized", "retryPut", "publish", "poll"}
        => (cached \in Obj => objs[cached].backed)
  BY <1>0 DEF BackedInv
<1>1. ASSUME NEW delta \in Deltas, NEW kind \in {"plain", "atomic"},
             BeginIncrease(kind, delta)
      PROVE  BackedInv'
  <2>1. HeapQuiet
    BY <1>1, GetCurSizeQuiet DEF BeginIncrease
  <2>2. pc'[Main] = "sized"
    BY <1>0, <1>a, <1>1, GotoType DEF BeginIncrease
  <2>3. cached' \in Obj => objs'[cached'].backed
    BY <1>0, <1>1, <1>b, <2>1 DEF HeapQuiet, BeginIncrease
  <2>4. cached' \in Obj \cup {NoObj}
    BY <1>1, GetCurSizeType DEF BeginIncrease
  <2> QED
    BY <2>2, <2>3, <2>4 DEF BackedInv
<1>2. CASE LoadVMSS
  <2>1. CASE cached = NoObj /\ Return /\ UNCHANGED objs
    BY <1>0, <1>2, <2>1, BackedReturn DEF LoadVMSS, EagerUpdate
  <2>2. CASE /\ cached # NoObj
             /\ held' = [NoHeld EXCEPT !.obj = cached]
             /\ Goto(Main, "put")
             /\ IF call.kind = "plain"
                THEN /\ call' = [call EXCEPT !.prev = objs[cached].cap]
                     /\ objs' = [objs EXCEPT ![cached].cap = call.target,
                                             ![cached].backed = FALSE]
                ELSE UNCHANGED <<call, objs>>
    <3>1. pc'[Main] = "put" /\ cached' = cached /\ held'.obj = cached
      BY <1>0, <1>a, <1>2, <2>2, GotoType DEF LoadVMSS, EagerUpdate, NoHeld
    <3>2. CASE call.kind = "plain"
      <4>1. call'.kind = "plain"
        BY <2>2, <3>2 DEF TypeOK, CallType
      <4> QED
        BY <3>1, <4>1 DEF BackedInv
    <3>3. CASE call.kind # "plain"
      <4>1. objs' = objs
        BY <2>2, <3>3
      <4>2. objs[cached].backed
        BY <1>0, <1>2, <1>b, <2>2 DEF LoadVMSS, EagerUpdate
      <4> QED
        BY <3>1, <4>1, <4>2 DEF BackedInv
    <3> QED
      BY <3>2, <3>3
  <2> QED
    BY <1>2, <2>1, <2>2 DEF LoadVMSS, EagerUpdate
<1>3. ASSUME NEW o \in Obj, Accepted(o)
      PROVE  /\ pc'[Main] = IF call.kind = "atomic" THEN "poll" ELSE "carry"
             /\ call'.poller # 0 /\ call'.kind = call.kind
             /\ held'.eff = o /\ held'.obj = held.obj
             /\ UNCHANGED <<objs, cached>>
  <2>1. pc'[Main] = IF call.kind = "atomic" THEN "poll" ELSE "carry"
    BY <1>0, <1>a, <1>3, GotoType DEF Accepted
  <2>2. vmss'.etag # 0
    BY <1>3, AcceptType DEF Accepted, TypeOK, VmssType
  <2>3. call'.poller # 0 /\ call'.kind = call.kind
    BY <1>3, <2>2 DEF Accepted, TypeOK, CallType
  <2>4. held'.eff = o /\ held'.obj = held.obj
    BY <1>3 DEF Accepted, TypeOK, HeldType
  <2> QED
    BY <1>3, <2>1, <2>3, <2>4 DEF Accepted, cacheVars
<1>4. CASE PutAccepted
  <2>1. held.obj \in Obj /\ Accepted(held.obj)
    BY <1>0, <1>4 DEF PutAccepted, PointersOK
  <2> QED
    BY <1>0, <1>3, <1>4, <2>1 DEF PutAccepted, BackedInv
<1>5. CASE RetryPutAccepted
  <2>1. held.eff \in Obj /\ Accepted(held.eff) /\ held.obj # NoObj
    BY <1>0, <1>5 DEF RetryPutAccepted, PointersOK
  <2> QED
    BY <1>0, <1>3, <1>5, <2>1 DEF RetryPutAccepted, BackedInv
<1>6. CASE PutConflict
  <2>1. pc'[Main] = "retryGet" /\ UNCHANGED <<objs, cached, call, held>>
    BY <1>0, <1>a, <1>6, GotoType DEF PutConflict, cacheVars, mainVars
  <2> QED
    BY <1>6, <2>1 DEF PutConflict, BackedInv
<1>7. CASE PutFails \/ RetryPutFails
  BY <1>7, BackedFailed DEF PutFails, RetryPutFails
<1>8. CASE RetryGet
  <2>1. CASE \E o \in Obj : /\ Free(o)
                            /\ held' = [held EXCEPT !.eff = o]
                            /\ Heap([objs EXCEPT ![o] = Fetched])
                            /\ Goto(Main, "retrySet") /\ UNCHANGED call
    <3>1. PICK o \in Obj : /\ Free(o)
                           /\ held' = [held EXCEPT !.eff = o]
                           /\ Heap([objs EXCEPT ![o] = Fetched])
                           /\ Goto(Main, "retrySet") /\ UNCHANGED call
      BY <2>1
    <3>2. pc'[Main] = "retrySet" /\ cached' = cached
      BY <1>0, <1>a, <1>8, <3>1, GotoType DEF RetryGet
    <3>3. held'.eff = o /\ held'.obj = held.obj
      BY <3>1 DEF TypeOK, HeldType
    <3>4. o # held.obj /\ o # cached
      BY <1>0, <3>1 DEF Free, Live
    <3> DEFINE h == [objs EXCEPT ![o] = Fetched]
    <3>5. Heap(h) /\ h[o].backed /\ \A x \in Obj : x # o => h[x] = objs[x]
      BY <3>1 DEF TypeOK, Fetched
    <3> HIDE DEF h
    <3>6. cached \in Obj => objs'[cached] = objs[cached]
      BY <3>2, <3>4, <3>5, CachedLive
    <3>7. objs'[held'.eff] = h[held'.eff]
      BY <3>3, <3>5, HeldLive
    <3> QED
      BY <1>0, <1>8, <3>1, <3>2, <3>3, <3>4, <3>5, <3>6, <3>7
         DEF RetryGet, BackedInv
  <2>2. CASE Failed
    BY <1>8, <2>2, BackedFailed DEF RetryGet
  <2> QED
    BY <1>8, <2>1, <2>2 DEF RetryGet
<1>9. CASE RetrySet
  <2>1. /\ cached' = held.eff /\ held.eff \in Obj /\ held.obj # NoObj
        /\ UNCHANGED <<held, call>> /\ Heap(objs)
    BY <1>0, <1>9 DEF RetrySet, PointersOK, mainVars
  <2>2. objs'[held.eff] = objs[held.eff]
    BY <2>1, CachedLive
  <2>3. objs[held.eff].backed /\ held.eff # held.obj
    BY <1>9 DEF RetrySet, BackedInv
  <2>4. \/ pc'[Main] = "carry" /\ objs[held.eff].cap >= call.target
        \/ pc'[Main] = "retryPut"
    BY <1>0, <1>a, <1>9, GotoType DEF RetrySet
  <2> QED
    BY <2>1, <2>2, <2>3, <2>4 DEF BackedInv
<1>10. CASE Rollback
  <2> DEFINE h == [objs EXCEPT ![held.obj].cap = call.prev,
                               ![held.obj].backed = TRUE]
  <2>1. Heap(h) /\ cached' = cached /\ Return
    BY <1>10 DEF Rollback
  <2>2. cached \in Obj => h[cached].backed
    <3>1. CASE cached = held.obj
      BY <3>1 DEF TypeOK, ObjType
    <3>2. CASE cached # held.obj
      BY <1>0, <3>2 DEF TypeOK, BackedInv
    <3> QED
      BY <3>1, <3>2
  <2> HIDE DEF h
  <2>3. cached' \in Obj => objs'[cached'].backed
    BY <2>1, <2>2, CachedLive
  <2> QED
    BY <1>0, <2>1, <2>3, BackedReturn
<1>11. CASE Carry
  <2>1. pc'[Main] = "publish" /\ UNCHANGED <<cached, call, held>>
    BY <1>0, <1>a, <1>11, GotoType DEF Carry, mainVars
  <2>2. held.eff \in Obj
    BY <1>0, <1>11 DEF Carry, PointersOK
  <2>3. CASE call.poller # 0
    <3>1. objs' = [objs EXCEPT ![held.eff].cap = call.target,
                               ![held.eff].backed = TRUE]
      BY <1>11, <2>3 DEF Carry
    <3>2. objs'[held.eff].backed
          /\ \A x \in Obj : x # held.eff => objs'[x] = objs[x]
      BY <2>2, <3>1 DEF TypeOK, ObjType
    <3>3. cached \in Obj => objs'[cached].backed
      BY <1>0, <1>11, <3>2 DEF BackedInv, Carry
    <3> QED
      BY <1>0, <2>1, <2>3, <3>3 DEF BackedInv
  <2>4. CASE call.poller = 0
    <3>1. objs' = objs
      BY <1>11, <2>4 DEF Carry
    <3>2. cached \in Obj => objs[cached].backed
      BY <1>0, <1>11, <2>4 DEF BackedInv, Carry
    <3> QED
      BY <1>0, <1>11, <2>1, <3>1, <3>2 DEF BackedInv, Carry
  <2> QED
    BY <2>3, <2>4
<1>12. CASE Publish \/ PollFails
  <2>1. cached' = cached /\ Heap(objs) /\ Return
    BY <1>12 DEF Publish, PollFails
  <2>2. cached' \in Obj => objs'[cached'].backed
    BY <1>12, <1>b, <2>1, CachedLive DEF Publish, PollFails
  <2> QED
    BY <1>0, <2>1, <2>2, BackedReturn
<1>13. CASE PollDone
  <2>1. PICK e \in RespEtag(call.poller) :
          Heap([objs EXCEPT
               ![held.eff] = [cap |-> call.target, backed |-> TRUE,
                              etag |-> IF EnableVMSSEtag /\ e # 0
                                       THEN e ELSE @.etag]])
    BY <1>13 DEF PollDone
  <2> DEFINE h == [objs EXCEPT
               ![held.eff] = [cap |-> call.target, backed |-> TRUE,
                              etag |-> IF EnableVMSSEtag /\ e # 0
                                       THEN e ELSE @.etag]]
  <2>2. Heap(h)
    BY <2>1
  <2>3. cached \in Obj => h[cached].backed
    <3>1. CASE cached = held.eff
      BY <3>1 DEF TypeOK
    <3>2. CASE cached # held.eff
      BY <1>13, <1>b, <3>2 DEF TypeOK, PollDone
    <3> QED
      BY <3>1, <3>2
  <2> HIDE DEF h
  <2>4. cached' = cached /\ Return
    BY <1>13 DEF PollDone
  <2>5. cached' \in Obj => objs'[cached'].backed
    BY <2>2, <2>3, <2>4, CachedLive
  <2> QED
    BY <1>0, <2>4, <2>5, BackedReturn
<1> QED
  BY <1>1, <1>2, <1>4, <1>5, <1>6, <1>7, <1>8, <1>9, <1>10, <1>11, <1>12,
     <1>13 DEF IncreaseStep

\* BackedInv is an invariant.
LEMMA BackedInvariant == Spec => []BackedInv
<1>1. Init => BackedInv
  <2> SUFFICES ASSUME Init PROVE BackedInv
    OBVIOUS
  <2>1. pc[Main] = "idle"
    BY DEF Init, Thread
  <2>2. objs[cached].backed
    BY DEF Init, Fetched
  <2> QED
    BY <2>1, <2>2 DEF BackedInv
<1>2. TypeOK /\ BackedInv /\ [Next]_vars => BackedInv'
  BY QuietStep, BackedQuiet, BackedIncrease
<1> QED
  BY <1>1, <1>2, TypeCorrect, PTL DEF Spec

\* A desired size that Azure refused never stays on the cached VMSS object.
THEOREM RollbackTheorem == Spec => []NoRejectedSizeLeft
<1>1. BackedInv => NoRejectedSizeLeft
  BY DEF BackedInv, NoRejectedSizeLeft
<1> QED
  BY <1>1, BackedInvariant, PTL

\* An increase succeeds only on Azure's word, and publishes at least its
\* target.
THEOREM SuccessTheorem == Spec => []SuccessIsEarned
<1>1. TypeOK /\ BackedInv => SuccessIsEarned
  BY DEF TypeOK, CallType, BackedInv, SuccessIsEarned, PublishedSize
<1> QED
  BY <1>1, TypeCorrect, BackedInvariant, PTL

-----------------------------------------------------------------------------
(* RetryNeverShrinks.                                                      *)

\* The ETag counts the versions of the VMSS: it changes with every write.
Versioned == \/ UNCHANGED vmss
             \/ vmss'.etag = vmss.etag + 1
             \/ ~vmss'.live /\ vmss'.etag = vmss.etag

\* No step but an increase's writes the VMSS under an ETag it already had.
LEMMA VersionedStep == ASSUME TypeOK, [Next]_vars, ~IncreaseStep
                       PROVE  Versioned
<1> USE DEF At
<1>0. vmss \in VmssType /\ vmss.cap \in Nat /\ vmss.etag \in Nat
  BY DEF TypeOK, VmssType
<1>a. ASSUME NEW c \in Nat, ServerWrite(c) PROVE Versioned
  BY <1>a, ServerWriteType DEF Versioned
<1>b. UNCHANGED vmss => Versioned
  BY DEF Versioned
<1>1. ASSUME NEW t \in Thread,
             \/ TargetSize(t) \/ DecreaseTargetSize \/ Nodes \/ Refresh
             \/ FetchOK(t) \/ FetchFails(t) \/ Regenerate(t)
      PROVE  Versioned
  BY <1>b, <1>1 DEF TargetSize, DecreaseTargetSize, Nodes, Refresh, FetchOK,
                    FetchFails, Regenerate
<1>2. CASE Waiter
  <2>1. PICK p \in puts : WaiterDone(p) \/ WaiterFails(p)
    BY <1>2 DEF Waiter
  <2>2. p.from \in Nat /\ p.etag \in Nat
    BY <2>1 DEF TypeOK, PutType
  <2> QED
    BY <1>b, <2>1, <2>2, FailUpdateType DEF WaiterDone, WaiterFails, Versioned
<1>3. ASSUME NEW d \in Deleters, Deleter(d) PROVE Versioned
  <2>0. d \in Thread /\ job[d].n \in Nat /\ job[d].gone \in Nat
    BY DEF Thread, TypeOK, JobType
  <2>1. ASSUME NEW n \in 1..MaxBatch,
               DeleteNodes(d, n) \/ ForceDeleteNodes(d, n)
        PROVE  Versioned
    BY <1>b, <2>1 DEF DeleteNodes, ForceDeleteNodes
  <2>2. ASSUME NEW k \in 0..job[d].n, k <= vmss.cap, Remove(k)
        PROVE  Versioned
    <3>1. k \in Nat
      BY <2>0
    <3> QED
      BY <2>2, <3>1, RemoveType DEF Versioned
  <2>3. CASE DeleteAccepted(d) \/ RetryDelete(d)
    BY <2>2, <2>3 DEF DeleteAccepted, RetryDelete, BeginDelete
  <2>4. CASE DeleteRefused(d)
    <3>1. \A k \in 1..job[d].n : k \in 0..job[d].n
      BY <2>0
    <3> QED
      BY <1>b, <2>2, <2>4, <3>1 DEF DeleteRefused
  <2>5. CASE DeleteFails(d)
    <3>1. \A c \in vmss.cap + 1 .. vmss.cap + job[d].gone : c \in Nat
      BY <1>0, <2>0
    <3> QED
      BY <1>a, <1>b, <2>5, <3>1 DEF DeleteFails
  <2>6. ASSUME NEW unreg \in BOOLEAN, MarkDeleted(d, unreg) PROVE Versioned
    BY <1>b, <2>6 DEF MarkDeleted
  <2>7. CASE DeleteDone(d) \/ Preempted(d) \/ RetryDeleteDone(d)
    BY <1>b, <2>7 DEF DeleteDone, Preempted, RetryDeleteDone
  <2> QED
    BY <1>1, <1>3, <2>0, <2>1, <2>3, <2>4, <2>5, <2>6, <2>7 DEF Deleter
<1>4. CASE Tick \/ UNCHANGED vars
  BY <1>b, <1>4 DEF Tick, vars
<1>5. CASE OtherWriter
  <2>1. \A c \in 0..MaxSize : c \in Nat
    OBVIOUS
  <2> QED
    BY <1>5, <1>a, <2>1 DEF OtherWriter
<1>6. CASE VMSSRemoved
  BY <1>0, <1>6 DEF VMSSRemoved, Versioned, VmssType
<1>7. Main \in Thread
  BY DEF Thread
<1> QED
  BY <1>1, <1>2, <1>3, <1>4, <1>5, <1>6, <1>7 DEF Next, MainStep, Environment

\* What other goroutines do does not disturb a running retry.
LEMMA RetryQuiet == ASSUME TypeOK, RetryInv, Quiet, Versioned PROVE RetryInv'
<1>1. /\ held.eff \in Obj \cup {NoObj} /\ PointersOK
      /\ vmss.etag \in Nat /\ vmss.live \in BOOLEAN
      /\ held.eff \in Obj => objs[held.eff].etag \in Nat
  BY DEF TypeOK, HeldType, VmssType, ObjType
<1>2. CASE pc'[Main] # pc[Main]
  BY <1>2 DEF Quiet, RetryInv
<1>3. CASE pc'[Main] = pc[Main] /\ pc[Main] \notin {"retrySet", "retryPut"}
  BY <1>3 DEF Quiet, RetryInv
<1>4. CASE pc'[Main] = pc[Main] /\ pc[Main] \in {"retrySet", "retryPut"}
  <2>1. /\ held.eff \in Obj /\ EnableVMSSEtag
        /\ \A p \in puts : p.obj # held.eff
        /\ objs[held.eff].etag <= vmss.etag
        /\ vmss.live /\ objs[held.eff].etag = vmss.etag
             => objs[held.eff].cap = vmss.cap
    BY <1>1, <1>4 DEF RetryInv, PointersOK
  <2>2. /\ objs'[held.eff].cap = objs[held.eff].cap
        /\ objs'[held.eff].etag = objs[held.eff].etag
        /\ held' = held /\ call' = call /\ puts' \subseteq puts
    BY <2>1 DEF Quiet
  <2>3. /\ objs'[held'.eff].etag <= vmss'.etag
        /\ vmss'.live /\ objs'[held'.eff].etag = vmss'.etag
             => objs'[held'.eff].cap = vmss'.cap
    BY <1>1, <2>1, <2>2 DEF Versioned
  <2>4. pc'[Main] = "retryPut" => objs'[held'.eff].cap < call'.target
    BY <1>4, <2>2 DEF RetryInv
  <2> QED
    BY <1>4, <2>1, <2>2, <2>3, <2>4 DEF RetryInv
<1> QED
  BY <1>2, <1>3, <1>4

\* The steps of the increase itself.
LEMMA RetryIncrease == ASSUME TypeOK, RetryInv, IncreaseStep PROVE RetryInv'
<1> USE DEF At
<1>0. /\ Main \in Thread /\ held.eff \in Obj \cup {NoObj}
      /\ PointersOK /\ vmss.etag \in Nat
  BY DEF Thread, TypeOK, HeldType, VmssType
<1>a. {"idle", "sized", "put", "retryGet", "retrySet", "retryPut", "carry",
       "publish", "poll", "rollback"} \subseteq Label
  BY DEF Label
<1>b. pc'[Main] \notin {"retryGet", "retrySet", "retryPut"} => RetryInv'
  BY DEF RetryInv
<1>c. Return => RetryInv'
  BY <1>b, ReturnType
<1>d. Failed => RetryInv'
  BY <1>0, <1>a, <1>b, <1>c, GotoType DEF Failed
<1>1. ASSUME NEW delta \in Deltas, NEW kind \in {"plain", "atomic"},
             BeginIncrease(kind, delta)
      PROVE  RetryInv'
  BY <1>0, <1>1, <1>a, <1>b, GotoType DEF BeginIncrease
<1>2. CASE LoadVMSS
  BY <1>0, <1>2, <1>a, <1>b, <1>c, GotoType DEF LoadVMSS, EagerUpdate
<1>3. CASE PutAccepted \/ RetryPutAccepted
  BY <1>0, <1>3, <1>a, <1>b, GotoType
     DEF PutAccepted, RetryPutAccepted, Accepted
<1>4. CASE PutConflict
  <2>1. pc'[Main] = "retryGet" /\ EnableVMSSEtag
    BY <1>0, <1>4, <1>a, GotoType DEF PutConflict
  <2> QED
    BY <2>1 DEF RetryInv
<1>5. CASE PutFails \/ RetryPutFails
  BY <1>5, <1>d DEF PutFails, RetryPutFails
<1>6. CASE RetryGet
  <2>1. CASE \E o \in Obj : /\ Free(o)
                            /\ held' = [held EXCEPT !.eff = o]
                            /\ Heap([objs EXCEPT ![o] = Fetched])
                            /\ Goto(Main, "retrySet")
    <3>1. PICK o \in Obj : /\ Free(o)
                           /\ held' = [held EXCEPT !.eff = o]
                           /\ Heap([objs EXCEPT ![o] = Fetched])
                           /\ Goto(Main, "retrySet")
      BY <2>1
    <3>2. pc'[Main] = "retrySet" /\ EnableVMSSEtag /\ UNCHANGED <<puts, vmss>>
      BY <1>0, <1>a, <1>6, <3>1, GotoType DEF RetryGet, RetryInv
    <3>3. held'.eff = o
      BY <3>1 DEF TypeOK, HeldType
    <3>4. \A p \in puts : p.obj # o
      BY <3>1, ObjAssumption DEF Free, Live, NoObj
    <3> DEFINE h == [objs EXCEPT ![o] = Fetched]
    <3>5. Heap(h) /\ h[o].cap = vmss.cap /\ h[o].etag = vmss.etag
      BY <3>1, <3>2 DEF TypeOK, Fetched
    <3> HIDE DEF h
    <3>6. objs'[held'.eff] = h[held'.eff]
      BY <3>3, <3>5, HeldLive
    <3> QED
      BY <1>0, <3>2, <3>3, <3>4, <3>5, <3>6 DEF RetryInv
  <2>2. CASE Failed
    BY <1>d, <2>2
  <2> QED
    BY <1>6, <2>1, <2>2 DEF RetryGet
<1>7. CASE RetrySet
  <2>1. /\ cached' = held.eff /\ held.eff \in Obj
        /\ UNCHANGED <<vmss, held, call, puts>> /\ Heap(objs)
    BY <1>0, <1>7 DEF RetrySet, PointersOK, mainVars
  <2>2. objs'[held.eff] = objs[held.eff]
    BY <2>1, CachedLive
  <2>3. \/ pc'[Main] = "carry"
        \/ pc'[Main] = "retryPut" /\ objs[held.eff].cap < call.target
    BY <1>0, <1>a, <1>7, GotoType DEF RetrySet
  <2> QED
    BY <1>7, <2>1, <2>2, <2>3 DEF RetrySet, RetryInv
<1>8. CASE Rollback \/ Publish \/ PollDone \/ PollFails
  BY <1>8, <1>c DEF Rollback, Publish, PollDone, PollFails
<1>9. CASE Carry
  BY <1>0, <1>9, <1>a, <1>b, GotoType DEF Carry
<1> QED
  BY <1>1, <1>2, <1>3, <1>4, <1>5, <1>6, <1>7, <1>8, <1>9 DEF IncreaseStep

\* RetryInv is an invariant.
LEMMA RetryInvariant == Spec => []RetryInv
<1>1. Init => RetryInv
  BY DEF Init, RetryInv, Thread
<1>2. TypeOK /\ RetryInv /\ [Next]_vars => RetryInv'
  BY QuietStep, VersionedStep, RetryQuiet, RetryIncrease
<1> QED
  BY <1>1, <1>2, TypeCorrect, PTL DEF Spec

\* The PUT that initCreateOrUpdate repeats after a 412 cannot lower the
\* capacity of the VMSS: its ETag is that of the capacity it was compared with.
THEOREM RetryTheorem == Spec => RetryNeverShrinks
<1> USE DEF At
<1>1. TypeOK /\ RetryInv /\ [Next]_vars =>
        [At(Main, "retryPut") /\ pc'[Main] # "retryPut"
           => vmss'.cap >= vmss.cap]_vars
  <2> SUFFICES ASSUME TypeOK, RetryInv, [Next]_vars,
                      pc[Main] = "retryPut", pc'[Main] # "retryPut"
               PROVE  vmss'.cap >= vmss.cap
    OBVIOUS
  <2>0. /\ vmss.cap \in Nat /\ call.target \in Nat /\ held.eff \in Obj
        /\ objs[held.eff].cap \in Nat
    BY DEF TypeOK, VmssType, CallType, PointersOK, HeldType, ObjType
  <2>1. ASSUME Accept(held.eff) PROVE vmss'.cap >= vmss.cap
    <3>1. objs[held.eff].cap = vmss.cap
      BY <2>1 DEF Accept, IfMatch, RetryInv
    <3>2. objs[held.eff].cap < call.target
      BY DEF RetryInv
    <3>3. vmss'.cap = call.target
      BY <2>0, <2>1, AcceptType
    <3> QED
      BY <2>0, <3>1, <3>2, <3>3
  <2>2. CASE ~IncreaseStep
    BY <2>2, QuietStep DEF Quiet
  <2>3. CASE RetryPutAccepted
    BY <2>1, <2>3 DEF RetryPutAccepted, Accepted
  <2>4. CASE RetryPutFails
    BY <2>0, <2>1, <2>4 DEF RetryPutFails, PutRefused
  <2>5. CASE IncreaseStep /\ ~RetryPutAccepted /\ ~RetryPutFails
    BY <2>5 DEF IncreaseStep, BeginIncrease, LoadVMSS, EagerUpdate, PutAccepted,
                PutConflict, PutFails, RetryGet, RetrySet, Rollback, Carry,
                Publish, PollDone, PollFails
  <2> QED
    BY <2>2, <2>3, <2>4, <2>5
<1> QED
  BY <1>1, TypeCorrect, RetryInvariant, PTL DEF Spec, RetryNeverShrinks

=============================================================================
