--------------------------- MODULE ProviderProofs ---------------------------
(***************************************************************************)
(* Proofs about LeaderElection and Provider, for any replicas, durations   *)
(* and inputs: that at most one replica leads, that the processes          *)
(* implement the election, that a process remembers nothing of an earlier  *)
(* life, and what holds of the provider it builds.                         *)
(***************************************************************************)
EXTENDS Provider, TemplateProofs

-----------------------------------------------------------------------------
(* The election by itself: at most one replica leads, for any number of    *)
(* replicas, durations and faults.                                         *)

\* A leader is the holder written in the lease, measures the same age as the others
\* do, and has not reached the age at which they may take the lease over.
LeaderHolds ==
    \A r \in Leaders : holder = r /\ age = since[r] /\ since[r] <= RenewDeadline

LEInv == LETypeOK /\ LeaderHolds

\* The lease and the durations start out as the invariant says: nobody leads.
LEMMA ElectionInit == LEInit => LEInv
  BY DurationAssumption, FaultAssumption, ReplicaAssumption
     DEF LEInit, LEInv, LETypeOK, LeaderHolds, Leaders, Stages

\* Nobody leads when a replica may take the lease that it does not lead by.
LEMMA NoLeaderWhenFree ==
    ASSUME LEInv, NEW r \in Replica, stage[r] = "standby", MayAcquire(r)
    PROVE  Leaders = {}
  <1> SUFFICES ASSUME NEW q \in Leaders PROVE FALSE
    OBVIOUS
  <1>1. q # r
    BY DEF Leaders
  <1>2. holder = q /\ age <= RenewDeadline
    BY DEF LEInv, LeaderHolds
  <1>3. q \in Replica
    BY DEF Leaders
  <1>4. ~(age >= LeaseDuration)
    BY <1>2, DurationAssumption DEF LEInv, LETypeOK
  <1> QED
    BY <1>1, <1>2, <1>3, <1>4, ReplicaAssumption DEF MayAcquire, leaderElectionConfiguration

\* Every step of the election keeps the leader the holder of a lease that is young
\* enough.
LEMMA ElectionPreserved == LEInv /\ [LENext]_leVars => LEInv'
  <1> SUFFICES ASSUME LEInv, [LENext]_leVars PROVE LEInv'
    OBVIOUS
  <1> USE DurationAssumption, FaultAssumption, ReplicaAssumption DEF LEInv
  <1>1. ASSUME NEW r \in Replica, Acquire(r) PROVE LEInv'
    <2>1. Leaders = {}
      BY <1>1, NoLeaderWhenFree DEF Acquire
    <2>2. LETypeOK'
      BY <1>1 DEF Acquire, LETypeOK, Stages
    <2>3. Leaders' = {r}
      BY <1>1, <2>1 DEF Acquire, Leaders, LETypeOK
    <2>4. holder' = r /\ age' = 0 /\ since'[r] = 0
      BY <1>1 DEF Acquire, LETypeOK
    <2> QED
      BY <2>2, <2>3, <2>4 DEF LeaderHolds
  <1>2. ASSUME NEW r \in Replica, Renew(r) PROVE LEInv'
    <2>1. LETypeOK'
      BY <1>2 DEF Renew, LETypeOK
    <2>2. Leaders' = Leaders /\ \A q \in Leaders : q = r
      BY <1>2 DEF Renew, Leaders, LeaderHolds
    <2>3. holder' = r /\ age' = 0 /\ since'[r] = 0
      BY <1>2 DEF Renew, LETypeOK
    <2> QED
      BY <2>1, <2>2, <2>3 DEF LeaderHolds
  <1>3. ASSUME Tick PROVE LEInv'
    <2>1. \A r \in Leaders : r \in Replica /\ since[r] < RenewDeadline /\ age = since[r]
      BY <1>3 DEF Tick, leaderElectionConfiguration, LeaderHolds, Leaders
    <2>2. since' \in [Replica -> 0..LeaseDuration]
      BY <1>3, <2>1 DEF Tick, LETypeOK
    <2>3. age' \in 0..LeaseDuration /\ faults' \in 0..MaxFaults
      BY <1>3 DEF Tick, LETypeOK
    <2>4. LETypeOK'
      BY <1>3, <2>2, <2>3 DEF Tick, LETypeOK
    <2>5. Leaders' = Leaders
      BY <1>3 DEF Tick, Leaders
    <2>6. ASSUME NEW r \in Leaders
          PROVE  holder' = r /\ age' = since'[r] /\ since'[r] <= RenewDeadline
      <3>1. since'[r] = since[r] + 1
        BY <1>3, <2>1 DEF Tick
      <3>2. age' = age + 1
        BY <1>3, <2>1 DEF Tick, LETypeOK
      <3>3. since[r] \in Nat
        BY <2>1 DEF LETypeOK
      <3>4. holder' = r
        BY <1>3 DEF Tick, LeaderHolds
      <3> QED
        BY <2>1, <3>1, <3>2, <3>3, <3>4
    <2> QED
      BY <2>4, <2>5, <2>6 DEF LeaderHolds
  <1>4. ASSUME NEW r \in Replica, StopLeading(r) PROVE LEInv'
    <2>1. LETypeOK'
      BY <1>4 DEF StopLeading, LETypeOK, Stages
    <2>2. \A q \in Leaders : q = r
      BY <1>4 DEF StopLeading, LeaderHolds, Leaders
    <2>3. Leaders' = {}
      BY <1>4, <2>2 DEF StopLeading, Leaders, LETypeOK
    <2> QED
      BY <2>1, <2>3 DEF LeaderHolds
  <1>5. ASSUME NEW r \in Replica, NEW s \in Stages \ {"leading"},
               stage' = [stage EXCEPT ![r] = s], faults' \in 0..MaxFaults,
               UNCHANGED <<holder, age, since>>
        PROVE  LEInv'
    <2>1. LETypeOK'
      BY <1>5 DEF LETypeOK
    <2>2. Leaders' \subseteq Leaders
      BY <1>5 DEF Leaders, LETypeOK
    <2> QED
      BY <1>5, <2>1, <2>2 DEF LeaderHolds
  <1>6. ASSUME NEW r \in Replica, OnStoppedLeading(r) \/ Fatal(r) PROVE LEInv'
    BY <1>5, <1>6 DEF OnStoppedLeading, Fatal, LETypeOK, Stages
  <1>7. ASSUME NEW r \in Replica, Crash(r) PROVE LEInv'
    <2>1. faults' \in 0..MaxFaults
      BY <1>7 DEF Crash, LETypeOK
    <2> QED
      BY <1>5, <1>7, <2>1 DEF Crash, Stages
  <1>8. ASSUME NEW r \in Replica, Restart(r) PROVE LEInv'
    BY <1>5, <1>8 DEF Restart, LETypeOK, Stages
  <1>9. ASSUME CallFails PROVE LEInv'
    BY <1>9 DEF CallFails, LETypeOK, LeaderHolds, Leaders
  <1>10. ASSUME UNCHANGED leVars PROVE LEInv'
    BY <1>10 DEF leVars, LETypeOK, LeaderHolds, Leaders
  <1> QED
    BY <1>1, <1>2, <1>3, <1>4, <1>6, <1>7, <1>8, <1>9, <1>10 DEF LENext

\* Two replicas never act at once, whatever renewals are missed and whichever
\* replicas are killed and restarted.
THEOREM AtMostOneLeader == LESpec => []OneLeader
  <1>1. LEInv => OneLeader
    BY DEF LEInv, LeaderHolds, OneLeader
  <1> QED
    BY <1>1, ElectionInit, ElectionPreserved, PTL DEF LESpec

-----------------------------------------------------------------------------
(* The election, as the whole goes through it.                             *)

\* A call that fails in the middle of a refresh is a fault or the end of the process.
LEMMA RefreshFailsElection ==
    ASSUME NEW r \in Replica, NEW c, RefreshFails(r, c)
    PROVE  LENext
  BY DEF RefreshFails, LENext

\* Building the provider touches the election by failing calls and fatal errors only.
LEMMA BuildElection ==
    ASSUME NEW r \in Replica, Build(r)
    PROVE  [LENext]_leVars
  <1>1. CASE BuildConfig(r)
    BY <1>1 DEF BuildConfig, LENext
  <1>2. CASE NewClient(r)
    BY <1>2 DEF NewClient, LENext
  <1>3. CASE FirstLoad(r)
    BY <1>3 DEF FirstLoad, LENext
  <1>4. CASE FetchSKUs(r)
    BY <1>4 DEF FetchSKUs, LENext
  <1>5. CASE BuildGroups(r)
    BY <1>5 DEF BuildGroups, LENext
  <1>6. CASE Discover(r)
    BY <1>6 DEF Discover
  <1>7. CASE Fetch(r)
    BY <1>7, RefreshFailsElection DEF Fetch
  <1>8. CASE Publish(r)
    BY <1>8, RefreshFailsElection DEF Publish, LENext
  <1> QED
    BY <1>1, <1>2, <1>3, <1>4, <1>5, <1>6, <1>7, <1>8 DEF Build

\* Every step of the whole is one of the election, or leaves it alone.
LEMMA ElectionStep == [Next]_vars => [LENext]_leVars
  <1> SUFFICES ASSUME [Next]_vars PROVE [LENext]_leVars
    OBVIOUS
  <1>1. CASE Time
    BY <1>1 DEF Time, LENext
  <1>2. ASSUME NEW r \in Replica, Elect(r) PROVE LENext
    BY <1>2 DEF Elect, LENext
  <1>3. ASSUME NEW r \in Replica, End(r) PROVE LENext
    BY <1>3 DEF End, LENext
  <1>4. ASSUME NEW r \in Replica, Start(r) PROVE LENext
    BY <1>4 DEF Start, LENext
  <1>5. ASSUME NEW r \in Replica, Refresh(r) \/ Ask(r) PROVE UNCHANGED leVars
    BY <1>5 DEF Refresh, Ask, AskTemplate, AskOptions, AskOwner
  <1>6. CASE UNCHANGED vars
    BY <1>6 DEF vars, leVars
  <1> QED
    BY <1>1, <1>2, <1>3, <1>4, <1>5, <1>6, BuildElection DEF Next

\* The processes implement the election: whatever a replica does while it builds and
\* serves the provider, the lease and the leaders change as LeaderElection says.
THEOREM Refinement == Spec => ImplementsElection
  <1>1. Init => LEInit
    BY DEF Init
  <1> QED
    BY <1>1, ElectionStep, PTL DEF Spec, LESpec, ImplementsElection

\* So at most one of the processes that build and serve the provider acts at a time.
THEOREM OneProviderActs == Spec => []OneLeader
  BY Refinement, AtMostOneLeader, PTL DEF ImplementsElection

-----------------------------------------------------------------------------
(* What a step means to one replica.                                       *)

\* Every replica has a process.
Shape ==
    /\ stage \in [Replica -> Stages]
    /\ step \in [Replica -> StartUp] /\ done \in [Replica -> Nat]
    /\ tries \in [Replica -> Nat] /\ up \in [Replica -> BOOLEAN]
    /\ DOMAIN config = Replica /\ DOMAIN client = Replica
    /\ DOMAIN cache = Replica /\ DOMAIN groups = Replica

\* The memory of a process that has done nothing yet.
Fresh(q) ==
    /\ step[q] = "config" /\ done[q] = 0 /\ tries[q] = 0 /\ up[q] = FALSE
    /\ config[q] = Defaults /\ client[q] = NoClient
    /\ cache[q] = NewCache /\ groups[q] = <<>>

Out(q) == stage[q] \in {"standby", "dead"}

\* The process of q keeps its memory, and does not end.
Stays(q) ==
    /\ step'[q] = step[q] /\ done'[q] = done[q] /\ tries'[q] = tries[q] /\ up'[q] = up[q]
    /\ config'[q] = config[q] /\ client'[q] = client[q]
    /\ cache'[q] = cache[q] /\ groups'[q] = groups[q]
    /\ Out(q)' => Out(q)

\* A process that has ended has forgotten everything.
LEMMA ForgetFresh ==
    ASSUME Shape, NEW r \in Replica, Forget(r)
    PROVE  /\ Fresh(r)'
           /\ \A q \in Replica \ {r} :
                /\ step'[q] = step[q] /\ done'[q] = done[q] /\ tries'[q] = tries[q]
                /\ up'[q] = up[q] /\ config'[q] = config[q] /\ client'[q] = client[q]
                /\ cache'[q] = cache[q] /\ groups'[q] = groups[q]
           /\ stage' \in [Replica -> Stages] => Shape'
  BY DEF Shape, Forget, Fresh, StartUp

\* The end of a process, whichever way.
LEMMA EndFresh ==
    ASSUME Shape, NEW r \in Replica, OnStoppedLeading(r) \/ Crash(r) \/ Fatal(r), Forget(r)
    PROVE  /\ Shape' /\ Fresh(r)' /\ stage'[r] = "dead"
           /\ \A q \in Replica \ {r} : Stays(q)
  <1>1. stage' = [stage EXCEPT ![r] = "dead"]
    BY DEF OnStoppedLeading, Crash, Fatal
  <1>2. stage' \in [Replica -> Stages] /\ stage'[r] = "dead"
        /\ \A q \in Replica \ {r} : stage'[q] = stage[q]
    BY <1>1 DEF Shape, Stages
  <1> QED
    BY <1>2, ForgetFresh DEF Stays, Out

-----------------------------------------------------------------------------
(* The steps of a process that goes on, as changes of its memory.          *)

NoneRefused == \A d \in input.discovery : ~RefusedDiscovery(d)

DidConfig(q) ==
    /\ step[q] = "config" /\ step'[q] = "client"
    /\ ~Configured[scenario].err /\ KnownCloud(Configured[scenario].cfg)
    /\ config'[q] = Configured[scenario].cfg
    /\ done'[q] = done[q] /\ tries'[q] = tries[q] /\ up'[q] = up[q]
    /\ client'[q] = client[q] /\ cache'[q] = cache[q] /\ groups'[q] = groups[q]

DidClient(q) ==
    /\ step[q] = "client" /\ step'[q] = "load"
    /\ client'[q] = newAzClient(input, config[q]) /\ ~newAzClient(input, config[q]).err
    /\ done'[q] = done[q] /\ tries'[q] = tries[q] /\ up'[q] = up[q]
    /\ config'[q] = config[q] /\ cache'[q] = cache[q] /\ groups'[q] = groups[q]

DidLoad(q) ==
    /\ step[q] = "load" /\ step'[q] = "skus"
    /\ \E failing \in Failing(q) :
          cache'[q] = LET c == fetchAzureResources(NewCache, config[q].EnableVMsAgentPool, failing)
                      IN  IF failing = "nothing"
                          THEN [Published(<<>>, c) EXCEPT !.first = TRUE] ELSE c
    /\ done'[q] = done[q] /\ tries'[q] = tries[q] /\ up'[q] = up[q]
    /\ config'[q] = config[q] /\ client'[q] = client[q] /\ groups'[q] = groups[q]

DidSKUs(q) ==
    /\ step[q] = "skus" /\ step'[q] = "groups"
    /\ \E skus \in {input.api, {}} : /\ cache'[q] = [cache[q] EXCEPT !.api = skus]
                                     /\ config'[q] = WithoutDynamicList(config[q], skus)
    /\ done'[q] = done[q] /\ tries'[q] = tries[q] /\ up'[q] = up[q]
    /\ client'[q] = client[q] /\ groups'[q] = groups[q]

DidSpec(q) ==
    /\ step[q] = "groups" /\ step'[q] = "groups" /\ NoneRefused
    /\ done[q] < Len(input.specs) /\ done'[q] = done[q] + 1
    /\ ~RefusedSpec(NextSpec(q), q)
    /\ groups'[q] = Register(groups[q], buildNodeGroupFromSpec(NextSpec(q), q))
    /\ tries'[q] = tries[q] /\ up'[q] = up[q]
    /\ config'[q] = config[q] /\ client'[q] = client[q] /\ cache'[q] = cache[q]

DidSpecs(q) ==
    /\ step[q] = "groups" /\ step'[q] = "discover" /\ NoneRefused
    /\ done[q] = Len(input.specs) /\ done'[q] = done[q]
    /\ tries'[q] = tries[q] /\ up'[q] = up[q] /\ config'[q] = config[q]
    /\ client'[q] = client[q] /\ cache'[q] = cache[q] /\ groups'[q] = groups[q]

DidDiscover(q) ==
    /\ step[q] = "discover" /\ step'[q] = "fetch"
    /\ groups'[q] = fetchAutoNodeGroups(groups[q], cache[q], config[q])
    /\ \E s \in {cache[q].unowned, {}} : cache'[q] = [cache[q] EXCEPT !.unowned = s]
    /\ done'[q] = done[q] /\ tries'[q] = tries[q] /\ up'[q] = up[q]
    /\ config'[q] = config[q] /\ client'[q] = client[q]

DidFetch(q) ==
    /\ step[q] = "fetch" /\ step'[q] = "publish"
    /\ cache'[q] = fetchAzureResources(cache[q], config[q].EnableVMsAgentPool, "nothing")
    /\ done'[q] = done[q] /\ tries'[q] = tries[q] /\ up'[q] = up[q]
    /\ config'[q] = config[q] /\ client'[q] = client[q] /\ groups'[q] = groups[q]

DidFail(q) ==
    /\ \/ step[q] = "fetch" /\ \E failing \in Failing(q) \ {"nothing"} :
             cache'[q] = fetchAzureResources(cache[q], config[q].EnableVMsAgentPool, failing)
       \/ step[q] = "publish" /\ cache'[q] = cache[q]
    /\ \/ up[q] /\ step'[q] = "running" /\ tries'[q] = tries[q]
       \/ ~up[q] /\ MayRetry(q) /\ step'[q] = "discover" /\ tries'[q] = tries[q] + 1
    /\ done'[q] = done[q] /\ up'[q] = up[q]
    /\ config'[q] = config[q] /\ client'[q] = client[q] /\ groups'[q] = groups[q]

DidPublish(q) ==
    /\ step[q] = "publish" /\ step'[q] = "running" /\ up'[q] = TRUE
    /\ NodesFail(groups[q], cache[q]) => up[q]
    /\ cache'[q] = IF NodesFail(groups[q], cache[q]) THEN cache[q]
                   ELSE Published(groups[q], cache[q])
    /\ done'[q] = done[q] /\ tries'[q] = tries[q]
    /\ config'[q] = config[q] /\ client'[q] = client[q] /\ groups'[q] = groups[q]

DidRefresh(q) ==
    /\ step[q] = "running" /\ step'[q] = "discover"
    /\ done'[q] = done[q] /\ tries'[q] = tries[q] /\ up'[q] = up[q] /\ config'[q] = config[q]
    /\ client'[q] = client[q] /\ cache'[q] = cache[q] /\ groups'[q] = groups[q]

\* NodeGroupForNode, which may find that nobody owns the machine.
DidAsk(q) ==
    /\ step[q] = "running" /\ step'[q] = "running"
    /\ \E new \in SUBSET {inst \in input.nodes : Omitted(inst, cache[q], config[q].VMType)} :
          cache'[q] = [cache[q] EXCEPT !.unowned = @ \cup new]
    /\ done'[q] = done[q] /\ tries'[q] = tries[q] /\ up'[q] = up[q]
    /\ config'[q] = config[q] /\ client'[q] = client[q] /\ groups'[q] = groups[q]

Works(q) ==
    \/ DidConfig(q) \/ DidClient(q) \/ DidLoad(q) \/ DidSKUs(q) \/ DidSpec(q) \/ DidSpecs(q)
    \/ DidDiscover(q) \/ DidFetch(q) \/ DidFail(q) \/ DidPublish(q) \/ DidRefresh(q)
    \/ DidAsk(q)

\* What becomes of the process of q in a step: it goes on, ends, or is not concerned.
Outcome(q) ==
    \/ Stays(q)
    \/ Fresh(q)' /\ stage'[q] = "dead"
    \/ Works(q) /\ stage[q] = "leading" /\ stage'[q] = "leading"

\* A step of one process that goes on, the election and the others being left alone.
LEMMA GoesOn ==
    ASSUME Shape, NEW r \in Replica, stage' = stage, stage[r] = "leading", Works(r),
           \A q \in Replica \ {r} :
              /\ step'[q] = step[q] /\ done'[q] = done[q] /\ tries'[q] = tries[q]
              /\ up'[q] = up[q] /\ config'[q] = config[q] /\ client'[q] = client[q]
              /\ cache'[q] = cache[q] /\ groups'[q] = groups[q],
           step' \in [Replica -> StartUp], done' \in [Replica -> Nat],
           tries' \in [Replica -> Nat], up' \in [Replica -> BOOLEAN],
           DOMAIN config' = Replica, DOMAIN client' = Replica,
           DOMAIN cache' = Replica, DOMAIN groups' = Replica
    PROVE  Shape' /\ Outcome(r) /\ \A q \in Replica \ {r} : Stays(q)
  BY DEF Shape, Stays, Out, Outcome

\* The steps of createAzureManagerInternal before the first refresh.
LEMMA StartOutcome ==
    ASSUME Shape, NEW r \in Replica,
           BuildConfig(r) \/ NewClient(r) \/ FirstLoad(r) \/ FetchSKUs(r) \/ BuildGroups(r)
    PROVE  Shape' /\ Outcome(r) /\ \A q \in Replica \ {r} : Stays(q)
  <1> USE DEF Outcome, Works
  <1>1. CASE Forget(r) /\ Fatal(r)
    BY <1>1, EndFresh
  <1>2. CASE Forget(r) /\ Crash(r)
    BY <1>2, EndFresh
  <1>4. CASE BuildConfig(r)
    <2>1. CASE Configured[scenario].err \/ ~KnownCloud(Configured[scenario].cfg)
      BY <1>1, <1>4, <2>1 DEF BuildConfig
    <2>2. CASE ~(Configured[scenario].err \/ ~KnownCloud(Configured[scenario].cfg))
      <3>1. DidConfig(r)
        BY <1>4, <2>2 DEF BuildConfig, DidConfig, Goto, At, Shape
      <3> QED
        BY GoesOn, <1>4, <2>2, <3>1 DEF BuildConfig, Goto, At, Shape, StartUp, leVars
    <2> QED
      BY <2>1, <2>2
  <1>5. CASE NewClient(r)
    <2>1. CASE newAzClient(input, config[r]).err
      BY <1>1, <1>5, <2>1 DEF NewClient
    <2>2. CASE ~newAzClient(input, config[r]).err
      <3>1. DidClient(r)
        BY <1>5, <2>2 DEF NewClient, DidClient, Goto, At, Shape
      <3> QED
        BY GoesOn, <1>5, <2>2, <3>1 DEF NewClient, Goto, At, Shape, StartUp, leVars
    <2> QED
      BY <2>1, <2>2
  <1>6. CASE FirstLoad(r)
    <2>1. DidLoad(r)
      BY <1>6 DEF FirstLoad, DidLoad, Goto, At, Shape
    <2>2. stage' = stage
      BY <1>6 DEF FirstLoad, CallFails, leVars
    <2> QED
      BY GoesOn, <1>6, <2>1, <2>2 DEF FirstLoad, Goto, At, Shape, StartUp
  <1>7. CASE FetchSKUs(r)
    <2>1. DidSKUs(r)
      BY <1>7 DEF FetchSKUs, DidSKUs, Goto, At, Shape
    <2>2. stage' = stage
      BY <1>7 DEF FetchSKUs, CallFails, leVars
    <2> QED
      BY GoesOn, <1>7, <2>1, <2>2 DEF FetchSKUs, Goto, At, Shape, StartUp
  <1>8. CASE BuildGroups(r)
    <2>1. CASE /\ NoneRefused /\ done[r] < Len(input.specs) /\ ~RefusedSpec(NextSpec(r), r)
               /\ groups' = [groups EXCEPT ![r] =
                                Register(@, buildNodeGroupFromSpec(NextSpec(r), r))]
               /\ done' = [done EXCEPT ![r] = @ + 1]
               /\ UNCHANGED <<leVars, step, tries, up, config, client, cache>>
      <3>1. DidSpec(r)
        BY <1>8, <2>1 DEF BuildGroups, DidSpec, At, Shape
      <3>2. done' \in [Replica -> Nat]
        BY <2>1 DEF Shape
      <3>3. stage' = stage /\ stage[r] = "leading"
        BY <1>8, <2>1 DEF BuildGroups, At, leVars
      <3> QED
        BY GoesOn, <2>1, <3>1, <3>2, <3>3 DEF Shape, Works
    <2>2. CASE /\ NoneRefused /\ done[r] = Len(input.specs) /\ Goto(r, "discover")
               /\ UNCHANGED <<leVars, done, tries, up, config, client, cache, groups>>
      <3>1. DidSpecs(r)
        BY <1>8, <2>2 DEF BuildGroups, DidSpecs, Goto, At, Shape
      <3> QED
        BY GoesOn, <1>8, <2>2, <3>1 DEF BuildGroups, Goto, At, Shape, StartUp, leVars
    <2> QED
      BY <1>1, <1>2, <1>8, <2>1, <2>2 DEF BuildGroups, NoneRefused
  <1> QED
    BY <1>4, <1>5, <1>6, <1>7, <1>8

\* A call that fails in the middle of a refresh ends the process or is tried again.
LEMMA RefreshFailsOutcome ==
    ASSUME Shape, NEW r \in Replica, stage[r] = "leading",
           NEW c, RefreshFails(r, c),
           \/ step[r] = "fetch" /\ \E failing \in Failing(r) \ {"nothing"} :
                 c = fetchAzureResources(cache[r], config[r].EnableVMsAgentPool, failing)
           \/ step[r] = "publish" /\ c = cache[r]
    PROVE  Shape' /\ Outcome(r) /\ \A q \in Replica \ {r} : Stays(q)
  <1>1. CASE ~up[r] /\ Crash(r) /\ Forget(r)
    BY <1>1, EndFresh DEF Outcome
  <1>2. CASE /\ CallFails
             /\ cache' = [cache EXCEPT ![r] = c]
             /\ UNCHANGED <<done, up, config, client, groups>>
             /\ \/ up[r] /\ Goto(r, "running") /\ UNCHANGED tries
                \/ /\ ~up[r] /\ MayRetry(r) /\ Goto(r, "discover")
                   /\ tries' = [tries EXCEPT ![r] = @ + 1]
    <2>1. stage' = stage
      BY <1>2 DEF CallFails
    <2>2. DidFail(r)
      <3>1. cache'[r] = c /\ done'[r] = done[r] /\ up'[r] = up[r]
            /\ config'[r] = config[r] /\ client'[r] = client[r] /\ groups'[r] = groups[r]
        BY <1>2 DEF Shape
      <3>2. \/ up[r] /\ step'[r] = "running" /\ tries'[r] = tries[r]
            \/ ~up[r] /\ MayRetry(r) /\ step'[r] = "discover" /\ tries'[r] = tries[r] + 1
        BY <1>2 DEF Shape, Goto
      <3> QED
        BY <3>1, <3>2 DEF DidFail
    <2> QED
      BY <1>2, <2>1, <2>2, GoesOn DEF Works, Goto, Shape, StartUp
  <1> QED
    BY <1>1, <1>2 DEF RefreshFails

\* The steps of a refresh.
LEMMA RefreshOutcome ==
    ASSUME Shape, NEW r \in Replica,
           Discover(r) \/ Fetch(r) \/ Publish(r) \/ Refresh(r) \/ AskOwner(r)
    PROVE  Shape' /\ Outcome(r) /\ \A q \in Replica \ {r} : Stays(q)
  <1>1. CASE Discover(r)
    <2>1. DidDiscover(r)
      BY <1>1 DEF Discover, DidDiscover, At, Goto, Shape
    <2> QED
      BY <1>1, <2>1, GoesOn DEF Works, Discover, At, Goto, Shape, StartUp, leVars
  <1>2. CASE Fetch(r)
    <2>1. PICK failing \in Failing(r) :
             LET c == fetchAzureResources(cache[r], config[r].EnableVMsAgentPool, failing)
             IN  \/ failing # "nothing" /\ RefreshFails(r, c)
                 \/ /\ failing = "nothing"
                    /\ cache' = [cache EXCEPT ![r] = c]
                    /\ Goto(r, "publish")
                    /\ UNCHANGED <<leVars, done, tries, up, config, client, groups>>
      BY <1>2 DEF Fetch
    <2>2. CASE failing # "nothing"
      BY <1>2, <2>1, <2>2, RefreshFailsOutcome DEF Fetch, At
    <2>3. CASE failing = "nothing"
      <3>1. DidFetch(r)
        BY <1>2, <2>1, <2>3 DEF Fetch, DidFetch, At, Goto, Shape
      <3> QED
        BY <1>2, <2>1, <2>3, <3>1, GoesOn DEF Works, Fetch, At, Goto, Shape, StartUp, leVars
    <2> QED
      BY <2>2, <2>3
  <1>3. CASE Publish(r)
    <2>1. CASE RefreshFails(r, cache[r])
      BY <1>3, <2>1, RefreshFailsOutcome DEF Publish, At
    <2>2. CASE Fatal(r) /\ Forget(r)
      BY <2>2, EndFresh DEF Outcome
    <2>3. CASE /\ NodesFail(groups[r], cache[r]) => up[r]
               /\ cache' = [cache EXCEPT ![r] =
                               IF NodesFail(groups[r], cache[r]) THEN @ ELSE Published(groups[r], @)]
               /\ up' = [up EXCEPT ![r] = TRUE]
               /\ Goto(r, "running")
               /\ UNCHANGED <<leVars, done, tries, config, client, groups>>
      <3>1. DidPublish(r)
        BY <1>3, <2>3 DEF Publish, DidPublish, At, Goto, Shape
      <3> QED
        BY <1>3, <2>3, <3>1, GoesOn DEF Works, Publish, At, Goto, Shape, StartUp, leVars
    <2> QED
      BY <1>3, <2>1, <2>2, <2>3 DEF Publish
  <1>4. CASE Refresh(r)
    <2>1. DidRefresh(r)
      BY <1>4 DEF Refresh, DidRefresh, At, Goto, Shape
    <2> QED
      BY <1>4, <2>1, GoesOn DEF Works, Refresh, At, Goto, Shape, StartUp, leVars
  <1>5. CASE AskOwner(r)
    <2>1. PICK inst \in input.nodes :
             cache' = [cache EXCEPT ![r].unowned =
                          IF /\ inst.azure /\ inst \notin cache[r].unowned
                             /\ Omitted(inst, cache[r], config[r].VMType)
                          THEN @ \cup {inst} ELSE @]
      BY <1>5 DEF AskOwner
    <2>2. \E new \in SUBSET {n \in input.nodes : Omitted(n, cache[r], config[r].VMType)} :
             cache'[r] = [cache[r] EXCEPT !.unowned = @ \cup new]
      <3>1. CASE /\ inst.azure /\ inst \notin cache[r].unowned
                 /\ Omitted(inst, cache[r], config[r].VMType)
        <4>1. cache'[r] = [cache[r] EXCEPT !.unowned = @ \cup {inst}]
          BY <2>1, <3>1 DEF Shape
        <4> QED
          BY <3>1, <4>1
      <3>2. CASE ~(/\ inst.azure /\ inst \notin cache[r].unowned
                   /\ Omitted(inst, cache[r], config[r].VMType))
        <4>1. cache'[r] = [cache[r] EXCEPT !.unowned = @]
          BY <2>1, <3>2 DEF Shape
        <4>2. cache[r].unowned \cup {} = cache[r].unowned
          OBVIOUS
        <4> QED
          BY <4>1, <4>2
      <3> QED
        BY <3>1, <3>2
    <2>3. DidAsk(r)
      BY <1>5, <2>1, <2>2 DEF AskOwner, DidAsk, At, Shape
    <2> QED
      BY <1>5, <2>1, <2>3, GoesOn DEF Works, AskOwner, At, Shape, leVars
  <1> QED
    BY <1>1, <1>2, <1>3, <1>4, <1>5

\* Whatever happens, every process goes on, ends or is not concerned, and what it is
\* given stays the same.
LEMMA StepOutcome ==
    ASSUME Shape, [Next]_vars
    PROVE  Shape' /\ scenario' = scenario /\ \A q \in Replica : Outcome(q)
  <1>1. scenario' = scenario
    BY DEF Next, vars, Time, Elect, End, Start, Build, BuildConfig, NewClient, FirstLoad,
           FetchSKUs, BuildGroups, Discover, Fetch, Publish, Refresh, Ask, AskTemplate,
           AskOptions, AskOwner
  <1>2. ASSUME NEW r \in Replica, Shape', Outcome(r), \A q \in Replica \ {r} : Stays(q)
        PROVE  Shape' /\ \A q \in Replica : Outcome(q)
    BY <1>2 DEF Outcome
  <1>3. ASSUME UNCHANGED procVars, stage' \in [Replica -> Stages],
               \A q \in Replica : Out(q)' => Out(q)
        PROVE  Shape' /\ \A q \in Replica : Outcome(q)
    BY <1>3 DEF procVars, Shape, Outcome, Stays
  <1>4. CASE UNCHANGED vars
    BY <1>3, <1>4 DEF vars, leVars, procVars, Shape, Out
  <1>5. CASE Time
    BY <1>3, <1>5 DEF Time, Tick, Shape, Out
  <1>6. ASSUME NEW r \in Replica, Elect(r) PROVE Shape' /\ \A q \in Replica : Outcome(q)
    BY <1>3, <1>6 DEF Elect, Acquire, Renew, StopLeading, Shape, Out, Stages
  <1>7. ASSUME NEW r \in Replica, End(r) PROVE Shape' /\ \A q \in Replica : Outcome(q)
    BY <1>2, <1>7, EndFresh DEF End, Outcome
  <1>8. ASSUME NEW r \in Replica, Start(r) PROVE Shape' /\ \A q \in Replica : Outcome(q)
    BY <1>3, <1>8 DEF Start, Restart, Shape, Out, Stages
  <1>9. ASSUME NEW r \in Replica, Build(r) \/ Refresh(r) \/ Ask(r)
        PROVE  Shape' /\ \A q \in Replica : Outcome(q)
    <2>1. CASE AskTemplate(r) \/ AskOptions(r)
      BY <1>3, <2>1 DEF AskTemplate, AskOptions, leVars, Shape, Out
    <2> QED
      BY <1>2, <1>9, <2>1, StartOutcome, RefreshOutcome DEF Build, Ask
  <1> QED
    BY <1>1, <1>4, <1>5, <1>6, <1>7, <1>8, <1>9 DEF Next

-----------------------------------------------------------------------------
(* Types, and a process that remembers nothing.                            *)

\* What TypeOK says, replica by replica.
TypeInv ==
    /\ LEInv /\ Shape
    /\ scenario \in DOMAIN Inputs
    /\ answer.query \in {"none", "template", "options", "owner"}
    /\ \A q \in Replica : /\ done[q] <= Len(input.specs)
                          /\ tries[q] < Steps
                          /\ Out(q) => Fresh(q)

\* No step registers a spec that is not there, attempts the first refresh once too
\* often, or leaves a process that has ended with a memory.
LEMMA TypeStep == TypeInv /\ [Next]_vars => TypeInv'
  <1> SUFFICES ASSUME TypeInv, [Next]_vars PROVE TypeInv'
    OBVIOUS
  <1>1. LEInv'
    BY ElectionStep, ElectionPreserved DEF TypeInv
  <1>2. Shape' /\ scenario' = scenario /\ \A q \in Replica : Outcome(q)
    BY StepOutcome DEF TypeInv
  <1>3. answer'.query \in {"none", "template", "options", "owner"}
    BY DEF TypeInv, Next, NoAnswer, Ask, AskTemplate, AskOptions, AskOwner, vars
  <1>4. ASSUME NEW q \in Replica
        PROVE  done'[q] <= Len(input.specs) /\ tries'[q] < Steps /\ (Out(q)' => Fresh(q)')
    <2>1. /\ done[q] \in Nat /\ done[q] <= Len(input.specs)
          /\ tries[q] \in Nat /\ tries[q] < Steps /\ (Out(q) => Fresh(q))
      BY DEF TypeInv, Shape
    <2>2. Len(input.specs) \in Nat
      BY InputsAssumption DEF TypeInv, input
    <2>3. CASE Stays(q)
      BY <2>1, <2>3 DEF Stays, Fresh
    <2>4. CASE Fresh(q)'
      BY <2>2, <2>4, StepsAssumption DEF Fresh
    <2>5. CASE Works(q) /\ stage'[q] = "leading"
      BY <2>1, <2>2, <2>5, StepsAssumption
         DEF Works, DidConfig, DidClient, DidLoad, DidSKUs, DidSpec, DidSpecs, DidDiscover,
             DidFetch, DidFail, DidPublish, DidRefresh, DidAsk, MayRetry, Out
    <2> QED
      BY <1>2, <2>3, <2>4, <2>5 DEF Outcome
  <1>5. input' = input
    BY <1>2 DEF input
  <1> QED
    BY <1>1, <1>2, <1>3, <1>4, <1>5 DEF TypeInv

\* Nothing has been done at first.
LEMMA TypeInit == Init => TypeInv
  <1> SUFFICES ASSUME Init PROVE TypeInv
    OBVIOUS
  <1>1. LEInv
    BY ElectionInit DEF Init
  <1>2. Shape /\ \A q \in Replica : Fresh(q)
    BY DEF Init, LEInit, Shape, Fresh, Stages, StartUp
  <1>3. Len(input.specs) \in Nat
    BY InputsAssumption DEF Init, input
  <1> QED
    BY <1>1, <1>2, <1>3, StepsAssumption DEF Init, TypeInv, Fresh, NoAnswer

\* In every reachable state a process that is not in run() remembers nothing of an
\* earlier life, no more specs are registered than there are, and the first refresh is
\* attempted no more than Steps times.
THEOREM TypeCorrect == Spec => []TypeOK
  <1>1. TypeInv => TypeOK
    BY StepsAssumption DEF TypeInv, TypeOK, LEInv, Shape, Fresh, Out
  <1> QED
    BY <1>1, TypeInit, TypeStep, PTL DEF Spec

-----------------------------------------------------------------------------
(* The list of registered groups.                                          *)

\* A list, of whatever elements.
IsList(list) == list \in Seq(Range(list))

\* Those: a list of just the elements at the indexes, each index once.
LEMMA ThoseElements ==
    ASSUME NEW list, IsList(list), NEW S \in SUBSET DOMAIN list
    PROVE  \E at \in [1..Cardinality(S) -> S] :
              /\ Cardinality(S) \in Nat
              /\ Those(list, S) = [k \in 1..Cardinality(S) |-> list[at[k]]]
              /\ \A k, l \in 1..Cardinality(S) : at[k] = at[l] => k = l
              /\ \A i \in S : \E k \in 1..Cardinality(S) : at[k] = i
  <1> DEFINE n == Cardinality(S)
             at == [k \in 1..n |-> CHOOSE i \in S : Cardinality({j \in S : j <= i}) = k]
  <1>1. S \in SUBSET Nat /\ IsFiniteSet(S)
    <2>1. DOMAIN list = 1..Len(list) /\ Len(list) \in Nat
      BY DEF IsList
    <2>2. IsFiniteSet(1..Len(list)) /\ S \in SUBSET (1..Len(list))
      BY <2>1, FS_Interval
    <2> QED
      BY <2>1, <2>2, FS_Subset
  <1>2. n \in Nat /\ \A k \in 1..n : \E i \in S : Cardinality({j \in S : j <= i}) = k
    BY <1>1, Ranks
  <1>3. \A k \in 1..n : at[k] \in S /\ Cardinality({j \in S : j <= at[k]}) = k
    BY <1>2
  <1>4. at \in [1..n -> S]
    BY <1>3
  <1>5. Those(list, S) = [k \in 1..n |-> list[at[k]]]
    BY DEF Those
  <1>6. \A k, l \in 1..n : at[k] = at[l] => k = l
    BY <1>3
  <1>7. ASSUME NEW i \in S PROVE \E k \in 1..n : at[k] = i
    <2>1. at \in Injection(1..n, S)
      BY <1>4, <1>6 DEF Injection, IsInjective
    <2>2. IsFiniteSet(1..n) /\ Cardinality(1..n) = n
      BY <1>2, FS_Interval
    <2>3. at \in Surjection(1..n, S)
      BY <1>1, <2>1, <2>2, FS_Injection
    <2> QED
      BY <2>3 DEF Surjection
  <1> HIDE DEF at
  <1> QED
    BY <1>2, <1>4, <1>5, <1>6, <1>7

\* SetToSeq: each element of a finite set, once.
LEMMA SetToSeqElements ==
    ASSUME NEW S, IsFiniteSet(S)
    PROVE  /\ Cardinality(S) \in Nat
           /\ SetToSeq(S) \in [1..Cardinality(S) -> S]
           /\ \A k, l \in 1..Cardinality(S) : SetToSeq(S)[k] = SetToSeq(S)[l] => k = l
           /\ \A x \in S : \E k \in 1..Cardinality(S) : SetToSeq(S)[k] = x
  <1> DEFINE n == Cardinality(S)
  <1>1. n \in Nat /\ ExistsBijection(1..n, S)
    BY FS_CardinalityType
  <1>2. \E f \in [1..n -> S] : IsInjective(f)
    BY <1>1 DEF ExistsBijection, Bijection, Injection
  <1>3. SetToSeq(S) \in [1..n -> S] /\ IsInjective(SetToSeq(S))
    BY <1>2 DEF SetToSeq
  <1>4. IsFiniteSet(1..n) /\ Cardinality(1..n) = n
    BY <1>1, FS_Interval
  <1>5. SetToSeq(S) \in Surjection(1..n, S)
    BY <1>3, <1>4, FS_Injection DEF Injection
  <1> QED
    BY <1>1, <1>3, <1>5 DEF IsInjective, Surjection

\* Lists of length n, and two lists one after the other.
Lists(n, G) == [1..n -> G]
Join(f, g) == f \o g

\* The second list follows the first.
LEMMA JoinElements ==
    ASSUME NEW G, NEW n \in Nat, NEW m \in Nat, NEW f \in Lists(n, G), NEW g \in Lists(m, G)
    PROVE  /\ Join(f, g) \in Lists(n + m, G)
           /\ \A k \in 1..n : Join(f, g)[k] = f[k]
           /\ \A k \in 1..(n + m) : k > n => k - n \in 1..m /\ Join(f, g)[k] = g[k - n]
  <1>1. f \in Seq(G) /\ Len(f) = n /\ g \in Seq(G) /\ Len(g) = m
    BY DEF Lists
  <1>2. Join(f, g) \in Seq(G) /\ Len(Join(f, g)) = n + m
    BY <1>1 DEF Join
  <1>3. Join(f, g) \in Lists(n + m, G)
    BY <1>2 DEF Lists
  <1>4. ASSUME NEW k \in 1..n PROVE Join(f, g)[k] = f[k]
    BY <1>1 DEF Join
  <1>5. ASSUME NEW k \in 1..(n + m), k > n
        PROVE  k - n \in 1..m /\ Join(f, g)[k] = g[k - n]
    BY <1>1, <1>5 DEF Join
  <1> QED
    BY <1>3, <1>4, <1>5

\* A function on 1..n is a list.
LEMMA ListOf ==
    ASSUME NEW G, NEW n \in Nat, NEW f \in [1..n -> G]
    PROVE  IsList(f) /\ DOMAIN f = 1..n /\ Len(f) = n
  <1>1. f \in [1..n -> Range(f)]
    BY DEF Range
  <1> QED
    BY <1>1 DEF IsList

UniqueIds(list) == \A i, j \in DOMAIN list : list[i].id = list[j].id => i = j

\* Merging keeps explicit groups and adds new ones, and no other; and no id twice.
LEMMA MergedElements ==
    ASSUME NEW list, IsList(list), NEW new, IsFiniteSet(new)
    PROVE  LET m == Merged(list, new)
           IN  /\ IsList(m)
               /\ \A k \in DOMAIN m : \/ m[k] \in new
                                      \/ \E i \in DOMAIN list : list[i].explicit /\ m[k] = list[i]
               /\ \A i \in DOMAIN list : list[i].explicit => \E k \in DOMAIN m : m[k] = list[i]
               /\ \A h \in new : \E k \in DOMAIN m : m[k].id = h.id
               /\ UniqueIds(list) /\ (\A g, h \in new : g.id = h.id => g = h) => UniqueIds(m)
  <1> DEFINE S     == {i \in DOMAIN list : list[i].explicit \/ \E h \in new : h.id = list[i].id}
             kept  == Those(list, S)
             first == [i \in DOMAIN kept |->
                         IF kept[i].explicit THEN kept[i] ELSE CHOOSE h \in new : h.id = kept[i].id]
             R     == {h \in new : \A i \in DOMAIN list : list[i].id # h.id}
             n     == Cardinality(S)
             o     == Cardinality(R)
             G     == Range(list) \cup new
             m     == Merged(list, new)
  <1>1. m = first \o SetToSeq(R)
    BY DEF Merged
  <1>2. PICK at \in [1..n -> S] :
           /\ n \in Nat
           /\ kept = [k \in 1..n |-> list[at[k]]]
           /\ \A k, l \in 1..n : at[k] = at[l] => k = l
           /\ \A i \in S : \E k \in 1..n : at[k] = i
    <2>1. S \in SUBSET DOMAIN list
      OBVIOUS
    <2> HIDE DEF S
    <2> QED
      BY <2>1, ThoseElements
  <1>3. /\ o \in Nat /\ SetToSeq(R) \in [1..o -> R]
        /\ \A k, l \in 1..o : SetToSeq(R)[k] = SetToSeq(R)[l] => k = l
        /\ \A h \in R : \E k \in 1..o : SetToSeq(R)[k] = h
    <2>1. IsFiniteSet(R)
      BY FS_Subset
    <2> QED
      BY <2>1, SetToSeqElements
  <1>4. DOMAIN kept = 1..n /\ \A k \in 1..n : at[k] \in S /\ kept[k] = list[at[k]]
    BY <1>2
  <1>5. ASSUME NEW k \in 1..n
        PROVE  /\ at[k] \in DOMAIN list
               /\ list[at[k]].explicit => first[k] = list[at[k]]
               /\ ~list[at[k]].explicit => first[k] \in new
               /\ first[k].id = list[at[k]].id
    <2>1. k \in DOMAIN kept /\ kept[k] = list[at[k]]
      BY <1>4
    <2>2. kept[k].explicit \/ \E h \in new : h.id = kept[k].id
      BY <1>4, <2>1
    <2>3. at[k] \in DOMAIN list
      BY <1>4
    <2> HIDE DEF kept
    <2>4. first[k] = IF kept[k].explicit THEN kept[k] ELSE CHOOSE h \in new : h.id = kept[k].id
      BY <2>1
    <2> HIDE DEF first, n
    <2>5. /\ kept[k].explicit => first[k] = kept[k]
          /\ ~kept[k].explicit => first[k] \in new
          /\ first[k].id = kept[k].id
      BY <2>2, <2>4
    <2> QED
      BY <2>1, <2>3, <2>5
  <1>6. first \in [1..n -> G]
    <2>1. DOMAIN first = 1..n
      BY <1>4
    <2>2. ASSUME NEW k \in 1..n PROVE first[k] \in G
      <3> HIDE DEF first, n, kept, S
      <3> QED
        BY <1>5 DEF Range
    <2> HIDE DEF G, n, kept
    <2> QED
      BY <2>1, <2>2
  <1>7. SetToSeq(R) \in [1..o -> G]
    <2>1. R \subseteq G
      OBVIOUS
    <2> HIDE DEF R, G, o
    <2> QED
      BY <1>3, <2>1
  <1> HIDE DEF first, n, o, G, kept, m
  <1>8. /\ m \in [1..(n + o) -> G]
        /\ \A k \in 1..n : m[k] = first[k]
        /\ \A k \in 1..(n + o) : k > n => k - n \in 1..o /\ m[k] = SetToSeq(R)[k - n]
    <2> DEFINE rest == SetToSeq(R)
    <2> HIDE DEF rest
    <2>1. m = Join(first, rest) /\ rest \in [1..o -> G]
      BY <1>1, <1>7 DEF rest, Join
    <2>2. n \in Nat /\ o \in Nat
      BY <1>2, <1>3
    <2>3. rest \in Lists(o, G) /\ first \in Lists(n, G)
      BY <1>6, <2>1 DEF Lists
    <2>4. /\ Join(first, rest) \in Lists(n + o, G)
          /\ \A k \in 1..n : Join(first, rest)[k] = first[k]
          /\ \A k \in 1..(n + o) : k > n => k - n \in 1..o /\ Join(first, rest)[k] = rest[k - n]
      <3> HIDE DEF S, R
      <3> QED
        BY <2>2, <2>3, JoinElements
    <2> QED
      BY <2>1, <2>4 DEF rest, Lists
  <1>9. IsList(m) /\ DOMAIN m = 1..(n + o)
    <2>1. n + o \in Nat
      BY <1>2, <1>3
    <2> QED
      BY <1>8, <2>1, ListOf
  <1>10. ASSUME NEW k \in DOMAIN m
         PROVE  \/ m[k] \in new
                \/ \E i \in DOMAIN list : list[i].explicit /\ m[k] = list[i]
    <2>1. CASE k \in 1..n
      BY <1>5, <1>8, <2>1
    <2>2. CASE k \notin 1..n
      <3>1. k - n \in 1..o /\ m[k] = SetToSeq(R)[k - n]
        BY <1>2, <1>3, <1>8, <1>9, <2>2
      <3> QED
        BY <1>3, <3>1
    <2> QED
      BY <2>1, <2>2
  <1>11. ASSUME NEW i \in DOMAIN list, list[i].explicit
         PROVE  \E k \in DOMAIN m : m[k] = list[i]
    <2>1. i \in S
      BY <1>11
    <2>2. PICK k \in 1..n : at[k] = i
      BY <1>2, <2>1
    <2>3. m[k] = list[i]
      BY <1>5, <1>8, <1>11, <2>2
    <2>4. k \in DOMAIN m
      BY <1>2, <1>3, <1>9
    <2> QED
      BY <2>3, <2>4
  <1>12. ASSUME UniqueIds(list), \A g, h \in new : g.id = h.id => g = h
         PROVE  UniqueIds(m)
    <2>1. ASSUME NEW k \in 1..n, NEW l \in 1..n, m[k].id = m[l].id PROVE k = l
      BY <1>2, <1>5, <1>8, <1>12, <2>1 DEF UniqueIds
    <2>2. ASSUME NEW k \in 1..n, NEW l \in 1..(n + o), l > n PROVE m[k].id # m[l].id
      <3>1. m[l] \in R
        BY <1>3, <1>8, <2>2
      <3> QED
        BY <1>5, <1>8, <3>1
    <2>3. ASSUME NEW k \in 1..(n + o), NEW l \in 1..(n + o), k > n, l > n, m[k].id = m[l].id
          PROVE  k = l
      <3>1. m[k] \in new /\ m[l] \in new /\ k - n \in 1..o /\ l - n \in 1..o
            /\ m[k] = SetToSeq(R)[k - n] /\ m[l] = SetToSeq(R)[l - n]
        BY <1>3, <1>8, <2>3
      <3>2. k - n = l - n
        BY <1>3, <1>12, <2>3, <3>1
      <3> QED
        BY <1>2, <1>3, <3>2
    <2>4. \A k \in 1..(n + o) : k > n \/ k \in 1..n
      BY <1>2, <1>3
    <2> QED
      BY <1>9, <2>1, <2>2, <2>3, <2>4 DEF UniqueIds
  <1>13. ASSUME NEW h \in new PROVE \E k \in DOMAIN m : m[k].id = h.id
    <2>1. CASE h \in R
      <3>1. PICK k \in 1..o : SetToSeq(R)[k] = h
        BY <1>3, <2>1
      <3>2. n + k \in 1..(n + o) /\ n + k > n /\ (n + k) - n = k
        BY <1>2, <1>3
      <3>3. m[n + k] = h
        BY <1>8, <3>1, <3>2
      <3> QED
        BY <1>9, <3>2, <3>3
    <2>2. CASE h \notin R
      <3>1. PICK i \in DOMAIN list : list[i].id = h.id
        BY <2>2
      <3>2. i \in S
        BY <3>1
      <3>3. PICK k \in 1..n : at[k] = i
        BY <1>2, <3>2
      <3>4. m[k].id = h.id
        BY <1>5, <1>8, <3>1, <3>3
      <3>5. k \in DOMAIN m
        BY <1>2, <1>3, <1>9
      <3> QED
        BY <3>4, <3>5
    <2> QED
      BY <2>1, <2>2
  <1> QED
    BY <1>9, <1>10, <1>11, <1>12, <1>13 DEF m

-----------------------------------------------------------------------------
(* What the steps do to a configuration and a cache.                       *)

CacheFields == {"scaleSets", "vms", "pools", "api", "owner", "unowned", "options", "first"}

\* The fields of an empty cache.
LEMMA NewCacheFields == DOMAIN NewCache = CacheFields
  BY DEF NewCache, CacheFields

\* A fetch changes the resources and nothing else.
LEMMA FetchedFields ==
    ASSUME NEW c, DOMAIN c = CacheFields, NEW enabled, NEW failing
    PROVE  LET f == fetchAzureResources(c, enabled, failing)
           IN  /\ DOMAIN f = CacheFields
               /\ f.scaleSets \in {c.scaleSets, input.scaleSets}
               /\ f.vms \in {c.vms, input.vms}
               /\ f.pools = IF enabled /\ failing = "nothing" THEN input.pools ELSE c.pools
               /\ failing = "nothing" => f.scaleSets = input.scaleSets /\ f.vms = input.vms
               /\ f.api = c.api /\ f.owner = c.owner /\ f.unowned = c.unowned
               /\ f.options = c.options /\ f.first = c.first
  BY DEF fetchAzureResources, CacheFields

\* The index: the last group to name an instance has it.
OwnerOf(list, c) ==
    [inst \in UNION {NodesOf(list[i], c) : i \in DOMAIN list} |->
        list[CHOOSE i \in DOMAIN list :
                /\ inst \in NodesOf(list[i], c)
                /\ \A j \in DOMAIN list : j > i => inst \notin NodesOf(list[j], c)]]

\* Publishing leaves the resources as they are, and makes the index.
LEMMA PublishedFields ==
    ASSUME NEW list, NEW c, DOMAIN c = CacheFields
    PROVE  LET f == Published(list, c)
           IN  /\ DOMAIN f = CacheFields
               /\ f.scaleSets = c.scaleSets /\ f.vms = c.vms /\ f.pools = c.pools
               /\ f.api = c.api /\ f.first = c.first /\ f.unowned = {}
               /\ f.owner = OwnerOf(list, c)
  <1> DEFINE opt == [name \in {vmss.name : vmss \in c.scaleSets} |->
                        extractAutoscalingOptionsFromScaleSetTags(
                            (CHOOSE vmss \in c.scaleSets : vmss.name = name).tags)]
  <1>1. Published(list, c) = [c EXCEPT !.owner = OwnerOf(list, c), !.options = opt, !.unowned = {}]
    BY DEF Published, OwnerOf
  <1> HIDE DEF opt
  <1> QED
    BY <1>1 DEF CacheFields

\* The fields whose values the proofs look at.
LEMMA ConfigFields ==
    {"EnableVMsAgentPool", "EnableDynamicInstanceList", "EnableLabelPredictionsOnTemplate",
     "VMType", "Cloud", "Location"} \subseteq DOMAIN Defaults
  BY DEF Defaults

\* A configuration has all the fields and no other, whatever file and environment say.
LEMMA ConfiguredFields ==
    ASSUME scenario \in DOMAIN Inputs
    PROVE  DOMAIN Configured[scenario].cfg = DOMAIN Defaults
  <1> DEFINE in     == Inputs[scenario]
             static == WithLegacy(in.file, FromFile(in.file))
             rows   == RowsRead(in.env, static)
             set    == AssignAll(in.env, rows, static)
  <1>1. Configured[scenario].cfg = WithNonstatic(in, set)
    BY DEF Configured, BuildAzureConfig
  <1>2. DOMAIN static = DOMAIN Defaults
    BY DEF WithLegacy, FromFile
  <1> HIDE DEF static
  <1>3. DOMAIN set = DOMAIN static
    BY DEF AssignAll
  <1> HIDE DEF set
  <1>4. DOMAIN WithNonstatic(in, set) = DOMAIN set
    BY DEF WithNonstatic
  <1> QED
    BY <1>1, <1>2, <1>3, <1>4

\* Giving up the list of SKUs changes one flag.
LEMMA WithoutDynamicFields ==
    ASSUME NEW cfg, DOMAIN cfg = DOMAIN Defaults, NEW skus
    PROVE  /\ DOMAIN WithoutDynamicList(cfg, skus) = DOMAIN Defaults
           /\ WithoutDynamicList(cfg, skus).EnableDynamicInstanceList => skus # {}
           /\ WithoutDynamicList(cfg, skus).EnableVMsAgentPool = cfg.EnableVMsAgentPool
           /\ WithoutDynamicList(cfg, skus).VMType = cfg.VMType
           /\ WithoutDynamicList(cfg, skus).EnableLabelPredictionsOnTemplate
              = cfg.EnableLabelPredictionsOnTemplate
  BY ConfigFields DEF WithoutDynamicList

\* Registering a group: it comes last, or in the place of the one with its id.
LEMMA RegisterElements ==
    ASSUME NEW list, IsList(list), NEW group
    PROVE  LET new == Register(list, group)
           IN  /\ IsList(new)
               /\ DOMAIN list \subseteq DOMAIN new
               /\ \A k \in DOMAIN new : \/ k \in DOMAIN list /\ new[k] = list[k]
                                        \/ new[k] = group
               /\ \A k \in DOMAIN list : new[k].id = list[k].id
               /\ \E k \in DOMAIN new : new[k].id = group.id
               /\ UniqueIds(list) => UniqueIds(new)
  <1> DEFINE new  == Register(list, group)
             same == {i \in DOMAIN list : list[i].id = group.id}
             G    == Range(list) \cup {group}
             n    == Len(list)
  <1>1. n \in Nat /\ DOMAIN list = 1..n /\ list \in [1..n -> G] /\ list \in Seq(G)
    BY DEF IsList
  <1>2. CASE same = {}
    <2>1. new = Append(list, group)
      BY <1>2 DEF Register
    <2> HIDE DEF G
    <2>2. group \in G
      BY DEF G
    <2>3. /\ Append(list, group) \in Seq(G) /\ Len(Append(list, group)) = n + 1
          /\ \A k \in 1..n : Append(list, group)[k] = list[k]
          /\ Append(list, group)[n + 1] = group
      BY <1>1, <2>2
    <2> DEFINE long == Append(list, group)
    <2> HIDE DEF long
    <2>4. /\ long \in [1..(n + 1) -> G] /\ new = long
          /\ \A k \in 1..n : long[k] = list[k]
          /\ long[n + 1] = group
      <3>1. long \in Seq(G) /\ Len(long) = n + 1
        BY <2>3 DEF long
      <3>2. long \in [1..(n + 1) -> G]
        BY <1>1, <3>1
      <3> QED
        BY <2>1, <2>3, <3>2 DEF long
    <2> HIDE DEF new, n
    <2>5. IsList(new) /\ DOMAIN new = 1..(n + 1)
      <3>1. n + 1 \in Nat /\ new \in [1..(n + 1) -> G]
        BY <1>1, <2>4
      <3> QED
        BY <3>1, ListOf
    <2>6. \A k \in 1..(n + 1) : k \in 1..n \/ k = n + 1
      BY <1>1
    <2>7. 1..n \subseteq 1..(n + 1) /\ n + 1 \in 1..(n + 1)
      BY <1>1
    <2>8. \A k \in 1..n : list[k].id # group.id
      BY <1>1, <1>2
    <2>9. UniqueIds(list) => UniqueIds(new)
      BY <1>1, <2>4, <2>5, <2>6, <2>8 DEF UniqueIds
    <2> QED
      BY <1>1, <2>4, <2>5, <2>6, <2>7, <2>9 DEF new
  <1>3. CASE same # {}
    <2>1. new = [i \in 1..n |->
                    IF i \in same /\ <<list[i].min, list[i].max>> # <<group.min, group.max>>
                    THEN group ELSE list[i]]
      BY <1>1, <1>3 DEF Register
    <2>2. /\ DOMAIN new = 1..n
          /\ \A k \in 1..n : new[k] = list[k] \/ (k \in same /\ new[k] = group)
      <3> HIDE DEF new, same, n
      <3> QED
        BY <2>1
    <2>3. \A k \in 1..n : new[k].id = list[k].id
      BY <2>2
    <2>4. IsList(new)
      <3>1. \A k \in 1..n : new[k] \in G
        BY <1>1, <2>2
      <3>2. new \in [1..n -> G]
        <4> DEFINE val(i) == IF i \in same
                                /\ <<list[i].min, list[i].max>> # <<group.min, group.max>>
                             THEN group ELSE list[i]
        <4>1. new = [i \in 1..n |-> val(i)]
          BY <2>1
        <4>2. \A i \in 1..n : val(i) \in G
          BY <3>1, <4>1
        <4> HIDE DEF val, new, n, G
        <4> QED
          BY <4>1, <4>2
      <3> HIDE DEF new, n, G
      <3> QED
        BY <1>1, <3>2, ListOf
    <2>5. \E k \in DOMAIN new : new[k].id = group.id
      BY <1>1, <1>3, <2>2, <2>3
    <2>6. UniqueIds(list) => UniqueIds(new)
      BY <1>1, <2>2, <2>3 DEF UniqueIds
    <2> HIDE DEF new
    <2> QED
      BY <1>1, <2>2, <2>3, <2>4, <2>5, <2>6 DEF new
  <1> QED
    BY <1>2, <1>3

\* What is discovered: a finite set of scale sets, none of them explicit.
LEMMA FoundElements ==
    ASSUME NEW c, NEW cfg, IsFiniteSet(c.scaleSets)
    PROVE  /\ IsFiniteSet(FoundGroups(c, cfg))
           /\ \A g \in FoundGroups(c, cfg) :
                 /\ ~g.explicit /\ g.kind = "ScaleSet" /\ g.dynamic = cfg.EnableDynamicInstanceList
                 /\ g.predict = cfg.EnableLabelPredictionsOnTemplate
                 /\ \E vmss \in c.scaleSets : g.id = Id(vmss.name, <<>>)
           /\ (\A v, w \in c.scaleSets : v.name = w.name => v = w) =>
                 \A g, h \in FoundGroups(c, cfg) : g.id = h.id => g = h
  <1> DEFINE D == Discovered(c)
             Of(vmss) == [id |-> Id(vmss.name, <<>>), min |-> SizeOf(vmss, "min"),
                          max |-> SizeOf(vmss, "max"), explicit |-> FALSE, kind |-> "ScaleSet",
                          dynamic |-> cfg.EnableDynamicInstanceList,
                          predict |-> cfg.EnableLabelPredictionsOnTemplate]
             F == FoundGroups(c, cfg)
  <1>1. D \subseteq c.scaleSets
    BY DEF Discovered
  <1>2. F = {Of(vmss) : vmss \in D}
    BY DEF FoundGroups
  <1>3. \A vmss : /\ ~Of(vmss).explicit /\ Of(vmss).kind = "ScaleSet"
                  /\ Of(vmss).dynamic = cfg.EnableDynamicInstanceList
                  /\ Of(vmss).predict = cfg.EnableLabelPredictionsOnTemplate
                  /\ Of(vmss).id = Id(vmss.name, <<>>)
    OBVIOUS
  <1> HIDE DEF D, Of, F
  <1>4. IsFiniteSet(F)
    <2> DEFINE f == [vmss \in D |-> Of(vmss)]
    <2>1. IsFiniteSet(D)
      BY <1>1, FS_Subset
    <2>2. f \in Surjection(D, F)
      BY <1>2 DEF Surjection
    <2> QED
      BY <2>1, <2>2, FS_Surjection
  <1>5. \A g \in F : \E vmss \in D : g = Of(vmss)
    BY <1>2
  <1>6. ASSUME \A v, w \in c.scaleSets : v.name = w.name => v = w,
               NEW g \in F, NEW h \in F, g.id = h.id
        PROVE  g = h
    <2>1. PICK v \in D, w \in D : g = Of(v) /\ h = Of(w)
      BY <1>5
    <2>2. Id(v.name, <<>>) = Id(w.name, <<>>)
      BY <1>3, <1>6, <2>1
    <2>3. v.name = w.name
      BY <2>2 DEF Id
    <2> QED
      BY <1>1, <1>6, <2>1, <2>3
  <1>7. \A g \in F : /\ ~g.explicit /\ g.kind = "ScaleSet"
                     /\ g.dynamic = cfg.EnableDynamicInstanceList
                     /\ g.predict = cfg.EnableLabelPredictionsOnTemplate
                     /\ \E vmss \in c.scaleSets : g.id = Id(vmss.name, <<>>)
    BY <1>1, <1>3, <1>5
  <1> QED
    BY <1>4, <1>6, <1>7 DEF F

\* The group of a spec of --nodes.
LEMMA BuiltGroup ==
    ASSUME NEW spec, NEW r
    PROVE  LET g == buildNodeGroupFromSpec(spec, r)
           IN  /\ g.id = Id(spec.head, spec.sku) /\ g.min = spec.min /\ g.max = spec.max
               /\ g.explicit /\ g.dynamic = config[r].EnableDynamicInstanceList
               /\ g.predict = config[r].EnableLabelPredictionsOnTemplate
               /\ g.kind = KindOf(spec, r)
               /\ g.kind = "VMPool" <=> IsVMsPool(spec, cache[r])
               /\ g.kind = "AgentPool" <=> /\ ~IsVMsPool(spec, cache[r])
                                           /\ config[r].VMType = "standard"
  BY DEF buildNodeGroupFromSpec, KindOf

-----------------------------------------------------------------------------
(* What a process remembers.                                               *)

\* Its process has registered no group yet.
Early(q) == step[q] \in {"config", "client", "load", "skus"}

\* The cache holds what is in Azure or nothing, the groups are a list, with no id twice.
Memory(q) ==
    /\ DOMAIN config[q] = DOMAIN Defaults
    /\ DOMAIN cache[q] = CacheFields
    /\ cache[q].scaleSets \in {{}, input.scaleSets}
    /\ cache[q].vms \in {{}, input.vms}
    /\ cache[q].pools \in {{}, input.pools}
    /\ IsList(groups[q]) /\ UniqueIds(groups[q])
    /\ Early(q) => groups[q] = <<>>

\* No list yet.
LEMMA NoList == IsList(<<>>) /\ UniqueIds(<<>>) /\ DOMAIN <<>> = {}
  BY DEF IsList, UniqueIds, Range

\* A group that discovery registered.
FoundGroup(g, q) ==
    /\ ~g.explicit /\ g.kind = "ScaleSet" /\ g.dynamic = config[q].EnableDynamicInstanceList
    /\ g.predict = config[q].EnableLabelPredictionsOnTemplate
    /\ config[q].VMType = "vmss"
    /\ \E vmss \in input.scaleSets : g.id = Id(vmss.name, <<>>)

\* Discovery keeps explicit groups, and adds scale sets.
LEMMA DiscoverElements ==
    ASSUME scenario \in DOMAIN Inputs, NEW q \in Replica, Memory(q), DidDiscover(q)
    PROVE  /\ IsList(groups'[q]) /\ UniqueIds(groups'[q])
           /\ \A k \in DOMAIN groups'[q] :
                 \/ FoundGroup(groups'[q][k], q)
                 \/ \E i \in DOMAIN groups[q] : groups'[q][k] = groups[q][i]
           /\ \A i \in DOMAIN groups[q] : groups[q][i].explicit =>
                 \E k \in DOMAIN groups'[q] : groups'[q][k] = groups[q][i]
  <1> DEFINE list  == groups[q]
             found == FoundGroups(cache[q], config[q])
  <1>1. \/ groups'[q] = Merged(list, {}) \/ groups'[q] = list
        \/ groups'[q] = Merged(list, found) /\ config[q].VMType = "vmss"
    BY DEF DidDiscover, fetchAutoNodeGroups
  <1>2. IsFiniteSet({})
    BY FS_EmptySet
  <1>3. IsFiniteSet(cache[q].scaleSets) /\ cache[q].scaleSets \subseteq input.scaleSets
        /\ \A v, w \in cache[q].scaleSets : v.name = w.name => v = w
    BY <1>2, InputsAssumption DEF Memory, input
  <1>4. /\ IsFiniteSet(found)
        /\ config[q].VMType = "vmss" => \A g \in found : FoundGroup(g, q)
        /\ \A g, h \in found : g.id = h.id => g = h
    BY <1>3, FoundElements DEF FoundGroup
  <1>5. IsList(list) /\ UniqueIds(list)
    BY DEF Memory
  <1> HIDE DEF list, found
  <1>6. ASSUME NEW new, IsFiniteSet(new), \A g \in new : FoundGroup(g, q),
               \A g, h \in new : g.id = h.id => g = h, groups'[q] = Merged(list, new)
        PROVE  /\ IsList(groups'[q]) /\ UniqueIds(groups'[q])
               /\ \A k \in DOMAIN groups'[q] :
                     \/ FoundGroup(groups'[q][k], q)
                     \/ \E i \in DOMAIN list : groups'[q][k] = list[i]
               /\ \A i \in DOMAIN list : list[i].explicit =>
                     \E k \in DOMAIN groups'[q] : groups'[q][k] = list[i]
    BY <1>5, <1>6, MergedElements
  <1>7. CASE groups'[q] = list
    BY <1>5, <1>7 DEF list
  <1> QED
    BY <1>1, <1>2, <1>4, <1>6, <1>7 DEF list

\* What a process remembers stays so.
LEMMA MemoryStep ==
    ASSUME scenario \in DOMAIN Inputs, scenario' = scenario,
           NEW q \in Replica, Memory(q), Outcome(q)
    PROVE  Memory(q)'
  <1>1. input' = input
    BY DEF input
  <1>2. CASE Stays(q)
    BY <1>1, <1>2 DEF Stays, Memory, Early
  <1>3. CASE Fresh(q)'
    BY <1>3, NewCacheFields, NoList DEF Fresh, Memory, NewCache
  <1>4. CASE DidConfig(q)
    BY <1>1, <1>4, ConfiguredFields DEF DidConfig, Memory, Early
  <1>5. CASE DidClient(q) \/ DidRefresh(q) \/ DidSpecs(q)
    BY <1>1, <1>5 DEF DidClient, DidRefresh, DidSpecs, Memory, Early
  <1>6. CASE DidLoad(q)
    <2>1. PICK failing \in Failing(q) :
             cache'[q] = LET c == fetchAzureResources(NewCache, config[q].EnableVMsAgentPool,
                                                      failing)
                         IN  IF failing = "nothing"
                             THEN [Published(<<>>, c) EXCEPT !.first = TRUE] ELSE c
      BY <1>6 DEF DidLoad
    <2> DEFINE c == fetchAzureResources(NewCache, config[q].EnableVMsAgentPool, failing)
               p == Published(<<>>, c)
    <2>2. /\ DOMAIN c = CacheFields /\ c.scaleSets \in {{}, input.scaleSets}
          /\ c.vms \in {{}, input.vms} /\ c.pools \in {{}, input.pools}
      <3>1. NewCache.scaleSets = {} /\ NewCache.vms = {} /\ NewCache.pools = {}
        BY DEF NewCache
      <3> QED
        BY <3>1, NewCacheFields, FetchedFields
    <2> HIDE DEF c
    <2>3. /\ DOMAIN p = CacheFields /\ p.scaleSets = c.scaleSets
          /\ p.vms = c.vms /\ p.pools = c.pools
      BY <2>2, PublishedFields
    <2> HIDE DEF p
    <2>4. /\ DOMAIN cache'[q] = CacheFields /\ cache'[q].scaleSets = c.scaleSets
          /\ cache'[q].vms = c.vms /\ cache'[q].pools = c.pools
      <3>1. cache'[q] = IF failing = "nothing" THEN [p EXCEPT !.first = TRUE] ELSE c
        BY <2>1 DEF c, p
      <3> QED
        BY <2>2, <2>3, <3>1 DEF CacheFields
    <2> QED
      BY <1>1, <1>6, <2>2, <2>4 DEF DidLoad, Memory, Early
  <1>7. CASE DidSKUs(q)
    <2>1. PICK skus : /\ cache'[q] = [cache[q] EXCEPT !.api = skus]
                      /\ config'[q] = WithoutDynamicList(config[q], skus)
      BY <1>7 DEF DidSKUs
    <2>2. DOMAIN config'[q] = DOMAIN Defaults
      BY <2>1, WithoutDynamicFields DEF Memory
    <2>3. /\ DOMAIN cache'[q] = CacheFields /\ cache'[q].scaleSets = cache[q].scaleSets
          /\ cache'[q].vms = cache[q].vms /\ cache'[q].pools = cache[q].pools
      BY <2>1 DEF Memory, CacheFields
    <2> QED
      BY <1>1, <1>7, <2>2, <2>3 DEF DidSKUs, Memory, Early
  <1>8. CASE DidSpec(q)
    <2>1. IsList(groups'[q]) /\ UniqueIds(groups'[q])
      BY <1>8, RegisterElements DEF DidSpec, Memory
    <2> QED
      BY <1>1, <1>8, <2>1 DEF DidSpec, Memory, Early
  <1>9. CASE DidDiscover(q)
    <2>1. IsList(groups'[q]) /\ UniqueIds(groups'[q])
      BY <1>9, DiscoverElements
    <2>2. /\ DOMAIN cache'[q] = CacheFields /\ cache'[q].scaleSets = cache[q].scaleSets
          /\ cache'[q].vms = cache[q].vms /\ cache'[q].pools = cache[q].pools
      BY <1>9 DEF DidDiscover, Memory, CacheFields
    <2> QED
      BY <1>1, <1>9, <2>1, <2>2 DEF DidDiscover, Memory, Early
  <1>10. CASE DidFetch(q) \/ DidFail(q)
    <2>1. /\ DOMAIN cache'[q] = CacheFields /\ cache'[q].scaleSets \in {{}, input.scaleSets}
          /\ cache'[q].vms \in {{}, input.vms} /\ cache'[q].pools \in {{}, input.pools}
      <3>1. CASE cache'[q] = cache[q]
        BY <3>1 DEF Memory
      <3>2. ASSUME NEW failing,
                   cache'[q] = fetchAzureResources(cache[q], config[q].EnableVMsAgentPool, failing)
            PROVE  <2>1!:
        BY <3>2, FetchedFields DEF Memory
      <3> QED
        BY <1>10, <3>1, <3>2 DEF DidFetch, DidFail
    <2> QED
      BY <1>1, <1>10, <2>1 DEF DidFetch, DidFail, Memory, Early
  <1>11. CASE DidPublish(q)
    <2>1. /\ DOMAIN cache'[q] = CacheFields /\ cache'[q].scaleSets = cache[q].scaleSets
          /\ cache'[q].vms = cache[q].vms /\ cache'[q].pools = cache[q].pools
      BY <1>11, PublishedFields DEF DidPublish, Memory
    <2> QED
      BY <1>1, <1>11, <2>1 DEF DidPublish, Memory, Early
  <1>12. CASE DidAsk(q)
    <2>1. /\ DOMAIN cache'[q] = CacheFields /\ cache'[q].scaleSets = cache[q].scaleSets
          /\ cache'[q].vms = cache[q].vms /\ cache'[q].pools = cache[q].pools
      BY <1>12 DEF DidAsk, Memory, CacheFields
    <2> QED
      BY <1>1, <1>12, <2>1 DEF DidAsk, Memory, Early
  <1> QED
    BY <1>2, <1>3, <1>4, <1>5, <1>6, <1>7, <1>8, <1>9, <1>10, <1>11, <1>12 DEF Outcome, Works

\* A process that has done nothing remembers nothing.
LEMMA MemoryInit ==
    ASSUME NEW q \in Replica, Fresh(q)
    PROVE  Memory(q)
  BY NewCacheFields, NoList DEF Fresh, Memory, NewCache

\* In every reachable state; what follows about one process rests on this.
MemoryInv == TypeInv /\ \A q \in Replica : Memory(q)

\* No step disturbs what the processes remember.
LEMMA MemoryInvStep == MemoryInv /\ [Next]_vars => MemoryInv'
  <1> SUFFICES ASSUME MemoryInv, [Next]_vars PROVE MemoryInv'
    OBVIOUS
  <1>1. scenario' = scenario /\ \A q \in Replica : Outcome(q)
    BY StepOutcome DEF MemoryInv, TypeInv
  <1>2. \A q \in Replica : Memory(q)'
    BY <1>1, MemoryStep DEF MemoryInv, TypeInv
  <1> QED
    BY <1>2, TypeStep DEF MemoryInv

\* At first they remember nothing.
LEMMA MemoryInvInit == Init => MemoryInv
  <1> SUFFICES ASSUME Init PROVE MemoryInv
    OBVIOUS
  <1>1. TypeInv
    BY TypeInit
  <1>2. \A q \in Replica : Fresh(q)
    BY DEF Init, Fresh
  <1> QED
    BY <1>1, <1>2, MemoryInit DEF MemoryInv

-----------------------------------------------------------------------------
(* Nothing is used that was found missing.                                 *)

\* The flag of a group is that of the configuration, which is cleared before any group
\* is built where there is no list of SKUs; and the cache keeps the list it has.
Depends(q) ==
    /\ step[q] \notin {"config", "client"} =>
          (config[q].EnableVMsAgentPool => client[q].agentPool)
    /\ ~Early(q) => (config[q].EnableDynamicInstanceList => cache[q].api # {})
    /\ \A i \in DOMAIN groups[q] :
          groups[q][i].dynamic => config[q].EnableDynamicInstanceList

\* The client is checked when it is built, the list of SKUs when it is fetched; neither
\* is given up later.
LEMMA DependsStep ==
    ASSUME scenario \in DOMAIN Inputs, NEW q \in Replica, Memory(q), Depends(q), Outcome(q)
    PROVE  Depends(q)'
  <1>1. CASE Stays(q)
    BY <1>1 DEF Stays, Depends, Early
  <1>2. CASE Fresh(q)'
    BY <1>2, NoList DEF Fresh, Depends, Early
  <1>3. CASE DidConfig(q)
    BY <1>3, NoList DEF DidConfig, Depends, Memory, Early
  <1>4. CASE DidClient(q)
    <2>1. config'[q].EnableVMsAgentPool => client'[q].agentPool
      BY <1>4 DEF DidClient, newAzClient
    <2> QED
      BY <1>4, <2>1 DEF DidClient, Depends, Early
  <1>5. CASE DidLoad(q)
    BY <1>5 DEF DidLoad, Depends, Early
  <1>6. CASE DidSKUs(q)
    <2>1. PICK skus : /\ cache'[q] = [cache[q] EXCEPT !.api = skus]
                      /\ config'[q] = WithoutDynamicList(config[q], skus)
      BY <1>6 DEF DidSKUs
    <2>2. cache'[q].api = skus
      BY <2>1 DEF Memory, CacheFields
    <2>3. /\ config'[q].EnableDynamicInstanceList => skus # {}
          /\ config'[q].EnableVMsAgentPool = config[q].EnableVMsAgentPool
      BY <2>1, WithoutDynamicFields DEF Memory
    <2> QED
      BY <1>6, <2>2, <2>3, NoList DEF DidSKUs, Depends, Memory, Early
  <1>7. CASE DidSpec(q)
    <2>1. ASSUME NEW k \in DOMAIN groups'[q], groups'[q][k].dynamic
          PROVE  config[q].EnableDynamicInstanceList
      <3>1. \/ k \in DOMAIN groups[q] /\ groups'[q][k] = groups[q][k]
            \/ groups'[q][k] = buildNodeGroupFromSpec(NextSpec(q), q)
        <4> DEFINE built == buildNodeGroupFromSpec(NextSpec(q), q)
        <4> HIDE DEF built
        <4>1. groups'[q] = Register(groups[q], built) /\ IsList(groups[q])
          BY <1>7 DEF DidSpec, Memory, built
        <4>2. \A j \in DOMAIN Register(groups[q], built) :
                 \/ j \in DOMAIN groups[q] /\ Register(groups[q], built)[j] = groups[q][j]
                 \/ Register(groups[q], built)[j] = built
          BY <4>1, RegisterElements
        <4> QED
          BY <2>1, <4>1, <4>2 DEF built
      <3> QED
        BY <2>1, <3>1, BuiltGroup DEF Depends
    <2> QED
      BY <1>7, <2>1 DEF DidSpec, Depends, Early
  <1>8. CASE DidSpecs(q) \/ DidRefresh(q)
    BY <1>8 DEF DidSpecs, DidRefresh, Depends, Early
  <1>9. CASE DidDiscover(q)
    <2>1. ASSUME NEW k \in DOMAIN groups'[q], groups'[q][k].dynamic
          PROVE  config[q].EnableDynamicInstanceList
      <3>1. \/ FoundGroup(groups'[q][k], q)
            \/ \E i \in DOMAIN groups[q] : groups'[q][k] = groups[q][i]
        BY <1>9, DiscoverElements
      <3> QED
        BY <2>1, <3>1 DEF FoundGroup, Depends
    <2>2. cache'[q].api = cache[q].api
      BY <1>9 DEF DidDiscover, Memory, CacheFields
    <2> QED
      BY <1>9, <2>1, <2>2 DEF DidDiscover, Depends, Early
  <1>10. CASE DidFetch(q) \/ DidFail(q)
    <2>1. cache'[q].api = cache[q].api
      BY <1>10, FetchedFields DEF DidFetch, DidFail, Memory
    <2> QED
      BY <1>10, <2>1 DEF DidFetch, DidFail, Depends, Early
  <1>11. CASE DidPublish(q)
    <2>1. cache'[q].api = cache[q].api
      BY <1>11, PublishedFields DEF DidPublish, Memory
    <2> QED
      BY <1>11, <2>1 DEF DidPublish, Depends, Early
  <1>12. CASE DidAsk(q)
    <2>1. cache'[q].api = cache[q].api
      BY <1>12 DEF DidAsk, Memory, CacheFields
    <2> QED
      BY <1>12, <2>1 DEF DidAsk, Depends, Early
  <1> QED
    BY <1>1, <1>2, <1>3, <1>4, <1>5, <1>6, <1>7, <1>8, <1>9, <1>10, <1>11, <1>12
       DEF Outcome, Works

DependsInv == MemoryInv /\ \A q \in Replica : Depends(q)

\* Whatever fails and in whatever order, a process that loads its cache has the client it
\* lists VMs pools with, and a group that looks sizes up has a list to look them up in.
THEOREM NothingMissing == Spec => []DependenciesPresent
  <1>1. Init => DependsInv
    <2> SUFFICES ASSUME Init PROVE DependsInv
      OBVIOUS
    <2>1. \A q \in Replica : Depends(q)
      BY NoList DEF Init, Depends, Early
    <2> QED
      BY <2>1, MemoryInvInit DEF DependsInv
  <1>2. DependsInv /\ [Next]_vars => DependsInv'
    <2> SUFFICES ASSUME DependsInv, [Next]_vars PROVE DependsInv'
      OBVIOUS
    <2>1. \A q \in Replica : Outcome(q)
      BY StepOutcome DEF DependsInv, MemoryInv, TypeInv
    <2>2. \A q \in Replica : Depends(q)'
      BY <2>1, DependsStep DEF DependsInv, MemoryInv, TypeInv
    <2> QED
      BY <2>2, MemoryInvStep DEF DependsInv
  <1>3. DependsInv => DependenciesPresent
    <2> SUFFICES ASSUME DependsInv, NEW q \in Replica
                 PROVE  /\ stage[q] = "leading" /\ step[q] \notin {"config", "client"} =>
                              (config[q].EnableVMsAgentPool => client[q].agentPool)
                        /\ \A i \in DOMAIN groups[q] : groups[q][i].dynamic => cache[q].api # {}
      BY DEF DependenciesPresent
    <2> QED
      BY NoList DEF DependsInv, MemoryInv, Memory, Depends
  <1> QED
    BY <1>1, <1>2, <1>3, PTL DEF Spec

-----------------------------------------------------------------------------
(* The nodes of the groups of --nodes.                                     *)

PoolNames == {p.name : p \in input.pools}

\* Groups of three kinds.  VMs pools are named with a size and agent pools are not named
\* like them; agent pools and scale sets are not in one process.
Kinds(list, type) ==
    \A i \in DOMAIN list :
        /\ list[i].kind \in {"ScaleSet", "VMPool", "AgentPool"}
        /\ list[i].kind = "ScaleSet" => type # "standard"
        /\ list[i].kind = "VMPool" => list[i].explicit /\ list[i].id.head \in PoolNames
        /\ list[i].kind = "AgentPool" =>
              type = "standard" /\ (list[i].id.sku = <<>> => list[i].id.head \notin PoolNames)

\* The nodes of a group of each kind.
LEMMA NodesOfKind ==
    ASSUME NEW g, NEW c, NEW inst \in NodesOf(g, c)
    PROVE  /\ g.kind = "ScaleSet" =>
                 \E v \in c.scaleSets : Id(v.name, <<>>) = g.id /\ inst \in v.instances
           /\ g.kind = "VMPool" =>
                 \E v \in c.vms : Id(v.pool, v.sku) = g.id /\ v.instance = inst
           /\ g.kind = "AgentPool" =>
                 \E v \in c.vms : Id(v.pool, <<>>) = g.id /\ v.instance = inst
  <1>1. ASSUME g.kind = "ScaleSet"
        PROVE  \E v \in c.scaleSets : Id(v.name, <<>>) = g.id /\ inst \in v.instances
    BY <1>1 DEF NodesOf
  <1>2. ASSUME g.kind = "VMPool"
        PROVE  \E v \in c.vms : Id(v.pool, v.sku) = g.id /\ v.instance = inst
    BY <1>2 DEF NodesOf
  <1>3. ASSUME g.kind = "AgentPool"
        PROVE  \E v \in c.vms : Id(v.pool, <<>>) = g.id /\ v.instance = inst
    BY <1>3 DEF NodesOf
  <1> QED
    BY <1>1, <1>2, <1>3

\* A machine of a VMs pool is in no group of another kind.
LEMMA PoolMachines ==
    ASSUME scenario \in DOMAIN Inputs, NEW list, NEW type, Kinds(list, type),
           NEW i \in DOMAIN list, NEW j \in DOMAIN list,
           list[i].kind = "VMPool", list[j].kind # "VMPool",
           NEW inst \in NodesOf(list[i], input)
    PROVE  inst \notin NodesOf(list[j], input)
  <1>1. PICK vm \in input.vms : Id(vm.pool, vm.sku) = list[i].id /\ vm.instance = inst
    BY NodesOfKind
  <1>2. vm.pool \in PoolNames
    BY <1>1 DEF Id, Kinds
  <1>3. \A v \in input.vms : v.instance = inst => v = vm
    BY <1>1, InputsAssumption DEF input
  <1>4. \A w \in input.scaleSets : inst \notin w.instances
    BY <1>1, <1>2, InputsAssumption DEF input, PoolNames
  <1>5. ASSUME inst \in NodesOf(list[j], input), list[j].kind = "AgentPool" PROVE FALSE
    <2>1. PICK v \in input.vms : Id(v.pool, <<>>) = list[j].id /\ v.instance = inst
      BY <1>5, NodesOfKind
    <2>2. list[j].id.sku = <<>> /\ list[j].id.head = vm.pool
      BY <1>3, <2>1 DEF Id
    <2> QED
      BY <1>2, <1>5, <2>2 DEF Kinds
  <1>6. ASSUME inst \in NodesOf(list[j], input), list[j].kind = "ScaleSet" PROVE FALSE
    BY <1>4, <1>6, NodesOfKind
  <1> QED
    BY <1>5, <1>6 DEF Kinds

\* No node is in two groups.
LEMMA OneGroup ==
    ASSUME scenario \in DOMAIN Inputs, NEW list, NEW type, Kinds(list, type), UniqueIds(list),
           NEW i \in DOMAIN list, NEW j \in DOMAIN list,
           NEW inst \in NodesOf(list[i], input), inst \in NodesOf(list[j], input)
    PROVE  i = j
  <1>1. list[i].kind = list[j].kind
    BY PoolMachines DEF Kinds
  <1>2. /\ list[j].kind = "ScaleSet" =>
              \E w \in input.scaleSets : Id(w.name, <<>>) = list[j].id /\ inst \in w.instances
        /\ list[j].kind = "VMPool" =>
              \E w \in input.vms : Id(w.pool, w.sku) = list[j].id /\ w.instance = inst
        /\ list[j].kind = "AgentPool" =>
              \E w \in input.vms : Id(w.pool, <<>>) = list[j].id /\ w.instance = inst
    <2> DEFINE g == list[j]
    <2>1. inst \in NodesOf(g, input)
      OBVIOUS
    <2> HIDE DEF g
    <2>2. /\ g.kind = "ScaleSet" =>
                \E w \in input.scaleSets : Id(w.name, <<>>) = g.id /\ inst \in w.instances
          /\ g.kind = "VMPool" =>
                \E w \in input.vms : Id(w.pool, w.sku) = g.id /\ w.instance = inst
          /\ g.kind = "AgentPool" =>
                \E w \in input.vms : Id(w.pool, <<>>) = g.id /\ w.instance = inst
      BY <2>1, NodesOfKind
    <2> QED
      BY <2>2 DEF g
  <1>3. UniqueIds(list) => (list[i].id = list[j].id => i = j)
    BY DEF UniqueIds
  <1>4. CASE list[i].kind = "ScaleSet"
    <2>1. PICK v \in input.scaleSets : Id(v.name, <<>>) = list[i].id /\ inst \in v.instances
      BY <1>4, NodesOfKind
    <2>2. PICK w \in input.scaleSets : Id(w.name, <<>>) = list[j].id /\ inst \in w.instances
      BY <1>1, <1>2, <1>4
    <2>3. v = w
      BY <2>1, <2>2, InputsAssumption DEF input
    <2>4. list[i].id = list[j].id
      BY <2>1, <2>2, <2>3
    <2> QED
      BY <1>3, <2>4
  <1>5. CASE list[i].kind = "VMPool"
    <2>1. PICK v \in input.vms : Id(v.pool, v.sku) = list[i].id /\ v.instance = inst
      BY <1>5, NodesOfKind
    <2>2. PICK w \in input.vms : Id(w.pool, w.sku) = list[j].id /\ w.instance = inst
      BY <1>1, <1>2, <1>5
    <2>3. v = w
      BY <2>1, <2>2, InputsAssumption DEF input
    <2>4. list[i].id = list[j].id
      BY <2>1, <2>2, <2>3
    <2> QED
      BY <1>3, <2>4
  <1>6. CASE list[i].kind = "AgentPool"
    <2>1. PICK v \in input.vms : Id(v.pool, <<>>) = list[i].id /\ v.instance = inst
      BY <1>6, NodesOfKind
    <2>2. PICK w \in input.vms : Id(w.pool, <<>>) = list[j].id /\ w.instance = inst
      BY <1>1, <1>2, <1>6
    <2>3. v = w
      BY <2>1, <2>2, InputsAssumption DEF input
    <2>4. list[i].id = list[j].id
      BY <2>1, <2>2, <2>3
    <2> QED
      BY <1>3, <2>4
  <1> QED
    BY <1>4, <1>5, <1>6 DEF Kinds

\* The index has the nodes of the groups of --nodes, and no node that a group has not.
Indexed(list, owner) ==
    /\ \A i \in DOMAIN list : list[i].explicit =>
          \A inst \in NodesOf(list[i], input) : inst \in DOMAIN owner /\ owner[inst] = list[i]
    /\ \A inst \in DOMAIN owner : inst \in NodesOf(owner[inst], input)

\* So does the index that regenerate makes of a complete fetch.
LEMMA OwnerIndexed ==
    ASSUME scenario \in DOMAIN Inputs, NEW list, NEW type, Kinds(list, type), UniqueIds(list),
           IsList(list), NEW c, c.vms = input.vms, c.scaleSets = input.scaleSets
    PROVE  Indexed(list, OwnerOf(list, c))
  <1> DEFINE owner == OwnerOf(list, c)
             owns(k, inst) == /\ inst \in NodesOf(list[k], c)
                              /\ \A j \in DOMAIN list : j > k => inst \notin NodesOf(list[j], c)
  <1>1. \A g : NodesOf(g, c) = NodesOf(g, input)
    BY DEF NodesOf
  <1>2. /\ DOMAIN owner = UNION {NodesOf(list[k], c) : k \in DOMAIN list}
        /\ \A inst \in DOMAIN owner : owner[inst] = list[CHOOSE k \in DOMAIN list : owns(k, inst)]
    BY DEF OwnerOf
  <1>3. ASSUME NEW i \in DOMAIN list, NEW inst \in NodesOf(list[i], input)
        PROVE  inst \in DOMAIN owner /\ owner[inst] = list[i]
    <2>1. inst \in DOMAIN owner
      BY <1>1, <1>2
    <2>2. \A j \in DOMAIN list : inst \in NodesOf(list[j], input) => j = i
      BY <1>3, OneGroup
    <2>3. ASSUME NEW j \in DOMAIN list, j > i PROVE inst \notin NodesOf(list[j], c)
      <3>1. j # i
        <4>1. i \in Nat
          BY DEF IsList
        <4> QED
          BY <2>3, <4>1
      <3> QED
        BY <1>1, <2>2, <3>1
    <2>4. owns(i, inst) /\ \A k \in DOMAIN list : owns(k, inst) => k = i
      BY <1>1, <2>2, <2>3
    <2>5. (CHOOSE k \in DOMAIN list : owns(k, inst)) = i
      <3> HIDE DEF owns
      <3> QED
        BY <2>4
    <2> HIDE DEF owns, owner
    <2> QED
      BY <1>2, <2>1, <2>5
  <1>4. ASSUME NEW inst \in DOMAIN owner PROVE inst \in NodesOf(owner[inst], input)
    <2>1. PICK i \in DOMAIN list : inst \in NodesOf(list[i], c)
      BY <1>2
    <2> QED
      BY <1>1, <1>3, <2>1
  <1> QED
    BY <1>3, <1>4 DEF Indexed

\* A process that is up knows the machines and scale sets, and with a VMs pool the pools;
\* so no node of a group of --nodes is ever taken for one that nobody manages.
Owned(q) ==
    /\ Kinds(groups[q], config[q].VMType)
    /\ Early(q) \/ step[q] = "groups" => cache[q].unowned = {} /\ ~up[q]
    /\ step[q] = "running" => up[q]
    /\ step[q] = "publish" \/ up[q] =>
          cache[q].vms = input.vms /\ cache[q].scaleSets = input.scaleSets
    /\ \A i \in DOMAIN groups[q] : groups[q][i].kind = "VMPool" => cache[q].pools # {}
    /\ \A i \in DOMAIN groups[q] : groups[q][i].explicit =>
          \A inst \in cache[q].unowned : inst \notin NodesOf(groups[q][i], input)
    /\ up[q] => Indexed(groups[q], cache[q].owner)

\* What FindForInstance leaves out is in no group.
LEMMA NoneOmitted ==
    ASSUME scenario \in DOMAIN Inputs, NEW q \in Replica, Owned(q), up[q],
           NEW i \in DOMAIN groups[q], NEW inst \in NodesOf(groups[q][i], input)
    PROVE  inst.azure /\ ~Omitted(inst, cache[q], config[q].VMType)
  <1> DEFINE g == groups[q][i]
  <1>1. /\ g.kind \in {"ScaleSet", "VMPool", "AgentPool"}
        /\ g.kind = "ScaleSet" => config[q].VMType # "standard"
        /\ g.kind = "AgentPool" => config[q].VMType = "standard"
        /\ g.kind = "VMPool" => cache[q].pools # {}
    BY DEF Owned, Kinds
  <1>2. CASE g.kind = "ScaleSet"
    <2>1. PICK v \in input.scaleSets : inst \in v.instances
      BY <1>2, NodesOfKind
    <2>2. inst.azure /\ (v.uniform => ~inst.vm)
      BY <2>1, InputsAssumption DEF input
    <2>3. v \in cache[q].scaleSets
      BY <2>1 DEF Owned
    <2> QED
      BY <1>1, <1>2, <2>2, <2>3 DEF Omitted
  <1>3. CASE g.kind # "ScaleSet"
    <2>1. PICK v \in input.vms : inst = v.instance
      BY <1>1, <1>3, NodesOfKind
    <2>2. inst.azure /\ inst.vm
      BY <2>1, InputsAssumption DEF input
    <2> QED
      BY <1>1, <1>3, <2>2 DEF Omitted
  <1> QED
    BY <1>2, <1>3

\* The kinds of the groups after a spec has been registered.
LEMMA SpecKinds ==
    ASSUME scenario \in DOMAIN Inputs, NEW q \in Replica, done[q] \in Nat,
           Memory(q), Owned(q), DidSpec(q)
    PROVE  /\ Kinds(groups'[q], config[q].VMType)
           /\ \A k \in DOMAIN groups'[q] : groups'[q][k].kind = "VMPool" => cache[q].pools # {}
  <1> DEFINE built == buildNodeGroupFromSpec(NextSpec(q), q)
             list  == groups[q]
             new   == groups'[q]
  <1>1. /\ built.id = Id(NextSpec(q).head, NextSpec(q).sku) /\ built.explicit
        /\ built.kind \in {"ScaleSet", "VMPool", "AgentPool"}
        /\ built.kind = "ScaleSet" => config[q].VMType # "standard"
        /\ built.kind = "VMPool" <=> IsVMsPool(NextSpec(q), cache[q])
        /\ built.kind = "AgentPool" => config[q].VMType = "standard"
    BY BuiltGroup DEF KindOf
  <1>2. NextSpec(q).sku = <<>> => NextSpec(q).head \notin PoolNames
    <2>1. done[q] + 1 \in 1..Len(input.specs) /\ Len(input.specs) \in Nat
          /\ DOMAIN input.specs = 1..Len(input.specs)
      BY InputsAssumption DEF DidSpec, input
    <2> QED
      BY <2>1, InputsAssumption DEF NextSpec, input, PoolNames
  <1>3. built.id.head = NextSpec(q).head /\ built.id.sku = NextSpec(q).sku
    BY <1>1 DEF Id
  <1>4. built.kind = "VMPool" => cache[q].pools # {} /\ built.id.head \in PoolNames
    BY <1>1, <1>3 DEF IsVMsPool, Memory, PoolNames
  <1>5. new = Register(list, built) /\ IsList(list)
    BY DEF DidSpec, Memory
  <1>6. Kinds(list, config[q].VMType)
        /\ \A i \in DOMAIN list : list[i].kind = "VMPool" => cache[q].pools # {}
    BY DEF Owned
  <1> HIDE DEF built, list, new
  <1>7. \A k \in DOMAIN new : \/ k \in DOMAIN list /\ new[k] = list[k]
                              \/ new[k] = built
    BY <1>5, RegisterElements
  <1>8. Kinds(new, config[q].VMType)
    BY <1>1, <1>2, <1>3, <1>4, <1>6, <1>7 DEF Kinds
  <1> QED
    BY <1>4, <1>6, <1>7, <1>8 DEF new

\* At the first load nobody has been asked for yet.
LEMMA LoadedFields ==
    ASSUME NEW q \in Replica, DidLoad(q)
    PROVE  cache'[q].unowned = {}
  <1>1. PICK failing \in Failing(q) :
           cache'[q] = LET c == fetchAzureResources(NewCache, config[q].EnableVMsAgentPool,
                                                    failing)
                       IN  IF failing = "nothing"
                           THEN [Published(<<>>, c) EXCEPT !.first = TRUE] ELSE c
    BY DEF DidLoad
  <1> DEFINE c == fetchAzureResources(NewCache, config[q].EnableVMsAgentPool, failing)
             p == Published(<<>>, c)
  <1>2. DOMAIN c = CacheFields /\ c.unowned = {}
    <2>1. NewCache.unowned = {}
      BY DEF NewCache
    <2> QED
      BY <2>1, NewCacheFields, FetchedFields
  <1> HIDE DEF c
  <1>3. DOMAIN p = CacheFields /\ p.unowned = {}
    BY <1>2, PublishedFields
  <1> HIDE DEF p
  <1>4. cache'[q] = IF failing = "nothing" THEN [p EXCEPT !.first = TRUE] ELSE c
    BY <1>1 DEF c, p
  <1> QED
    BY <1>2, <1>3, <1>4 DEF CacheFields

\* No step of a process takes a node away from a group of --nodes.
LEMMA OwnedStep ==
    ASSUME scenario \in DOMAIN Inputs, scenario' = scenario, NEW q \in Replica, done[q] \in Nat,
           up[q] \in BOOLEAN, Memory(q), Owned(q), Outcome(q)
    PROVE  Owned(q)'
  <1>1. input' = input /\ PoolNames' = PoolNames
    BY DEF input, PoolNames
  <1>2. Kinds(groups'[q], config'[q].VMType) => Kinds(groups[q], config[q].VMType)'
    BY <1>1 DEF Kinds
  <1>3. Indexed(groups'[q], cache'[q].owner) => Indexed(groups[q], cache[q].owner)'
    BY <1>1 DEF Indexed, NodesOf, Id
  <1>4. \A g : NodesOf(g, input)' = NodesOf(g, input)
    BY <1>1 DEF NodesOf, Id
  <1>5. CASE Stays(q)
    BY <1>1, <1>2, <1>3, <1>4, <1>5 DEF Stays, Owned, Early
  <1>6. CASE Fresh(q)'
    BY <1>6, NoList DEF Fresh, Owned, Early, Kinds, NewCache
  <1>7. CASE DidConfig(q) \/ DidClient(q) \/ DidLoad(q) \/ DidSKUs(q)
    <2>1. groups'[q] = <<>> /\ ~up'[q] /\ ~up[q] /\ cache[q].unowned = {}
          /\ step'[q] \in {"client", "load", "skus", "groups"}
      BY <1>7 DEF DidConfig, DidClient, DidLoad, DidSKUs, Memory, Owned, Early
    <2>2. cache'[q].unowned = {}
      <3>1. CASE DidConfig(q) \/ DidClient(q)
        BY <2>1, <3>1 DEF DidConfig, DidClient
      <3>2. CASE DidSKUs(q)
        BY <2>1, <3>2 DEF DidSKUs, Memory, CacheFields
      <3>3. CASE DidLoad(q)
        BY <3>3, LoadedFields
      <3> QED
        BY <1>7, <3>1, <3>2, <3>3
    <2>3. Kinds(groups'[q], config'[q].VMType)
      BY <2>1, NoList DEF Kinds
    <2> QED
      BY <1>2, <2>1, <2>2, <2>3, NoList DEF Owned, Early
  <1>8. CASE DidSpec(q) \/ DidSpecs(q)
    <2>1. /\ step'[q] \in {"groups", "discover"} /\ step[q] = "groups"
          /\ cache'[q] = cache[q] /\ up'[q] = up[q] /\ config'[q] = config[q]
      BY <1>8 DEF DidSpec, DidSpecs
    <2>2. cache[q].unowned = {} /\ ~up[q]
      BY <2>1 DEF Owned
    <2>3. /\ Kinds(groups'[q], config[q].VMType)
          /\ \A k \in DOMAIN groups'[q] : groups'[q][k].kind = "VMPool" => cache[q].pools # {}
      BY <1>8, SpecKinds DEF DidSpecs, Owned
    <2> QED
      BY <1>2, <2>1, <2>2, <2>3 DEF Owned, Early
  <1>9. CASE DidDiscover(q)
    <2>1. \A k \in DOMAIN groups'[q] :
             \/ FoundGroup(groups'[q][k], q)
             \/ \E i \in DOMAIN groups[q] : groups'[q][k] = groups[q][i]
      BY <1>9, DiscoverElements
    <2>2. \A k \in DOMAIN groups'[q] :
             \/ /\ groups'[q][k].kind = "ScaleSet" /\ ~groups'[q][k].explicit
                /\ config[q].VMType = "vmss"
             \/ \E i \in DOMAIN groups[q] : groups'[q][k] = groups[q][i]
      BY <2>1 DEF FoundGroup
    <2>3. /\ config'[q] = config[q] /\ up'[q] = up[q] /\ step'[q] = "fetch"
          /\ step[q] = "discover"
      BY <1>9 DEF DidDiscover
    <2>4. Kinds(groups'[q], config'[q].VMType)
      BY <2>2, <2>3 DEF Kinds, Owned
    <2>5. /\ cache'[q].pools = cache[q].pools /\ cache'[q].owner = cache[q].owner
          /\ cache'[q].vms = cache[q].vms /\ cache'[q].scaleSets = cache[q].scaleSets
          /\ cache'[q].unowned \in {cache[q].unowned, {}}
      BY <1>9 DEF DidDiscover, Memory, CacheFields
    <2>6. up[q] => Indexed(groups'[q], cache'[q].owner)
      BY <2>2, <2>5 DEF Owned, Indexed
    <2>7. \A k \in DOMAIN groups'[q] :
             /\ groups'[q][k].kind = "VMPool" => cache'[q].pools # {}
             /\ groups'[q][k].explicit =>
                   \A inst \in cache'[q].unowned : inst \notin NodesOf(groups'[q][k], input)
      BY <2>2, <2>5 DEF Owned
    <2> QED
      BY <1>1, <1>2, <1>3, <1>4, <2>3, <2>4, <2>5, <2>6, <2>7 DEF Owned, Early
  <1>10. CASE DidFetch(q) \/ DidFail(q)
    <2>1. /\ cache'[q].pools \in {cache[q].pools, input.pools}
          /\ cache'[q].owner = cache[q].owner /\ cache'[q].unowned = cache[q].unowned
          /\ cache'[q].vms \in {cache[q].vms, input.vms}
          /\ cache'[q].scaleSets \in {cache[q].scaleSets, input.scaleSets}
      BY <1>10, FetchedFields DEF DidFetch, DidFail, Memory
    <2>2. cache[q].pools # {} => cache'[q].pools # {}
      BY <2>1 DEF Memory
    <2>3. step'[q] = "publish" => cache'[q].vms = input.vms /\ cache'[q].scaleSets = input.scaleSets
      BY <1>10, FetchedFields DEF DidFetch, DidFail, Memory
    <2>4. groups'[q] = groups[q] /\ up'[q] = up[q] /\ config'[q] = config[q]
          /\ (step'[q] = "running" => up[q]) /\ step'[q] \in {"publish", "running", "discover"}
      BY <1>10 DEF DidFetch, DidFail
    <2> QED
      BY <1>1, <1>2, <1>3, <1>4, <2>1, <2>2, <2>3, <2>4 DEF Owned, Early
  <1>11. CASE DidPublish(q)
    <2>1. /\ groups'[q] = groups[q] /\ up'[q] /\ step'[q] = "running" /\ config'[q] = config[q]
          /\ step[q] = "publish"
      BY <1>11 DEF DidPublish
    <2>2. CASE cache'[q] = cache[q] /\ up[q]
      BY <1>1, <1>2, <1>3, <1>4, <2>1, <2>2 DEF Owned, Early
    <2>3. CASE cache'[q] = Published(groups[q], cache[q])
      <3>1. /\ cache'[q].pools = cache[q].pools /\ cache'[q].unowned = {}
            /\ cache'[q].vms = cache[q].vms /\ cache'[q].scaleSets = cache[q].scaleSets
            /\ cache'[q].owner = OwnerOf(groups[q], cache[q])
        BY <2>3, PublishedFields DEF Memory
      <3>2. Indexed(groups[q], OwnerOf(groups[q], cache[q]))
        BY <2>1, OwnerIndexed DEF Memory, Owned
      <3> QED
        BY <1>1, <1>2, <1>3, <2>1, <3>1, <3>2 DEF Owned, Early
    <2> QED
      BY <1>11, <2>2, <2>3 DEF DidPublish
  <1>12. CASE DidRefresh(q)
    BY <1>1, <1>2, <1>3, <1>4, <1>12 DEF DidRefresh, Owned, Early
  <1>13. CASE DidAsk(q)
    <2>1. PICK new \in SUBSET {inst \in input.nodes : Omitted(inst, cache[q], config[q].VMType)} :
             cache'[q] = [cache[q] EXCEPT !.unowned = @ \cup new]
      BY <1>13 DEF DidAsk
    <2>2. /\ cache'[q].pools = cache[q].pools /\ cache'[q].owner = cache[q].owner
          /\ cache'[q].vms = cache[q].vms /\ cache'[q].scaleSets = cache[q].scaleSets
          /\ cache'[q].unowned = cache[q].unowned \cup new
      BY <2>1 DEF Memory, CacheFields
    <2>3. groups'[q] = groups[q] /\ up'[q] = up[q] /\ config'[q] = config[q]
          /\ step[q] = "running" /\ step'[q] = "running"
      BY <1>13 DEF DidAsk
    <2>4. \A i \in DOMAIN groups[q] : \A inst \in new : inst \notin NodesOf(groups[q][i], input)
      BY <2>1, <2>3, NoneOmitted DEF Owned
    <2> QED
      BY <1>1, <1>2, <1>3, <1>4, <2>2, <2>3, <2>4 DEF Owned, Early
  <1> QED
    BY <1>5, <1>6, <1>7, <1>8, <1>9, <1>10, <1>11, <1>12, <1>13 DEF Outcome, Works

OwnedInv == MemoryInv /\ NodesOwned /\ \A q \in Replica : Owned(q)

\* NodeGroupForNode gives a node to the group of --nodes that has it, and to no group that
\* has it not.
LEMMA AskOwnerAnswers ==
    ASSUME scenario \in DOMAIN Inputs, NEW r \in Replica, Owned(r), AskOwner(r)
    PROVE  /\ answer'.group # NoGroup => answer'.node \in NodesOf(answer'.group, input)
           /\ \A i \in DOMAIN groups[r] :
                 groups[r][i].explicit /\ answer'.node \in NodesOf(groups[r][i], input) =>
                     answer'.group = groups[r][i]
  <1> DEFINE c == cache[r]
             Answer(inst) ==
                [query |-> "owner", node |-> inst,
                 group |-> IF /\ inst.azure /\ inst \notin c.unowned
                              /\ ~(/\ inst.azure /\ inst \notin c.unowned
                                   /\ Omitted(inst, c, config[r].VMType))
                              /\ inst \in DOMAIN c.owner
                           THEN c.owner[inst] ELSE NoGroup]
  <1>1. PICK inst \in input.nodes : answer' = Answer(inst)
    BY DEF AskOwner
  <1>2. up[r]
    BY DEF AskOwner, At, Owned
  <1>3. Indexed(groups[r], c.owner)
    BY <1>2 DEF Owned
  <1>4. answer'.node = inst /\ (answer'.group # NoGroup =>
                                   inst \in DOMAIN c.owner /\ answer'.group = c.owner[inst])
    BY <1>1
  <1>5. ASSUME NEW i \in DOMAIN groups[r], groups[r][i].explicit,
               inst \in NodesOf(groups[r][i], input)
        PROVE  answer'.group = groups[r][i]
    <2>1. inst.azure /\ ~Omitted(inst, c, config[r].VMType)
      BY <1>2, <1>5, NoneOmitted
    <2>2. inst \notin c.unowned
      BY <1>5 DEF Owned
    <2>3. inst \in DOMAIN c.owner /\ c.owner[inst] = groups[r][i]
      BY <1>3, <1>5 DEF Indexed
    <2> HIDE DEF c
    <2> QED
      BY <1>1, <2>1, <2>2, <2>3
  <1> QED
    BY <1>3, <1>4, <1>5 DEF Indexed

\* Whatever was asked before, failed or was discovered, the nodes of the groups of --nodes
\* belong to these groups: no other group takes them, and they are never taken for
\* machines nobody manages.
THEOREM NodesAlwaysOwned == Spec => []NodesOwned
  <1>1. Init => OwnedInv
    <2> SUFFICES ASSUME Init PROVE OwnedInv
      OBVIOUS
    <2>1. \A q \in Replica : Owned(q)
      BY NoList DEF Init, Owned, Early, Kinds, NewCache
    <2>2. NodesOwned
      BY DEF Init, NodesOwned, NoAnswer
    <2> QED
      BY <2>1, <2>2, MemoryInvInit DEF OwnedInv
  <1>2. OwnedInv /\ [Next]_vars => OwnedInv'
    <2> SUFFICES ASSUME OwnedInv, [Next]_vars PROVE OwnedInv'
      OBVIOUS
    <2>1. scenario' = scenario /\ \A q \in Replica : Outcome(q)
      BY StepOutcome DEF OwnedInv, MemoryInv, TypeInv
    <2>2. \A q \in Replica : Owned(q)'
      BY <2>1, OwnedStep DEF OwnedInv, MemoryInv, TypeInv, Shape
    <2>3. MemoryInv'
      BY MemoryInvStep DEF OwnedInv
    <2>4. NodesOwned'
      <3>1. CASE UNCHANGED vars
        <4>1. \A g : NodesOf(g, input)' = NodesOf(g, input)
          BY <2>1 DEF NodesOf, Id, input
        <4> QED
          BY <3>1, <4>1 DEF OwnedInv, NodesOwned, NoGroup, vars, procVars, leVars, At
      <3>2. CASE \E r \in Replica : AskOwner(r)
        <4>1. PICK r \in Replica : AskOwner(r)
          BY <3>2
        <4>2. groups' = groups /\ stage' = stage /\ stage[r] = "leading"
          BY <4>1 DEF AskOwner, At, leVars
        <4>3. ASSUME NEW q \in Replica, At(q, "running")' PROVE q = r
          BY <4>2, <4>3 DEF At, OwnedInv, MemoryInv, TypeInv, LEInv, LeaderHolds, Leaders
        <4>4. /\ answer'.group # NoGroup => answer'.node \in NodesOf(answer'.group, input)
              /\ \A i \in DOMAIN groups[r] :
                    groups[r][i].explicit /\ answer'.node \in NodesOf(groups[r][i], input) =>
                        answer'.group = groups[r][i]
          BY <4>1, AskOwnerAnswers DEF OwnedInv, MemoryInv, TypeInv
        <4>5. \A g : NodesOf(g, input)' = NodesOf(g, input)
          BY <2>1 DEF NodesOf, Id, input
        <4> QED
          BY <4>2, <4>3, <4>4, <4>5 DEF NodesOwned, NoGroup
      <3>3. CASE answer'.query # "owner"
        BY <3>3 DEF NodesOwned
      <3> QED
        BY <3>1, <3>2, <3>3 DEF Next, Ask, AskTemplate, AskOptions, NoAnswer
    <2> QED
      BY <2>2, <2>3, <2>4 DEF OwnedInv
  <1>3. OwnedInv => NodesOwned
    BY DEF OwnedInv
  <1> QED
    BY <1>1, <1>2, <1>3, PTL DEF Spec

-----------------------------------------------------------------------------
(* Only an input that passes every check is served.                        *)

\* A name of a group that cannot be a VMs pool's.
NamesNoPool(id) == id.sku = <<>> \/ id.head \notin PoolNames

\* Nothing in an input is refused: neither configuration nor clients, discovery specs,
\* specs of --nodes or, with agent pools, the template and machines they need.
Accepts(name) ==
    LET in    == Inputs[name]
        built == Configured[name]
        Agent(spec) == /\ built.cfg.VMType = "standard"
                       /\ spec.sku = <<>> \/ spec.head \notin {p.name : p \in in.pools}
    IN  /\ ~built.err /\ KnownCloud(built.cfg) /\ ~newAzClient(in, built.cfg).err
        /\ \A d \in in.discovery : ~RefusedDiscovery(d)
        /\ \A i \in DOMAIN in.specs :
              /\ ValidSpec(in.specs[i], built.cfg.VMType = "vmss")
              /\ Agent(in.specs[i]) => /\ ~Normalised[name].err
                                       /\ \E vm \in in.vms :
                                              Id(vm.pool, <<>>) = Id(in.specs[i].head, in.specs[i].sku)

\* A spec that was not refused, and has a group.
SpecDone(spec, list, type) ==
    /\ ValidSpec(spec, type = "vmss")
    /\ type = "standard" /\ NamesNoPool(Id(spec.head, spec.sku)) => ~Normalised[scenario].err
    /\ \E k \in DOMAIN list : list[k].explicit /\ list[k].id = Id(spec.head, spec.sku)

\* What cannot be a VMs pool is an agent pool, where the VM type says so.
AgentPoolsNamed(list, type) ==
    \A k \in DOMAIN list : type = "standard" /\ list[k].explicit /\ NamesNoPool(list[k].id) =>
        list[k].kind = "AgentPool"

\* Agent pools have machines.
AgentPoolsFilled(list) ==
    \A k \in DOMAIN list : list[k].kind = "AgentPool" =>
        \E vm \in input.vms : Id(vm.pool, <<>>) = list[k].id

\* What the process of q has found in order so far.
Checked(q) ==
    /\ step[q] # "config" =>
          /\ ~Configured[scenario].err /\ KnownCloud(Configured[scenario].cfg)
          /\ config[q].VMType = Configured[scenario].cfg.VMType
    /\ step[q] = "client" => config[q] = Configured[scenario].cfg
    /\ step[q] \notin {"config", "client"} => ~newAzClient(input, Configured[scenario].cfg).err
    /\ Early(q) => done[q] = 0
    /\ ~Early(q) /\ step[q] # "groups" => NoneRefused /\ done[q] = Len(input.specs)
    /\ \A i \in 1..done[q] : SpecDone(input.specs[i], groups[q], config[q].VMType)
    /\ step[q] = "groups" => \A k \in DOMAIN groups[q] : groups[q][k].explicit
    /\ AgentPoolsNamed(groups[q], config[q].VMType)
    /\ up[q] => AgentPoolsFilled(groups[q])

\* What a spec that is not refused adds.
LEMMA SpecChecked ==
    ASSUME scenario \in DOMAIN Inputs, NEW q \in Replica, Memory(q), DidSpec(q)
    PROVE  LET spec  == NextSpec(q)
               built == buildNodeGroupFromSpec(spec, q)
           IN  /\ ValidSpec(spec, config[q].VMType = "vmss")
               /\ built.explicit /\ built.id = Id(spec.head, spec.sku)
               /\ config[q].VMType = "standard" /\ NamesNoPool(built.id) =>
                     built.kind = "AgentPool" /\ ~Normalised[scenario].err
  <1> DEFINE spec  == NextSpec(q)
             built == buildNodeGroupFromSpec(spec, q)
  <1>1. built.explicit /\ built.id = Id(spec.head, spec.sku)
        /\ (built.kind = "AgentPool" <=> ~IsVMsPool(spec, cache[q]) /\ config[q].VMType = "standard")
    BY BuiltGroup
  <1>2. ~RefusedSpec(spec, q)
    BY DEF DidSpec
  <1> HIDE DEF spec, built
  <1>3. NamesNoPool(built.id) => ~IsVMsPool(spec, cache[q])
    <2>1. built.id.head = spec.head /\ built.id.sku = spec.sku
      BY <1>1 DEF Id
    <2> QED
      BY <2>1 DEF NamesNoPool, IsVMsPool, PoolNames, Memory
  <1> QED
    BY <1>1, <1>2, <1>3 DEF RefusedSpec, spec, built

\* Registering a spec.
LEMMA SpecsChecked ==
    ASSUME scenario \in DOMAIN Inputs, NEW q \in Replica, done[q] \in Nat, Memory(q),
           \A i \in 1..done[q] : SpecDone(input.specs[i], groups[q], config[q].VMType),
           \A k \in DOMAIN groups[q] : groups[q][k].explicit,
           AgentPoolsNamed(groups[q], config[q].VMType), DidSpec(q)
    PROVE  /\ \A i \in 1..done'[q] : SpecDone(input.specs[i], groups'[q], config[q].VMType)
           /\ AgentPoolsNamed(groups'[q], config[q].VMType)
           /\ \A k \in DOMAIN groups'[q] : groups'[q][k].explicit
  <1> DEFINE spec  == NextSpec(q)
             built == buildNodeGroupFromSpec(spec, q)
             list  == groups[q]
             new   == groups'[q]
             type  == config[q].VMType
  <1>1. /\ ValidSpec(spec, type = "vmss") /\ built.explicit /\ built.id = Id(spec.head, spec.sku)
        /\ type = "standard" /\ NamesNoPool(built.id) =>
              built.kind = "AgentPool" /\ ~Normalised[scenario].err
    BY SpecChecked
  <1>2. new = Register(list, built) /\ IsList(list)
        /\ done'[q] = done[q] + 1 /\ spec = input.specs[done[q] + 1]
    BY DEF DidSpec, Memory, NextSpec
  <1> HIDE DEF spec, built, list, new
  <1>3. /\ DOMAIN list \subseteq DOMAIN new
        /\ \A k \in DOMAIN new : \/ k \in DOMAIN list /\ new[k] = list[k]
                                 \/ new[k] = built
        /\ \A k \in DOMAIN list : new[k].id = list[k].id
        /\ \E k \in DOMAIN new : new[k].id = built.id
    <2> DEFINE reg == Register(list, built)
    <2>1. /\ DOMAIN list \subseteq DOMAIN reg
          /\ \A k \in DOMAIN reg : \/ k \in DOMAIN list /\ reg[k] = list[k]
                                   \/ reg[k] = built
          /\ \A k \in DOMAIN list : reg[k].id = list[k].id
          /\ \E k \in DOMAIN reg : reg[k].id = built.id
      BY <1>2, RegisterElements
    <2> HIDE DEF reg
    <2>2. new = reg
      BY <1>2 DEF reg
    <2> QED
      BY <2>1, <2>2
  <1>4. \A k \in DOMAIN list : list[k].explicit
    BY DEF list
  <1>5. \A k \in DOMAIN new : new[k].explicit
    BY <1>1, <1>3, <1>4
  <1>6. AgentPoolsNamed(new, type)
    <2>1. AgentPoolsNamed(list, type)
      BY DEF list
    <2> QED
      BY <1>1, <1>3, <2>1 DEF AgentPoolsNamed
  <1>7. ASSUME NEW i \in 1..done[q] PROVE SpecDone(input.specs[i], new, type)
    <2>1. SpecDone(input.specs[i], list, type)
      BY DEF list
    <2> QED
      BY <1>3, <1>5, <2>1 DEF SpecDone
  <1>8. SpecDone(spec, new, type)
    <2>1. \E k \in DOMAIN new : new[k].explicit /\ new[k].id = Id(spec.head, spec.sku)
      BY <1>1, <1>3, <1>5
    <2> QED
      BY <1>1, <2>1 DEF SpecDone
  <1>9. \A i \in 1..(done[q] + 1) : i \in 1..done[q] \/ i = done[q] + 1
    OBVIOUS
  <1> QED
    BY <1>2, <1>5, <1>6, <1>7, <1>8, <1>9 DEF new

\* Each step finds what it checks in order or ends the process, and no step undoes a
\* check that an earlier one made.
LEMMA CheckedStep ==
    ASSUME scenario \in DOMAIN Inputs, scenario' = scenario, NEW q \in Replica, done[q] \in Nat,
           up[q] \in BOOLEAN, Memory(q), Owned(q), Checked(q), Outcome(q)
    PROVE  Checked(q)'
  <1>1. input' = input /\ PoolNames' = PoolNames /\ NoneRefused' = NoneRefused
    BY DEF input, PoolNames, NoneRefused
  <1>2. /\ \A i \in 1..done'[q] : SpecDone(input.specs[i], groups'[q], config'[q].VMType)
           => SpecDone(input.specs[i], groups[q], config[q].VMType)'
        /\ AgentPoolsNamed(groups'[q], config'[q].VMType) =>
              AgentPoolsNamed(groups[q], config[q].VMType)'
        /\ AgentPoolsFilled(groups'[q]) => AgentPoolsFilled(groups[q])'
    BY <1>1 DEF SpecDone, AgentPoolsNamed, AgentPoolsFilled, NamesNoPool
  <1>3. ASSUME groups'[q] = groups[q], done'[q] = done[q],
               up'[q] = up[q] \/ AgentPoolsFilled(groups[q]),
               config'[q].VMType = config[q].VMType
        PROVE  /\ \A i \in 1..done'[q] : SpecDone(input.specs[i], groups[q], config[q].VMType)'
               /\ AgentPoolsNamed(groups[q], config[q].VMType)'
               /\ up'[q] => AgentPoolsFilled(groups[q])'
    <2>1. \A i \in 1..done[q] : SpecDone(input.specs[i], groups[q], config[q].VMType)
      BY DEF Checked
    <2>2. AgentPoolsNamed(groups[q], config[q].VMType)
      BY DEF Checked
    <2>3. up[q] => AgentPoolsFilled(groups[q])
      BY DEF Checked
    <2> QED
      BY <1>2, <1>3, <2>1, <2>2, <2>3
  <1>4. ASSUME groups'[q] = <<>>, done'[q] = 0, ~up'[q]
        PROVE  /\ \A i \in 1..done'[q] : SpecDone(input.specs[i], groups[q], config[q].VMType)'
               /\ AgentPoolsNamed(groups[q], config[q].VMType)'
               /\ up'[q] => AgentPoolsFilled(groups[q])'
    <2>1. 1..done'[q] = {}
      BY <1>4
    <2>2. AgentPoolsNamed(groups'[q], config'[q].VMType)
      BY <1>4, NoList DEF AgentPoolsNamed
    <2> QED
      BY <1>2, <1>4, <2>1, <2>2
  <1>5. CASE Stays(q)
    BY <1>1, <1>3, <1>5 DEF Stays, Checked, Early
  <1>6. CASE Fresh(q)'
    BY <1>4, <1>6 DEF Fresh, Checked, Early
  <1>7. CASE DidConfig(q)
    <2>1. groups'[q] = <<>> /\ done'[q] = 0 /\ ~up'[q]
      BY <1>7 DEF DidConfig, Memory, Owned, Checked, Early
    <2> QED
      BY <1>4, <1>7, <2>1 DEF DidConfig, Checked, Early
  <1>8. CASE DidClient(q)
    <2>1. ~newAzClient(input, Configured[scenario].cfg).err
      BY <1>8 DEF DidClient, Checked
    <2> QED
      BY <1>1, <1>3, <1>8, <2>1 DEF DidClient, Checked, Early
  <1>9. CASE DidLoad(q)
    BY <1>1, <1>3, <1>9 DEF DidLoad, Checked, Early
  <1>10. CASE DidSKUs(q)
    <2>1. config'[q].VMType = config[q].VMType
      BY <1>10, WithoutDynamicFields DEF DidSKUs, Memory
    <2>2. groups'[q] = <<>>
      BY <1>10 DEF DidSKUs, Memory, Early
    <2> QED
      BY <1>1, <1>3, <1>10, <2>1, <2>2, NoList DEF DidSKUs, Checked, Early
  <1>11. CASE DidSpec(q)
    <2>1. /\ \A i \in 1..done'[q] : SpecDone(input.specs[i], groups'[q], config[q].VMType)
          /\ AgentPoolsNamed(groups'[q], config[q].VMType)
          /\ \A k \in DOMAIN groups'[q] : groups'[q][k].explicit
      BY <1>11, SpecsChecked DEF DidSpec, Checked
    <2>2. ~up'[q] /\ config'[q] = config[q] /\ step[q] = "groups" /\ step'[q] = "groups"
      BY <1>11 DEF DidSpec, Owned
    <2> QED
      BY <1>1, <1>2, <2>1, <2>2 DEF Checked, Early
  <1>12. CASE DidSpecs(q)
    BY <1>1, <1>3, <1>12 DEF DidSpecs, Checked, Early
  <1>13. CASE DidDiscover(q)
    <2>1. /\ \A k \in DOMAIN groups'[q] :
                \/ groups'[q][k].kind = "ScaleSet" /\ ~groups'[q][k].explicit
                \/ \E i \in DOMAIN groups[q] : groups'[q][k] = groups[q][i]
          /\ \A i \in DOMAIN groups[q] : groups[q][i].explicit =>
                \E k \in DOMAIN groups'[q] : groups'[q][k] = groups[q][i]
      BY <1>13, DiscoverElements DEF FoundGroup
    <2>2. \A i \in 1..done[q] : SpecDone(input.specs[i], groups'[q], config[q].VMType)
      <3> SUFFICES ASSUME NEW i \in 1..done[q]
                   PROVE  SpecDone(input.specs[i], groups'[q], config[q].VMType)
        OBVIOUS
      <3>1. SpecDone(input.specs[i], groups[q], config[q].VMType)
        BY DEF Checked
      <3> QED
        BY <2>1, <3>1 DEF SpecDone
    <2>3. AgentPoolsNamed(groups'[q], config[q].VMType)
      BY <2>1 DEF AgentPoolsNamed, Checked
    <2>4. up[q] => AgentPoolsFilled(groups'[q])
      BY <2>1 DEF AgentPoolsFilled, Checked
    <2>5. config'[q] = config[q] /\ done'[q] = done[q] /\ up'[q] = up[q]
          /\ step[q] = "discover" /\ step'[q] = "fetch"
      BY <1>13 DEF DidDiscover
    <2> QED
      BY <1>1, <1>2, <2>2, <2>3, <2>4, <2>5 DEF Checked, Early
  <1>14. CASE DidFetch(q) \/ DidFail(q) \/ DidRefresh(q) \/ DidAsk(q)
    <2>1. /\ groups'[q] = groups[q] /\ done'[q] = done[q] /\ up'[q] = up[q]
          /\ config'[q] = config[q]
          /\ step[q] \in {"discover", "fetch", "publish", "running"}
          /\ step'[q] \in {"discover", "fetch", "publish", "running"}
      BY <1>14 DEF DidFetch, DidFail, DidRefresh, DidAsk
    <2> QED
      BY <1>1, <1>3, <2>1 DEF Checked, Early
  <1>15. CASE DidPublish(q)
    <2>1. up'[q] = up[q] \/ AgentPoolsFilled(groups[q])
      <3>1. CASE up[q]
        BY <1>15, <3>1 DEF DidPublish
      <3>2. CASE ~NodesFail(groups[q], cache[q])
        <4> SUFFICES ASSUME NEW k \in DOMAIN groups[q], groups[q][k].kind = "AgentPool"
                     PROVE  \E vm \in input.vms : Id(vm.pool, <<>>) = groups[q][k].id
          BY DEF AgentPoolsFilled
        <4>1. NodesOf(groups[q][k], cache[q]) # {}
          BY <3>2 DEF NodesFail
        <4>2. cache[q].vms = input.vms
          BY <1>15 DEF DidPublish, Owned
        <4>3. NodesOf(groups[q][k], cache[q]) =
                 {vm.instance : vm \in {v \in cache[q].vms : Id(v.pool, <<>>) = groups[q][k].id}}
          BY DEF NodesOf
        <4> QED
          BY <4>1, <4>2, <4>3
      <3> QED
        BY <1>15, <3>1, <3>2 DEF DidPublish
    <2>2. /\ groups'[q] = groups[q] /\ done'[q] = done[q] /\ config'[q] = config[q]
          /\ step[q] = "publish" /\ step'[q] = "running"
      BY <1>15 DEF DidPublish
    <2> QED
      BY <1>1, <1>3, <2>1, <2>2 DEF Checked, Early
  <1> QED
    BY <1>5, <1>6, <1>7, <1>8, <1>9, <1>10, <1>11, <1>12, <1>13, <1>14, <1>15
       DEF Outcome, Works

\* A process that serves the core has made all the checks.
LEMMA CheckedAccepts ==
    ASSUME scenario \in DOMAIN Inputs, NEW q \in Replica, up[q], Owned(q), Checked(q)
    PROVE  Accepts(scenario)
  <1> DEFINE cfg == Configured[scenario].cfg
  <1>1. ~Early(q) /\ step[q] # "groups" /\ step[q] \notin {"config", "client"}
    BY DEF Owned, Early
  <1>2. /\ ~Configured[scenario].err /\ KnownCloud(cfg) /\ ~newAzClient(input, cfg).err
        /\ config[q].VMType = cfg.VMType
    BY <1>1 DEF Checked
  <1>3. NoneRefused /\ done[q] = Len(input.specs)
    BY <1>1 DEF Checked
  <1>4. ASSUME NEW i \in DOMAIN input.specs
        PROVE  LET spec == input.specs[i]
               IN  /\ ValidSpec(spec, cfg.VMType = "vmss")
                   /\ cfg.VMType = "standard" /\ (spec.sku = <<>> \/ spec.head \notin PoolNames) =>
                         /\ ~Normalised[scenario].err
                         /\ \E vm \in input.vms : Id(vm.pool, <<>>) = Id(spec.head, spec.sku)
    <2> DEFINE spec == input.specs[i]
               id   == Id(spec.head, spec.sku)
    <2>1. i \in 1..done[q]
      BY <1>3, InputsAssumption DEF input
    <2>2. SpecDone(spec, groups[q], cfg.VMType)
      BY <1>2, <2>1 DEF Checked
    <2>3. id.head = spec.head /\ id.sku = spec.sku
      BY DEF Id
    <2>4. ASSUME cfg.VMType = "standard", NamesNoPool(id)
          PROVE  ~Normalised[scenario].err /\ \E vm \in input.vms : Id(vm.pool, <<>>) = id
      <3>1. PICK k \in DOMAIN groups[q] : groups[q][k].explicit /\ groups[q][k].id = id
        BY <2>2 DEF SpecDone
      <3>2. groups[q][k].kind = "AgentPool"
        BY <1>2, <2>4, <3>1 DEF Checked, AgentPoolsNamed
      <3>3. \E vm \in input.vms : Id(vm.pool, <<>>) = id
        BY <3>1, <3>2 DEF Checked, AgentPoolsFilled
      <3> QED
        BY <2>2, <2>3, <2>4, <3>3 DEF SpecDone
    <2>5. ValidSpec(spec, cfg.VMType = "vmss")
      BY <2>2 DEF SpecDone
    <2> QED
      BY <2>3, <2>4, <2>5 DEF NamesNoPool
  <1> HIDE DEF cfg
  <1> QED
    BY <1>2, <1>3, <1>4 DEF Accepts, NoneRefused, PoolNames, input, cfg

CheckedInv == MemoryInv /\ \A q \in Replica : Owned(q) /\ Checked(q)

\* All that is checked stays checked.
LEMMA CheckedInvariant == Spec => []CheckedInv
  <1>1. Init => CheckedInv
    <2> SUFFICES ASSUME Init PROVE CheckedInv
      OBVIOUS
    <2>1. \A q \in Replica : Owned(q)
      BY NoList DEF Init, Owned, Early, Kinds, NewCache
    <2>2. \A q \in Replica : Checked(q)
      BY NoList DEF Init, Checked, Early, AgentPoolsNamed
    <2> QED
      BY <2>1, <2>2, MemoryInvInit DEF CheckedInv
  <1>2. CheckedInv /\ [Next]_vars => CheckedInv'
    <2> SUFFICES ASSUME CheckedInv, [Next]_vars PROVE CheckedInv'
      OBVIOUS
    <2>1. scenario' = scenario /\ \A q \in Replica : Outcome(q)
      BY StepOutcome DEF CheckedInv, MemoryInv, TypeInv
    <2>2. \A q \in Replica : Owned(q)'
      BY <2>1, OwnedStep DEF CheckedInv, MemoryInv, TypeInv, Shape
    <2>3. \A q \in Replica : Checked(q)'
      BY <2>1, CheckedStep DEF CheckedInv, MemoryInv, TypeInv, Shape
    <2> QED
      BY <2>2, <2>3, MemoryInvStep DEF CheckedInv
  <1> QED
    BY <1>1, <1>2, PTL DEF Spec

\* A process serves the core only if nothing in its input is refused, whatever failed and
\* was tried again on the way there.
ServedIsAccepted == \A r \in Replica : up[r] => Accepts(scenario)

\* createAzureManagerInternal lets no error through: there is no way to serve the core
\* round one of its checks.
THEOREM OnlyAcceptedServed == Spec => []ServedIsAccepted
  <1>1. CheckedInv => ServedIsAccepted
    BY CheckedAccepts DEF CheckedInv, MemoryInv, TypeInv, ServedIsAccepted
  <1> QED
    BY <1>1, CheckedInvariant, PTL

\* So where whatever the checks accept is in order, nothing else is ever served.
THEOREM RefusedNeverServed ==
    ASSUME \A name \in DOMAIN Inputs : Accepts(name) => Inputs[name].good
    PROVE  Spec => []RefusedNeverRuns
  <1>1. CheckedInv => RefusedNeverRuns
    BY CheckedAccepts DEF CheckedInv, MemoryInv, TypeInv, RefusedNeverRuns, input
  <1> QED
    BY <1>1, CheckedInvariant, PTL

-----------------------------------------------------------------------------
(* The groups a process serves.                                            *)

\* What the core sees of a group.
Desc(g) == [id |-> g.id, kind |-> g.kind, min |-> g.min, max |-> g.max]

Explicit(list) == {Desc(list[k]) : k \in {i \in DOMAIN list : list[i].explicit}}
Implicit(list) == {Desc(list[k]) : k \in {i \in DOMAIN list : ~list[i].explicit}}

\* Registering a group replaces the one with its id, if there is one.
LEMMA RegisterDescs ==
    ASSUME NEW list, IsList(list), \A k \in DOMAIN list : list[k].explicit,
           NEW group, group.explicit,
           \A k \in DOMAIN list : list[k].id = group.id => list[k].kind = group.kind
    PROVE  Explicit(Register(list, group)) =
              {d \in Explicit(list) : d.id # group.id} \cup {Desc(group)}
  <1> DEFINE new  == Register(list, group)
             same == {i \in DOMAIN list : list[i].id = group.id}
  <1>1. /\ DOMAIN list \subseteq DOMAIN new
        /\ \A k \in DOMAIN new : \/ k \in DOMAIN list /\ new[k] = list[k]
                                 \/ new[k] = group
        /\ \A k \in DOMAIN list : new[k].id = list[k].id
        /\ \E k \in DOMAIN new : new[k].id = group.id
    BY RegisterElements
  <1>2. ASSUME NEW k \in DOMAIN list, new[k] = list[k], list[k].id = group.id
        PROVE  Desc(list[k]) = Desc(group)
    <2>1. new = [i \in DOMAIN list |->
                    IF i \in same /\ <<list[i].min, list[i].max>> # <<group.min, group.max>>
                    THEN group ELSE list[i]]
      BY <1>2 DEF Register
    <2>2. new[k] = IF <<list[k].min, list[k].max>> # <<group.min, group.max>>
                   THEN group ELSE list[k]
      BY <1>2, <2>1
    <2>3. list[k] = group \/ (list[k].min = group.min /\ list[k].max = group.max)
      BY <1>2, <2>2
    <2> QED
      BY <1>2, <2>3 DEF Desc
  <1> HIDE DEF new
  <1>3. \A k \in DOMAIN new : new[k].explicit
    BY <1>1
  <1>4. ASSUME NEW d \in Explicit(new)
        PROVE  d \in {e \in Explicit(list) : e.id # group.id} \cup {Desc(group)}
    <2>1. PICK k \in DOMAIN new : d = Desc(new[k])
      BY DEF Explicit
    <2>2. CASE new[k] = group
      BY <2>1, <2>2
    <2>3. CASE k \in DOMAIN list /\ new[k] = list[k]
      <3>1. Desc(list[k]) \in Explicit(list) /\ Desc(list[k]).id = list[k].id
        BY <2>3 DEF Explicit, Desc
      <3> QED
        BY <1>2, <2>1, <2>3, <3>1
    <2> QED
      BY <1>1, <2>2, <2>3
  <1>5. Desc(group) \in Explicit(new)
    <2>1. PICK k \in DOMAIN new : new[k].id = group.id
      BY <1>1
    <2>2. Desc(new[k]) = Desc(group)
      BY <1>1, <1>2, <2>1
    <2> QED
      BY <1>3, <2>1, <2>2 DEF Explicit
  <1>6. ASSUME NEW d \in Explicit(list), d.id # group.id PROVE d \in Explicit(new)
    <2>1. PICK k \in DOMAIN list : d = Desc(list[k])
      BY DEF Explicit
    <2>2. list[k].id # group.id
      BY <1>6, <2>1 DEF Desc
    <2>3. new[k] = list[k] /\ k \in DOMAIN new
      BY <1>1, <2>2
    <2> QED
      BY <1>3, <2>1, <2>3 DEF Explicit
  <1> QED
    BY <1>4, <1>5, <1>6 DEF new

\* Merging keeps the explicit groups, and the others become the new ones that have not
\* the id of an explicit one.
LEMMA MergedDescs ==
    ASSUME NEW list, IsList(list), UniqueIds(list), NEW new, IsFiniteSet(new),
           \A g, h \in new : g.id = h.id => g = h, \A h \in new : ~h.explicit
    PROVE  LET m == Merged(list, new)
           IN  /\ Explicit(m) = Explicit(list)
               /\ Implicit(m) = {Desc(h) : h \in {g \in new : \A d \in Explicit(list) : d.id # g.id}}
  <1> DEFINE m == Merged(list, new)
  <1>1. /\ \A k \in DOMAIN m : \/ m[k] \in new
                               \/ \E i \in DOMAIN list : list[i].explicit /\ m[k] = list[i]
        /\ \A i \in DOMAIN list : list[i].explicit => \E k \in DOMAIN m : m[k] = list[i]
        /\ \A h \in new : \E k \in DOMAIN m : m[k].id = h.id
        /\ UniqueIds(m)
    BY MergedElements
  <1> HIDE DEF m
  <1>2. Explicit(m) = Explicit(list)
    <2>1. ASSUME NEW d \in Explicit(m) PROVE d \in Explicit(list)
      BY <1>1 DEF Explicit
    <2>2. ASSUME NEW d \in Explicit(list) PROVE d \in Explicit(m)
      <3>1. PICK i \in DOMAIN list : list[i].explicit /\ d = Desc(list[i])
        BY DEF Explicit
      <3>2. PICK k \in DOMAIN m : m[k] = list[i]
        BY <1>1, <3>1
      <3> QED
        BY <3>1, <3>2 DEF Explicit
    <2> QED
      BY <2>1, <2>2
  <1>3. \A d \in Explicit(list) : \E i \in DOMAIN list : list[i].explicit /\ d.id = list[i].id
    BY DEF Explicit, Desc
  <1>4. \A i \in DOMAIN list : list[i].explicit =>
           \E d \in Explicit(list) : d.id = list[i].id
    <2> SUFFICES ASSUME NEW i \in DOMAIN list, list[i].explicit
                 PROVE  Desc(list[i]) \in Explicit(list) /\ Desc(list[i]).id = list[i].id
      OBVIOUS
    <2> QED
      BY DEF Explicit, Desc
  <1>5. ASSUME NEW k \in DOMAIN m, ~m[k].explicit
        PROVE  m[k] \in {g \in new : \A d \in Explicit(list) : d.id # g.id}
    <2>1. m[k] \in new
      BY <1>1, <1>5
    <2>2. ASSUME NEW i \in DOMAIN list, list[i].explicit PROVE list[i].id # m[k].id
      <3>1. PICK l \in DOMAIN m : m[l] = list[i]
        BY <1>1, <2>2
      <3> QED
        BY <1>1, <1>5, <2>2, <3>1 DEF UniqueIds
    <2> QED
      BY <1>3, <2>1, <2>2
  <1>6. ASSUME NEW h \in new, \A d \in Explicit(list) : d.id # h.id
        PROVE  \E k \in DOMAIN m : m[k] = h
    <2>1. PICK k \in DOMAIN m : m[k].id = h.id
      BY <1>1
    <2>2. m[k] \in new
      BY <1>1, <1>4, <1>6, <2>1
    <2> QED
      BY <2>1, <2>2
  <1>7. Implicit(m) = {Desc(h) : h \in {g \in new : \A d \in Explicit(list) : d.id # g.id}}
    BY <1>5, <1>6 DEF Implicit
  <1> QED
    BY <1>2, <1>7 DEF m

\* The pools a process knows that has loaded everything it wants.
WantedPools ==
    IF Configured[scenario].cfg.EnableVMsAgentPool THEN input.pools ELSE {}

\* The kind of group a spec asks for.
WantedKind(id) ==
    CASE id.sku # <<>> /\ id.head \in {p.name : p \in WantedPools} -> "VMPool"
      [] /\ ~(id.sku # <<>> /\ id.head \in {p.name : p \in WantedPools})
         /\ Configured[scenario].cfg.VMType = "standard" -> "AgentPool"
      [] OTHER -> "ScaleSet"

SpecId(i) == Id(input.specs[i].head, input.specs[i].sku)

SpecDesc(i) == [id |-> SpecId(i), kind |-> WantedKind(SpecId(i)),
                min |-> input.specs[i].min, max |-> input.specs[i].max]

\* The first n specs: the last one to name a group decides.
SpecDescs(n) ==
    {SpecDesc(i) : i \in {j \in 1..n : \A k \in 1..n : k > j => SpecId(k) # SpecId(j)}}

\* What discovery finds with all the scale sets there are.
FoundDescs ==
    IF input.discovery # {} /\ Configured[scenario].cfg.VMType = "vmss"
    THEN {Desc(g) : g \in FoundGroups([scaleSets |-> input.scaleSets], Configured[scenario].cfg)}
    ELSE {}

\* The groups of an input: what its specs name, and what is discovered and not named.
Expected ==
    LET named == SpecDescs(Len(input.specs))
    IN  named \cup {d \in FoundDescs : \A e \in named : e.id # d.id}

\* One spec more.
LEMMA SpecDescsNext ==
    ASSUME NEW n \in Nat
    PROVE  SpecDescs(n + 1) = {d \in SpecDescs(n) : d.id # SpecId(n + 1)} \cup {SpecDesc(n + 1)}
  <1> DEFINE last(m) == {j \in 1..m : \A k \in 1..m : k > j => SpecId(k) # SpecId(j)}
  <1>1. \A i : SpecDesc(i).id = SpecId(i)
    BY DEF SpecDesc
  <1>2. n + 1 \in last(n + 1)
    OBVIOUS
  <1>3. \A i \in 1..n : i \in last(n + 1) <=> i \in last(n) /\ SpecId(i) # SpecId(n + 1)
    <2> SUFFICES ASSUME NEW i \in 1..n
                 PROVE  (\A k \in 1..(n + 1) : k > i => SpecId(k) # SpecId(i)) <=>
                        /\ \A k \in 1..n : k > i => SpecId(k) # SpecId(i)
                        /\ SpecId(i) # SpecId(n + 1)
      OBVIOUS
    <2>1. n + 1 > i /\ \A k \in 1..(n + 1) : k \in 1..n \/ k = n + 1
      OBVIOUS
    <2>2. 1..n \subseteq 1..(n + 1) /\ n + 1 \in 1..(n + 1)
      OBVIOUS
    <2> QED
      BY <2>1, <2>2
  <1>4. last(n + 1) \subseteq 1..n \cup {n + 1} /\ last(n) \subseteq 1..n
    OBVIOUS
  <1>5. SpecDescs(n + 1) = {SpecDesc(i) : i \in last(n + 1)}
        /\ SpecDescs(n) = {SpecDesc(i) : i \in last(n)}
    BY DEF SpecDescs
  <1> HIDE DEF last
  <1>6. ASSUME NEW i \in last(n + 1)
        PROVE  SpecDesc(i) \in {d \in SpecDescs(n) : d.id # SpecId(n + 1)} \cup {SpecDesc(n + 1)}
    BY <1>1, <1>3, <1>4, <1>5
  <1>7. ASSUME NEW i \in last(n), SpecDesc(i).id # SpecId(n + 1)
        PROVE  SpecDesc(i) \in SpecDescs(n + 1)
    BY <1>1, <1>3, <1>4, <1>5, <1>7
  <1>8. SpecDesc(n + 1) \in SpecDescs(n + 1)
    BY <1>2, <1>5
  <1> QED
    BY <1>5, <1>6, <1>7, <1>8

\* What is discovered depends on the scale sets alone.
LEMMA FoundDescsOf ==
    ASSUME NEW c, NEW cfg, c.scaleSets = input.scaleSets
    PROVE  {Desc(g) : g \in FoundGroups(c, cfg)} =
           {Desc(g) : g \in FoundGroups([scaleSets |-> input.scaleSets], Configured[scenario].cfg)}
  <1> DEFINE all == [scaleSets |-> input.scaleSets]
             See(vmss) == [id |-> Id(vmss.name, <<>>), kind |-> "ScaleSet",
                           min |-> SizeOf(vmss, "min"), max |-> SizeOf(vmss, "max")]
  <1>1. Discovered(c) = Discovered(all)
    <2>1. all.scaleSets = c.scaleSets
      OBVIOUS
    <2> HIDE DEF all
    <2> QED
      BY <2>1 DEF Discovered
  <1>2. ASSUME NEW x, NEW y
        PROVE  {Desc(g) : g \in FoundGroups(x, y)} = {See(vmss) : vmss \in Discovered(x)}
    <2> DEFINE Of(vmss) == [id |-> Id(vmss.name, <<>>), min |-> SizeOf(vmss, "min"),
                            max |-> SizeOf(vmss, "max"), explicit |-> FALSE, kind |-> "ScaleSet",
                            dynamic |-> y.EnableDynamicInstanceList,
                            predict |-> y.EnableLabelPredictionsOnTemplate]
    <2>1. FoundGroups(x, y) = {Of(vmss) : vmss \in Discovered(x)}
      BY DEF FoundGroups
    <2>2. \A vmss : Desc(Of(vmss)) = See(vmss)
      BY DEF Desc
    <2> HIDE DEF Of, See
    <2> QED
      BY <2>1, <2>2
  <1> HIDE DEF See, all
  <1>3. {Desc(g) : g \in FoundGroups(c, cfg)} = {See(vmss) : vmss \in Discovered(c)}
    BY <1>2
  <1>4. {Desc(g) : g \in FoundGroups(all, Configured[scenario].cfg)} =
           {See(vmss) : vmss \in Discovered(all)}
    BY <1>2
  <1> QED
    BY <1>1, <1>3, <1>4 DEF all

\* What is discovered beside what the specs name.
Extra == {d \in FoundDescs : \A e \in SpecDescs(Len(input.specs)) : e.id # d.id}

\* A process that has loaded everything registers what the specs ask for, one by one,
\* and then what it discovers; it never loses sight of a scale set or pool.
Serving(q) ==
    /\ step[q] # "config" =>
          config[q].EnableVMsAgentPool = Configured[scenario].cfg.EnableVMsAgentPool
    /\ cache[q].first =>
          /\ cache[q].scaleSets = input.scaleSets /\ cache[q].pools = WantedPools
          /\ Explicit(groups[q]) = SpecDescs(done[q])
          /\ Implicit(groups[q]) \in {{}, Extra}
    /\ cache[q].first /\ step[q] \in {"fetch", "publish", "running"} =>
          Implicit(groups[q]) = Extra

\* No groups, no specs.
LEMMA NoDescs == Explicit(<<>>) = {} /\ Implicit(<<>>) = {} /\ SpecDescs(0) = {}
  <1>1. 1..0 = {}
    OBVIOUS
  <1> QED
    BY <1>1, NoList DEF Explicit, Implicit, SpecDescs

\* A group that is built is what its spec asks for.
LEMMA BuiltDesc ==
    ASSUME NEW q \in Replica, cache[q].pools = WantedPools,
           config[q].VMType = Configured[scenario].cfg.VMType
    PROVE  LET g == buildNodeGroupFromSpec(NextSpec(q), q)
           IN  /\ g.explicit /\ g.id = SpecId(done[q] + 1)
               /\ g.kind = WantedKind(g.id)
               /\ Desc(g) = SpecDesc(done[q] + 1)
  <1> DEFINE spec == NextSpec(q)
             g    == buildNodeGroupFromSpec(spec, q)
             id   == Id(spec.head, spec.sku)
  <1>1. /\ g.id = id /\ g.kind = KindOf(spec, q) /\ g.explicit = TRUE
        /\ g.min = spec.min /\ g.max = spec.max
    BY DEF buildNodeGroupFromSpec
  <1>2. id = SpecId(done[q] + 1) /\ spec = input.specs[done[q] + 1]
    BY DEF SpecId, NextSpec
  <1>3. id.head = spec.head /\ id.sku = spec.sku
    BY DEF Id
  <1> HIDE DEF spec, g, id
  <1>4. IsVMsPool(spec, cache[q]) <=> id.sku # <<>> /\ id.head \in {p.name : p \in WantedPools}
    BY <1>3 DEF IsVMsPool
  <1>5. KindOf(spec, q) = WantedKind(id)
    BY <1>4 DEF KindOf, WantedKind
  <1>6. Desc(g) = SpecDesc(done[q] + 1)
    BY <1>1, <1>2, <1>5 DEF Desc, SpecDesc
  <1> QED
    BY <1>1, <1>2, <1>5, <1>6 DEF g, spec

\* A spec more has its group.
LEMMA SpecServed ==
    ASSUME NEW q \in Replica, done[q] \in Nat, Memory(q), Checked(q), Serving(q),
           cache[q].first, DidSpec(q)
    PROVE  Explicit(groups'[q]) = SpecDescs(done[q] + 1) /\ Implicit(groups'[q]) = {}
  <1> DEFINE built == buildNodeGroupFromSpec(NextSpec(q), q)
             list  == groups[q]
             new   == Register(list, built)
  <1>1. /\ built.explicit /\ built.id = SpecId(done[q] + 1) /\ built.kind = WantedKind(built.id)
        /\ Desc(built) = SpecDesc(done[q] + 1)
    BY BuiltDesc DEF Serving, Checked, DidSpec
  <1>2. IsList(list) /\ (\A k \in DOMAIN list : list[k].explicit)
        /\ Explicit(list) = SpecDescs(done[q])
    BY DEF Memory, Checked, Serving, DidSpec
  <1>3. groups'[q] = new
    BY DEF DidSpec
  <1> HIDE DEF built, list
  <1>4. ASSUME NEW k \in DOMAIN list PROVE list[k].kind = WantedKind(list[k].id)
    <2>1. Desc(list[k]) \in SpecDescs(done[q])
      BY <1>2 DEF Explicit
    <2>2. \A d \in SpecDescs(done[q]) : d.kind = WantedKind(d.id)
      BY DEF SpecDescs, SpecDesc
    <2> QED
      BY <2>1, <2>2 DEF Desc
  <1>5. \A k \in DOMAIN list : list[k].id = built.id => list[k].kind = built.kind
    BY <1>1, <1>4
  <1>6. Explicit(new) = {d \in Explicit(list) : d.id # built.id} \cup {Desc(built)}
    BY <1>1, <1>2, <1>5, RegisterDescs
  <1>7. \A k \in DOMAIN new : new[k].explicit
    BY <1>1, <1>2, RegisterElements
  <1> HIDE DEF new
  <1>8. Explicit(new) = SpecDescs(done[q] + 1)
    BY <1>1, <1>2, <1>6, SpecDescsNext
  <1>9. Implicit(new) = {}
    BY <1>7 DEF Implicit
  <1> QED
    BY <1>3, <1>8, <1>9

\* Discovery keeps what the specs name and finds the rest.
LEMMA DiscoveryServed ==
    ASSUME scenario \in DOMAIN Inputs, NEW q \in Replica, Memory(q), Checked(q), Serving(q),
           cache[q].first, DidDiscover(q)
    PROVE  Explicit(groups'[q]) = Explicit(groups[q]) /\ Implicit(groups'[q]) = Extra
  <1> DEFINE list  == groups[q]
             found == FoundGroups(cache[q], config[q])
             named == SpecDescs(Len(input.specs))
  <1>1. /\ IsList(list) /\ UniqueIds(list) /\ Explicit(list) = named
        /\ Implicit(list) \in {{}, Extra} /\ cache[q].scaleSets = input.scaleSets
        /\ config[q].VMType = Configured[scenario].cfg.VMType
    BY DEF Memory, Checked, Serving, DidDiscover, Early
  <1>2. IsFiniteSet(input.scaleSets) /\ \A v, w \in input.scaleSets : v.name = w.name => v = w
    BY InputsAssumption DEF input
  <1>3. groups'[q] = fetchAutoNodeGroups(list, cache[q], config[q])
    BY DEF DidDiscover
  <1>4. /\ IsFiniteSet(found) /\ \A g \in found : ~g.explicit
        /\ \A g, h \in found : g.id = h.id => g = h
    BY <1>1, <1>2, FoundElements
  <1>5. {Desc(g) : g \in found} =
           {Desc(g) : g \in FoundGroups([scaleSets |-> input.scaleSets], Configured[scenario].cfg)}
    BY <1>1, FoundDescsOf
  <1> HIDE DEF list, found, named
  <1>6. CASE input.discovery = {}
    <2>1. groups'[q] = Merged(list, {})
      BY <1>3, <1>6 DEF fetchAutoNodeGroups
    <2>2. /\ Explicit(Merged(list, {})) = Explicit(list)
          /\ Implicit(Merged(list, {})) =
                {Desc(h) : h \in {g \in {} : \A d \in Explicit(list) : d.id # g.id}}
      BY <1>1, FS_EmptySet, MergedDescs
    <2>3. Extra = {}
      BY <1>6 DEF Extra, FoundDescs
    <2> QED
      BY <2>1, <2>2, <2>3 DEF list
  <1>7. CASE input.discovery # {} /\ config[q].VMType = "vmss"
    <2>1. groups'[q] = Merged(list, found)
      BY <1>3, <1>7 DEF fetchAutoNodeGroups, found
    <2>2. /\ Explicit(Merged(list, found)) = Explicit(list)
          /\ Implicit(Merged(list, found)) =
                {Desc(h) : h \in {g \in found : \A d \in Explicit(list) : d.id # g.id}}
      BY <1>1, <1>4, MergedDescs
    <2>3. FoundDescs = {Desc(g) : g \in found}
      BY <1>1, <1>5, <1>7 DEF FoundDescs
    <2>4. \A g : Desc(g).id = g.id
      BY DEF Desc
    <2>5. {Desc(h) : h \in {g \in found : \A d \in named : d.id # g.id}}
             = {d \in {Desc(g) : g \in found} : \A e \in named : e.id # d.id}
      BY <2>4
    <2>6. Extra = {d \in {Desc(g) : g \in found} : \A e \in named : e.id # d.id}
      BY <2>3 DEF Extra, named
    <2> QED
      BY <1>1, <2>1, <2>2, <2>5, <2>6 DEF list
  <1>8. CASE input.discovery # {} /\ config[q].VMType # "vmss"
    <2>1. groups'[q] = list
      BY <1>3, <1>8 DEF fetchAutoNodeGroups
    <2>2. Extra = {}
      BY <1>1, <1>8 DEF Extra, FoundDescs
    <2> QED
      BY <1>1, <2>1, <2>2 DEF list
  <1> QED
    BY <1>6, <1>7, <1>8

\* What an input asks for stays the same.
LEMMA InputStays ==
    ASSUME scenario' = scenario
    PROVE  /\ input' = input /\ WantedPools' = WantedPools /\ Extra' = Extra
           /\ Expected' = Expected /\ \A n : SpecDescs(n)' = SpecDescs(n)
  <1>1. input' = input
    BY DEF input
  <1>2. WantedPools' = WantedPools
    BY <1>1 DEF WantedPools
  <1>3. \A n : SpecDescs(n)' = SpecDescs(n)
    BY <1>1, <1>2 DEF SpecDescs, SpecDesc, SpecId, WantedKind
  <1>4. \A c, cfg : FoundGroups(c, cfg)' = FoundGroups(c, cfg)
    <2> DEFINE Size(in, vmss, key) ==
                  LET limits == UNION {Limit(d, key) : d \in in.discovery}
                  IN  CASE <<key>> \in DOMAIN vmss.tags -> vmss.tags[<<key>>].number
                        [] <<key>> \notin DOMAIN vmss.tags /\ limits # {} ->
                              CHOOSE n \in limits :
                                 \A m \in limits : IF key = "min" THEN n >= m ELSE n <= m
                        [] OTHER -> NotANumber
    <2>1. \A vmss, key : SizeOf(vmss, key) = Size(input, vmss, key)
      BY DEF SizeOf
    <2>2. \A vmss, key : SizeOf(vmss, key)' = Size(input', vmss, key)
      BY DEF SizeOf
    <2> HIDE DEF Size
    <2>3. \A vmss, key : SizeOf(vmss, key)' = SizeOf(vmss, key)
      BY <1>1, <2>1, <2>2
    <2>4. \A c : Discovered(c)' = Discovered(c)
      BY <1>1, <2>3 DEF Discovered
    <2> QED
      BY <2>3, <2>4 DEF FoundGroups
  <1>5. FoundDescs' = FoundDescs
    BY <1>1, <1>4 DEF FoundDescs
  <1> QED
    BY <1>1, <1>2, <1>3, <1>5 DEF Extra, Expected

\* What a process serves stays in order.
LEMMA ServingStep ==
    ASSUME scenario \in DOMAIN Inputs, scenario' = scenario, NEW q \in Replica, done[q] \in Nat,
           Memory(q), Checked(q), Serving(q), Outcome(q)
    PROVE  Serving(q)'
  <1>1. /\ input' = input /\ WantedPools' = WantedPools /\ Extra' = Extra
        /\ \A n : SpecDescs(n)' = SpecDescs(n)
    BY InputStays
  <1>2. ASSUME cache'[q].first = cache[q].first, cache'[q].scaleSets = cache[q].scaleSets,
               cache'[q].pools = cache[q].pools, groups'[q] = groups[q], done'[q] = done[q],
               config'[q].EnableVMsAgentPool = config[q].EnableVMsAgentPool,
               step[q] # "config",
               step'[q] \in {"fetch", "publish", "running"} =>
                  step[q] \in {"fetch", "publish", "running"}
        PROVE  Serving(q)'
    BY <1>1, <1>2 DEF Serving
  <1>3. CASE Stays(q)
    BY <1>1, <1>3 DEF Stays, Serving
  <1>4. CASE Fresh(q)'
    BY <1>4 DEF Fresh, Serving, NewCache
  <1>5. CASE DidConfig(q)
    BY <1>1, <1>5 DEF DidConfig, Serving
  <1>6. CASE DidClient(q) \/ DidRefresh(q) \/ DidSpecs(q)
    BY <1>2, <1>6 DEF DidClient, DidRefresh, DidSpecs
  <1>7. CASE DidLoad(q)
    <2>1. groups'[q] = <<>> /\ done'[q] = 0 /\ config'[q] = config[q]
          /\ step[q] = "load" /\ step'[q] = "skus"
      BY <1>7 DEF DidLoad, Memory, Checked, Early
    <2>2. ASSUME cache'[q].first
          PROVE  cache'[q].scaleSets = input.scaleSets /\ cache'[q].pools = WantedPools
      <3>1. PICK failing \in Failing(q) :
               cache'[q] = LET c == fetchAzureResources(NewCache, config[q].EnableVMsAgentPool,
                                                        failing)
                           IN  IF failing = "nothing"
                               THEN [Published(<<>>, c) EXCEPT !.first = TRUE] ELSE c
        BY <1>7 DEF DidLoad
      <3> DEFINE c == fetchAzureResources(NewCache, config[q].EnableVMsAgentPool, failing)
                 p == Published(<<>>, c)
      <3>2. cache'[q] = IF failing = "nothing" THEN [p EXCEPT !.first = TRUE] ELSE c
        BY <3>1
      <3>3. NewCache.pools = {} /\ NewCache.first = FALSE
        BY DEF NewCache
      <3>4. /\ DOMAIN c = CacheFields /\ c.first = FALSE
            /\ failing = "nothing" => c.scaleSets = input.scaleSets
            /\ c.pools = IF config[q].EnableVMsAgentPool /\ failing = "nothing"
                         THEN input.pools ELSE {}
        <4>1. ASSUME NEW enabled
              PROVE  LET f == fetchAzureResources(NewCache, enabled, failing)
                     IN  /\ DOMAIN f = CacheFields /\ f.first = FALSE
                         /\ failing = "nothing" => f.scaleSets = input.scaleSets
                         /\ f.pools = IF enabled /\ failing = "nothing" THEN input.pools ELSE {}
          <5> DEFINE f == fetchAzureResources(NewCache, enabled, failing)
          <5>1. /\ DOMAIN f = CacheFields /\ f.first = NewCache.first
                /\ failing = "nothing" => f.scaleSets = input.scaleSets
                /\ f.pools = IF enabled /\ failing = "nothing" THEN input.pools ELSE NewCache.pools
            BY NewCacheFields, FetchedFields
          <5> HIDE DEF f
          <5>2. f.pools = IF enabled /\ failing = "nothing" THEN input.pools ELSE {}
            BY <3>3, <5>1
          <5>3. f.first = FALSE
            BY <3>3, <5>1
          <5> QED
            BY <5>1, <5>2, <5>3 DEF f
        <4> QED
          BY <4>1
      <3> HIDE DEF c
      <3>5. DOMAIN p = CacheFields /\ p.scaleSets = c.scaleSets /\ p.pools = c.pools
        BY <3>4, PublishedFields
      <3> HIDE DEF p
      <3>6. failing = "nothing"
        BY <2>2, <3>2, <3>4
      <3>7. cache'[q].scaleSets = p.scaleSets /\ cache'[q].pools = p.pools
        BY <3>2, <3>5, <3>6 DEF CacheFields
      <3>8. config[q].EnableVMsAgentPool = Configured[scenario].cfg.EnableVMsAgentPool
        BY <2>1 DEF Serving
      <3> QED
        BY <3>4, <3>5, <3>6, <3>7, <3>8 DEF WantedPools
    <2> QED
      BY <1>1, <2>1, <2>2, NoDescs DEF Serving
  <1>8. CASE DidSKUs(q)
    <2>1. PICK skus : /\ cache'[q] = [cache[q] EXCEPT !.api = skus]
                      /\ config'[q] = WithoutDynamicList(config[q], skus)
      BY <1>8 DEF DidSKUs
    <2>2. config'[q].EnableVMsAgentPool = config[q].EnableVMsAgentPool
      BY <2>1, WithoutDynamicFields DEF Memory
    <2>3. cache'[q].first = cache[q].first /\ cache'[q].scaleSets = cache[q].scaleSets
          /\ cache'[q].pools = cache[q].pools
      BY <2>1 DEF Memory, CacheFields
    <2> QED
      BY <1>2, <1>8, <2>2, <2>3 DEF DidSKUs
  <1>9. CASE DidSpec(q)
    <2>1. cache'[q] = cache[q] /\ config'[q] = config[q] /\ done'[q] = done[q] + 1
          /\ step[q] = "groups" /\ step'[q] = "groups"
      BY <1>9 DEF DidSpec
    <2>2. cache[q].first => Explicit(groups'[q]) = SpecDescs(done'[q]) /\ Implicit(groups'[q]) = {}
      BY <1>9, <2>1, SpecServed
    <2> QED
      BY <1>1, <2>1, <2>2 DEF Serving
  <1>10. CASE DidDiscover(q)
    <2>1. config'[q] = config[q] /\ done'[q] = done[q]
          /\ step[q] = "discover" /\ step'[q] = "fetch"
      BY <1>10 DEF DidDiscover
    <2>2. cache'[q].first = cache[q].first /\ cache'[q].scaleSets = cache[q].scaleSets
          /\ cache'[q].pools = cache[q].pools
      BY <1>10 DEF DidDiscover, Memory, CacheFields
    <2>3. cache[q].first => Explicit(groups'[q]) = Explicit(groups[q])
                            /\ Implicit(groups'[q]) = Extra
      BY <1>10, DiscoveryServed
    <2> QED
      BY <1>1, <2>1, <2>2, <2>3 DEF Serving
  <1>11. CASE DidFetch(q) \/ DidFail(q)
    <2>1. /\ groups'[q] = groups[q] /\ done'[q] = done[q] /\ config'[q] = config[q]
          /\ step[q] \in {"fetch", "publish"} /\ step'[q] # "config"
      BY <1>11 DEF DidFetch, DidFail
    <2>2. /\ cache'[q].first = cache[q].first
          /\ cache'[q].scaleSets \in {cache[q].scaleSets, input.scaleSets}
          /\ \/ cache'[q].pools = cache[q].pools
             \/ config[q].EnableVMsAgentPool /\ cache'[q].pools = input.pools
      <3>1. CASE cache'[q] = cache[q]
        BY <3>1
      <3>2. ASSUME NEW failing,
                   cache'[q] = fetchAzureResources(cache[q], config[q].EnableVMsAgentPool, failing)
            PROVE  <2>2!:
        BY <3>2, FetchedFields DEF Memory
      <3> QED
        BY <1>11, <3>1, <3>2 DEF DidFetch, DidFail
    <2>3. cache[q].first => cache'[q].scaleSets = input.scaleSets /\ cache'[q].pools = WantedPools
      BY <2>1, <2>2 DEF Serving, WantedPools
    <2> QED
      BY <1>1, <2>1, <2>2, <2>3 DEF Serving
  <1>12. CASE DidPublish(q)
    <2>1. cache'[q].first = cache[q].first /\ cache'[q].scaleSets = cache[q].scaleSets
          /\ cache'[q].pools = cache[q].pools
      BY <1>12, PublishedFields DEF DidPublish, Memory
    <2> QED
      BY <1>2, <1>12, <2>1 DEF DidPublish
  <1>13. CASE DidAsk(q)
    <2>1. cache'[q].first = cache[q].first /\ cache'[q].scaleSets = cache[q].scaleSets
          /\ cache'[q].pools = cache[q].pools
      BY <1>13 DEF DidAsk, Memory, CacheFields
    <2> QED
      BY <1>2, <1>13, <2>1 DEF DidAsk
  <1> QED
    BY <1>3, <1>4, <1>5, <1>6, <1>7, <1>8, <1>9, <1>10, <1>11, <1>12, <1>13 DEF Outcome, Works

\* The groups a process serves, as the core sees them.
Served(list) == {Desc(list[i]) : i \in DOMAIN list}

\* A process whose first load was complete serves what its input asks for: for every
\* name the last spec that has it, and the scale sets discovery finds under other names.
ServesExpected ==
    \A r \in Replica : At(r, "running") /\ cache[r].first => Served(groups[r]) = Expected

ServingInv == CheckedInv /\ \A q \in Replica : Serving(q)

\* What a process serves is in order from the first step on.
LEMMA ServingInvariant == Spec => []ServingInv
  <1>1. Init => ServingInv
    <2> SUFFICES ASSUME Init PROVE ServingInv
      OBVIOUS
    <2>1. \A q \in Replica : Owned(q)
      BY NoList DEF Init, Owned, Early, Kinds, NewCache
    <2>2. \A q \in Replica : Checked(q)
      BY NoList DEF Init, Checked, Early, AgentPoolsNamed
    <2>3. \A q \in Replica : Serving(q)
      BY DEF Init, Serving, NewCache
    <2> QED
      BY <2>1, <2>2, <2>3, MemoryInvInit DEF ServingInv, CheckedInv
  <1>2. ServingInv /\ [Next]_vars => ServingInv'
    <2> SUFFICES ASSUME ServingInv, [Next]_vars PROVE ServingInv'
      OBVIOUS
    <2>1. scenario' = scenario /\ \A q \in Replica : Outcome(q)
      BY StepOutcome DEF ServingInv, CheckedInv, MemoryInv, TypeInv
    <2>2. \A q \in Replica : Owned(q)'
      BY <2>1, OwnedStep DEF ServingInv, CheckedInv, MemoryInv, TypeInv, Shape
    <2>3. \A q \in Replica : Checked(q)'
      BY <2>1, CheckedStep DEF ServingInv, CheckedInv, MemoryInv, TypeInv, Shape
    <2>4. \A q \in Replica : Serving(q)'
      BY <2>1, ServingStep DEF ServingInv, CheckedInv, MemoryInv, TypeInv, Shape
    <2> QED
      BY <2>2, <2>3, <2>4, MemoryInvStep DEF ServingInv, CheckedInv
  <1> QED
    BY <1>1, <1>2, PTL DEF Spec

\* Explicit groups by their specs, the others by what is discovered.
LEMMA ServingServes == ServingInv => ServesExpected
  <1> SUFFICES ASSUME ServingInv, NEW r \in Replica, At(r, "running"), cache[r].first
               PROVE  Served(groups[r]) = Expected
    BY DEF ServesExpected
  <1>1. Checked(r) /\ Serving(r) /\ step[r] = "running"
    BY DEF ServingInv, CheckedInv, At
  <1>2. done[r] = Len(input.specs)
    BY <1>1 DEF Checked, Early
  <1>3. Explicit(groups[r]) = SpecDescs(Len(input.specs)) /\ Implicit(groups[r]) = Extra
    BY <1>1, <1>2 DEF Serving
  <1>4. Served(groups[r]) = Explicit(groups[r]) \cup Implicit(groups[r])
    BY DEF Served, Explicit, Implicit
  <1> QED
    BY <1>3, <1>4 DEF Expected, Extra

\* fetchExplicitNodeGroups and fetchAutoNodeGroups register what flags and tags ask for
\* and nothing else, whichever calls fail and are tried again, and however often the
\* process refreshes.
THEOREM ExpectedServed == Spec => []ServesExpected
  BY ServingInvariant, ServingServes, PTL

\* So an operator who expects what the input asks for gets it, and nothing is expected of
\* an input that is refused, since no process serves it.
THEOREM OperatorsGroupsServed ==
    Spec /\ (Accepts(scenario) => Expected = input.serves) => []ServesTheInput
  <1> DEFINE Agreed == Accepts(scenario) => Expected = input.serves
             All    == TypeInv /\ Agreed
  <1>1. Init /\ Agreed => All
    BY TypeInit
  <1>2. All /\ [Next]_vars => All'
    <2> SUFFICES ASSUME TypeInv, Agreed, [Next]_vars PROVE All'
      OBVIOUS
    <2>1. scenario' = scenario
      BY StepOutcome DEF TypeInv
    <2>2. Accepts(scenario)' <=> Accepts(scenario)
      BY <2>1
    <2>3. input' = input /\ Expected' = Expected
      BY <2>1, InputStays
    <2> QED
      BY <2>2, <2>3, TypeStep
  <1>3. ServingInv /\ Agreed => ServesTheInput
    <2> SUFFICES ASSUME ServingInv, Agreed, NEW r \in Replica, At(r, "running"), cache[r].first
                 PROVE  Served(groups[r]) = input.serves
      BY DEF ServesTheInput, Served, Desc
    <2>1. scenario \in DOMAIN Inputs /\ Owned(r) /\ Checked(r) /\ step[r] = "running"
      BY DEF ServingInv, CheckedInv, MemoryInv, TypeInv, At
    <2>2. Accepts(scenario)
      BY <2>1, CheckedAccepts DEF Owned
    <2> QED
      BY <2>2, ServingServes DEF ServesExpected
  <1> HIDE DEF Agreed, All
  <1>4. All => Agreed
    BY DEF All
  <1>5. Spec /\ Agreed => []Agreed
    BY <1>1, <1>2, <1>4, PTL DEF Spec
  <1>6. Spec /\ Agreed => []ServesTheInput
    BY <1>3, <1>5, ServingInvariant, PTL
  <1> QED
    BY <1>6 DEF Agreed

-----------------------------------------------------------------------------
(* The environment.                                                        *)

\* A variable that names the field of an earlier one is the preferred one of the two.
Ordered(rows) ==
    \A i, j \in DOMAIN rows : i < j /\ rows[i][1] = rows[j][1] =>
        rows[i][2] \notin Preferred /\ rows[j][2] \in Preferred

\* Two tables have no field in common.
Apart(A, B) == \A a \in Range(A), b \in Range(B) : a[1] # b[1]

\* A part of the list of variables.  No variable names the parameters of deployments.
Table(rows) ==
    /\ IsList(rows) /\ Ordered(rows)
    /\ \A row \in Range(rows) : row[1] \in DOMAIN Defaults \ {"DeploymentParameters"}

\* A table after another one.
LEMMA TablesJoined ==
    ASSUME NEW A, NEW B, Table(A), Table(B), Apart(A, B)
    PROVE  Table(A \o B) /\ Range(A \o B) = Range(A) \cup Range(B)
  <1> DEFINE G == Range(A) \cup Range(B)
             n == Len(A)
             m == Len(B)
             T == Join(A, B)
  <1>1. /\ n \in Nat /\ m \in Nat /\ DOMAIN A = 1..n /\ DOMAIN B = 1..m
        /\ A \in Lists(n, G) /\ B \in Lists(m, G)
    BY DEF Table, IsList, Lists, Range
  <1>2. /\ T \in Lists(n + m, G)
        /\ \A k \in 1..n : T[k] = A[k]
        /\ \A k \in 1..(n + m) : k > n => k - n \in 1..m /\ T[k] = B[k - n]
    BY <1>1, JoinElements
  <1>3. /\ n + m \in Nat /\ 1..n \subseteq 1..(n + m)
        /\ \A k \in 1..m : n + k \in 1..(n + m) /\ n + k > n /\ (n + k) - n = k
        /\ \A k \in 1..(n + m) : k \in 1..n \/ k > n
    BY <1>1
  <1>4. \A k \in 1..m : T[n + k] = B[k]
    BY <1>2, <1>3
  <1> HIDE DEF G, n, m, T
  <1>5. IsList(T) /\ DOMAIN T = 1..(n + m)
    BY <1>2, <1>3, ListOf DEF Lists
  <1>6. Range(T) = Range(A) \cup Range(B)
    BY <1>1, <1>2, <1>3, <1>4, <1>5 DEF Range
  <1>7. Ordered(T)
    <2> SUFFICES ASSUME NEW i \in 1..(n + m), NEW j \in 1..(n + m), i < j, T[i][1] = T[j][1]
                 PROVE  T[i][2] \notin Preferred /\ T[j][2] \in Preferred
      BY <1>5 DEF Ordered
    <2>1. CASE i \in 1..n /\ j \in 1..n
      BY <1>1, <1>2, <2>1 DEF Table, Ordered
    <2>2. CASE i > n /\ j > n
      <3>1. i - n \in 1..m /\ j - n \in 1..m /\ i - n < j - n
        BY <1>1, <1>2, <2>2
      <3> QED
        BY <1>1, <1>2, <2>2, <3>1 DEF Table, Ordered
    <2>3. CASE i \in 1..n /\ j > n
      <3>1. T[i] \in Range(A) /\ T[j] \in Range(B)
        BY <1>1, <1>2, <2>3 DEF Range
      <3> QED
        BY <3>1 DEF Apart
    <2> QED
      BY <1>1, <1>3, <2>1, <2>2, <2>3
  <1>8. Table(T)
    BY <1>5, <1>6, <1>7 DEF Table
  <1> QED
    BY <1>6, <1>8 DEF T, Join

\* The tables of azure_config.go are in this order.
LEMMA TheTables ==
    /\ Table(StringVars) /\ Table(IdentityVars) /\ Table(CacheVars)
    /\ Table(FeatureVars) /\ Table(BackoffVars) /\ Table(LimitVars)
  <1>1. Table(StringVars)
    <2>1. DOMAIN StringVars = 1..20
      BY DEF StringVars
    <2>2. Ordered(StringVars)
      BY <2>1, SMTT(60) DEF StringVars, Ordered, Preferred
    <2>3. StringVars \in Seq(Range(StringVars))
      BY <2>1 DEF StringVars, Range
    <2>4. \A row \in Range(StringVars) : row[1] \in DOMAIN Defaults \ {"DeploymentParameters"}
      BY <2>1 DEF StringVars, Range, Defaults
    <2> QED
      BY <2>2, <2>3, <2>4 DEF Table, IsList
  <1>2. Table(IdentityVars)
    <2>1. DOMAIN IdentityVars = 1..4
      BY DEF IdentityVars
    <2>2. Ordered(IdentityVars)
      BY <2>1, SMTT(60) DEF IdentityVars, Ordered, Preferred
    <2>3. IdentityVars \in Seq(Range(IdentityVars))
      BY <2>1 DEF IdentityVars, Range
    <2>4. \A row \in Range(IdentityVars) : row[1] \in DOMAIN Defaults \ {"DeploymentParameters"}
      BY <2>1 DEF IdentityVars, Range, Defaults
    <2> QED
      BY <2>2, <2>3, <2>4 DEF Table, IsList
  <1>3. Table(CacheVars)
    <2>1. DOMAIN CacheVars = 1..7
      BY DEF CacheVars
    <2>2. Ordered(CacheVars)
      BY <2>1, SMTT(60) DEF CacheVars, Ordered, Preferred
    <2>3. CacheVars \in Seq(Range(CacheVars))
      BY <2>1 DEF CacheVars, Range
    <2>4. \A row \in Range(CacheVars) : row[1] \in DOMAIN Defaults \ {"DeploymentParameters"}
      BY <2>1 DEF CacheVars, Range, Defaults
    <2> QED
      BY <2>2, <2>3, <2>4 DEF Table, IsList
  <1>4. Table(FeatureVars)
    <2>1. DOMAIN FeatureVars = 1..9
      BY DEF FeatureVars
    <2>2. Ordered(FeatureVars)
      BY <2>1, SMTT(60) DEF FeatureVars, Ordered, Preferred
    <2>3. FeatureVars \in Seq(Range(FeatureVars))
      BY <2>1 DEF FeatureVars, Range
    <2>4. \A row \in Range(FeatureVars) : row[1] \in DOMAIN Defaults \ {"DeploymentParameters"}
      BY <2>1 DEF FeatureVars, Range, Defaults
    <2> QED
      BY <2>2, <2>3, <2>4 DEF Table, IsList
  <1>5. Table(BackoffVars)
    <2>1. DOMAIN BackoffVars = 1..4
      BY DEF BackoffVars
    <2>2. Ordered(BackoffVars)
      BY <2>1, SMTT(60) DEF BackoffVars, Ordered, Preferred
    <2>3. BackoffVars \in Seq(Range(BackoffVars))
      BY <2>1 DEF BackoffVars, Range
    <2>4. \A row \in Range(BackoffVars) : row[1] \in DOMAIN Defaults \ {"DeploymentParameters"}
      BY <2>1 DEF BackoffVars, Range, Defaults
    <2> QED
      BY <2>2, <2>3, <2>4 DEF Table, IsList
  <1>6. Table(LimitVars)
    <2>1. DOMAIN LimitVars = 1..7
      BY DEF LimitVars
    <2>2. Ordered(LimitVars)
      BY <2>1, SMTT(60) DEF LimitVars, Ordered, Preferred
    <2>3. LimitVars \in Seq(Range(LimitVars))
      BY <2>1 DEF LimitVars, Range
    <2>4. \A row \in Range(LimitVars) : row[1] \in DOMAIN Defaults \ {"DeploymentParameters"}
      BY <2>1 DEF LimitVars, Range, Defaults
    <2> QED
      BY <2>2, <2>3, <2>4 DEF Table, IsList
  <1> QED
    BY <1>1, <1>2, <1>3, <1>4, <1>5, <1>6

\* No field is in two of them.
LEMMA TablesApart ==
    /\ Apart(StringVars, IdentityVars) /\ Apart(StringVars, CacheVars)
    /\ Apart(StringVars, FeatureVars) /\ Apart(StringVars, BackoffVars)
    /\ Apart(StringVars, LimitVars)
    /\ Apart(IdentityVars, CacheVars) /\ Apart(IdentityVars, FeatureVars)
    /\ Apart(IdentityVars, BackoffVars) /\ Apart(IdentityVars, LimitVars)
    /\ Apart(CacheVars, FeatureVars) /\ Apart(CacheVars, BackoffVars)
    /\ Apart(CacheVars, LimitVars)
    /\ Apart(FeatureVars, BackoffVars) /\ Apart(FeatureVars, LimitVars)
    /\ Apart(BackoffVars, LimitVars)
  <1>1. Apart(StringVars, IdentityVars) /\ Apart(StringVars, BackoffVars)
    BY DEF Apart, Range, StringVars, IdentityVars, BackoffVars
  <1>2. Apart(StringVars, CacheVars)
    BY DEF Apart, Range, StringVars, CacheVars
  <1>3. Apart(StringVars, FeatureVars)
    BY DEF Apart, Range, StringVars, FeatureVars
  <1>4. Apart(StringVars, LimitVars)
    BY DEF Apart, Range, StringVars, LimitVars
  <1>5. /\ Apart(IdentityVars, CacheVars) /\ Apart(IdentityVars, FeatureVars)
        /\ Apart(IdentityVars, BackoffVars) /\ Apart(IdentityVars, LimitVars)
    BY DEF Apart, Range, IdentityVars, CacheVars, FeatureVars, BackoffVars, LimitVars
  <1>6. /\ Apart(CacheVars, FeatureVars) /\ Apart(CacheVars, BackoffVars)
        /\ Apart(CacheVars, LimitVars)
    BY DEF Apart, Range, CacheVars, FeatureVars, BackoffVars, LimitVars
  <1>7. /\ Apart(FeatureVars, BackoffVars) /\ Apart(FeatureVars, LimitVars)
        /\ Apart(BackoffVars, LimitVars)
    BY DEF Apart, Range, FeatureVars, BackoffVars, LimitVars
  <1> QED
    BY <1>1, <1>2, <1>3, <1>4, <1>5, <1>6, <1>7

\* The variables that are looked at for a field, and the ones of them that are given.
VarsOf(rows, f) == {rows[i][2] : i \in {j \in DOMAIN rows : rows[j][1] = f}}
GivenVars(rows, env, f) == {v \in VarsOf(rows, f) : Given(env, v)}

\* The one that wins.
Wins(v, set) == v \in set /\ (set \cap Preferred # {} => v \in Preferred)

\* The last variable that is given for a field is the preferred one.
LEMMA LastGiven ==
    ASSUME NEW rows, Table(rows), NEW env, NEW cfg, NEW f \in DOMAIN cfg
    PROVE  /\ GivenVars(rows, env, f) = {} => AssignAll(env, rows, cfg)[f] = cfg[f]
           /\ \A v : Wins(v, GivenVars(rows, env, f)) =>
                 AssignAll(env, rows, cfg)[f] = env[v].value
  <1> DEFINE given == {i \in DOMAIN rows : rows[i][1] = f /\ Given(env, rows[i][2])}
             set   == GivenVars(rows, env, f)
             last  == CHOOSE i \in given : \A j \in given : j <= i
  <1>1. AssignAll(env, rows, cfg)[f] = IF given = {} THEN cfg[f] ELSE env[rows[last][2]].value
    BY DEF AssignAll
  <1>2. set = {rows[i][2] : i \in given}
    BY DEF GivenVars, VarsOf
  <1>3. \A i \in given : i \in Int
    BY DEF Table, IsList
  <1>4. \A i, j \in given : i < j => rows[i][2] \notin Preferred /\ rows[j][2] \in Preferred
    BY DEF Table, Ordered
  <1> HIDE DEF given, set
  <1>5. ASSUME given # {} PROVE \E i \in given : \A j \in given : j <= i
    <2>1. PICK i \in given : TRUE
      BY <1>5
    <2>2. CASE \A j \in given : j <= i
      BY <2>2
    <2>3. CASE \E j \in given : j > i
      <3>1. PICK j \in given : j > i
        BY <2>3
      <3>2. \A k \in given : k <= j
        BY <1>3, <1>4, <3>1
      <3> QED
        BY <3>2
    <2> QED
      BY <1>3, <2>2, <2>3
  <1>6. ASSUME given # {} PROVE last \in given /\ \A j \in given : j <= last
    BY <1>5, <1>6
  <1> HIDE DEF last
  <1>7. ASSUME NEW v, Wins(v, set) PROVE v = rows[last][2]
    <2>1. PICK i \in given : v = rows[i][2]
      BY <1>2, <1>7 DEF Wins
    <2>2. last \in given /\ i <= last
      BY <1>6, <2>1
    <2>3. CASE i < last
      <3>1. rows[i][2] \notin Preferred /\ rows[last][2] \in Preferred
        BY <1>4, <2>2, <2>3
      <3> QED
        BY <1>2, <1>7, <2>1, <2>2, <3>1 DEF Wins
    <2> QED
      BY <1>3, <2>1, <2>2, <2>3
  <1>8. (set = {} => given = {}) /\ \A v : Wins(v, set) => given # {}
    BY <1>2 DEF Wins
  <1> QED
    BY <1>1, <1>7, <1>8 DEF set

\* All variables but those of the back-off.
ReadAlways == StringVars \o IdentityVars \o CacheVars \o FeatureVars \o LimitVars

\* Whether the back-off is wanted or not, the other fields have the same variables.
LEMMA RowsReadTable ==
    ASSUME NEW env, NEW cfg
    PROVE  /\ Table(RowsRead(env, cfg))
           /\ \A row \in Range(ReadAlways) : row[1] \in DOMAIN Defaults \ {"DeploymentParameters"}
           /\ \A row \in Range(ReadAlways) :
                 VarsOf(RowsRead(env, cfg), row[1]) = VarsOf(ReadAlways, row[1])
  <1> DEFINE two   == StringVars \o IdentityVars
             three == two \o CacheVars
             first == three \o FeatureVars
             more  == first \o BackoffVars
             all   == more \o LimitVars
             least == first \o LimitVars
  <1>1. Table(two) /\ Range(two) = Range(StringVars) \cup Range(IdentityVars)
    BY TheTables, TablesApart, TablesJoined
  <1> HIDE DEF two
  <1>2. Table(three) /\ Range(three) = Range(two) \cup Range(CacheVars)
    <2>1. Apart(two, CacheVars)
      BY <1>1, TablesApart DEF Apart
    <2> QED
      BY <1>1, <2>1, TheTables, TablesJoined
  <1> HIDE DEF three
  <1>3. Table(first) /\ Range(first) = Range(three) \cup Range(FeatureVars)
    <2>1. Apart(three, FeatureVars)
      BY <1>1, <1>2, TablesApart DEF Apart
    <2> QED
      BY <1>2, <2>1, TheTables, TablesJoined
  <1> HIDE DEF first
  <1>4. Apart(first, BackoffVars) /\ Apart(first, LimitVars)
    BY <1>1, <1>2, <1>3, TablesApart DEF Apart
  <1>5. Table(more) /\ Range(more) = Range(first) \cup Range(BackoffVars)
    BY <1>3, <1>4, TheTables, TablesJoined
  <1>6. Table(least) /\ Range(least) = Range(first) \cup Range(LimitVars)
    BY <1>3, <1>4, TheTables, TablesJoined
  <1> HIDE DEF more
  <1>7. Table(all) /\ Range(all) = Range(more) \cup Range(LimitVars)
    <2>1. Apart(more, LimitVars)
      BY <1>4, <1>5, TablesApart DEF Apart
    <2> QED
      BY <1>5, <2>1, TheTables, TablesJoined
  <1> HIDE DEF all, least
  <1>8. RowsRead(env, cfg) = all \/ RowsRead(env, cfg) = least
    BY DEF RowsRead, all, more, least, first, three, two
  <1>9. ReadAlways = least
    BY DEF ReadAlways, least, first, three, two
  <1>10. Apart(least, BackoffVars)
    BY <1>4, <1>6, TablesApart DEF Apart
  <1>11. \A T, f : VarsOf(T, f) = {x[2] : x \in {y \in Range(T) : y[1] = f}}
    BY DEF VarsOf, Range
  <1>12. ASSUME NEW row \in Range(least) PROVE VarsOf(all, row[1]) = VarsOf(least, row[1])
    <2>1. {x \in Range(all) : x[1] = row[1]} = {x \in Range(least) : x[1] = row[1]}
      BY <1>5, <1>6, <1>7, <1>10 DEF Apart
    <2> QED
      BY <1>11, <2>1
  <1> QED
    BY <1>6, <1>7, <1>8, <1>9, <1>12 DEF Table

\* The legacy names of a field that a file uses.
OldNames(file, f) == {l \in DOMAIN file \cap DOMAIN LegacyField : LegacyField[l] = f}

\* A legacy name wins over the field, and the file over the default.
LEMMA FileWins ==
    ASSUME NEW file, NEW f \in DOMAIN Defaults
    PROVE  LET static == WithLegacy(file, FromFile(file))
           IN  /\ DOMAIN static = DOMAIN Defaults
               /\ \A l \in OldNames(file, f) : static[f] = file[l]
               /\ OldNames(file, f) = {} =>
                     static[f] = IF f \in DOMAIN file THEN file[f] ELSE Defaults[f]
  <1> DEFINE read   == FromFile(file)
             static == WithLegacy(file, read)
             old(l) == l \in DOMAIN file \cap DOMAIN LegacyField /\ LegacyField[l] = f
  <1>1. DOMAIN read = DOMAIN Defaults
        /\ read[f] = IF f \in DOMAIN file THEN file[f] ELSE Defaults[f]
    BY DEF FromFile
  <1>2. \A l, m \in DOMAIN LegacyField : LegacyField[l] = LegacyField[m] => l = m
    BY DEF LegacyField
  <1> HIDE DEF read
  <1>3. DOMAIN static = DOMAIN Defaults
        /\ static[f] = IF \E l \in DOMAIN file \cap DOMAIN LegacyField : LegacyField[l] = f
                       THEN file[CHOOSE l \in DOMAIN file \cap DOMAIN LegacyField :
                                    LegacyField[l] = f]
                       ELSE read[f]
    BY <1>1 DEF WithLegacy
  <1>4. ASSUME NEW l \in OldNames(file, f)
        PROVE  l = CHOOSE m \in DOMAIN file \cap DOMAIN LegacyField : LegacyField[m] = f
    BY <1>2 DEF OldNames
  <1> HIDE DEF static
  <1>5. \A l \in OldNames(file, f) : static[f] = file[l]
    BY <1>3, <1>4 DEF OldNames
  <1>6. OldNames(file, f) = {} => static[f] = read[f]
    BY <1>3 DEF OldNames
  <1> QED
    BY <1>1, <1>3, <1>5, <1>6 DEF static, read

\* What is completed after the environment has been read.
Completed == {"VMType", "SubscriptionID", "MaxDeploymentsCount", "DeploymentParameters"}

\* The other fields stay as they are.
LEMMA OthersStay ==
    ASSUME NEW in, NEW cfg, NEW f \in DOMAIN cfg \ Completed
    PROVE  WithNonstatic(in, cfg)[f] = cfg[f]
  BY DEF WithNonstatic, Completed

\* What BuildAzureConfig makes of a field that it reads and does not complete.
LEMMA FieldValue ==
    ASSUME scenario \in DOMAIN Inputs, NEW row \in Range(ReadAlways), row[1] \notin Completed
    PROVE  LET f     == row[1]
               value == Configured[scenario].cfg[f]
               set   == GivenVars(ReadAlways, input.env, f)
               old   == OldNames(input.file, f)
           IN  /\ \A v : Wins(v, set) => value = input.env[v].value
               /\ set = {} => \A l \in old : value = input.file[l]
               /\ set = {} /\ old = {} =>
                     value = IF f \in DOMAIN input.file THEN input.file[f] ELSE Defaults[f]
  <1> DEFINE f      == row[1]
             static == WithLegacy(input.file, FromFile(input.file))
             rows   == RowsRead(input.env, static)
             read   == AssignAll(input.env, rows, static)
             set    == GivenVars(ReadAlways, input.env, f)
  <1>1. Table(rows) /\ f \in DOMAIN Defaults /\ VarsOf(rows, f) = VarsOf(ReadAlways, f)
    BY RowsReadTable
  <1>2. set = GivenVars(rows, input.env, f)
    BY <1>1 DEF GivenVars
  <1>3. Configured[scenario].cfg = WithNonstatic(input, read)
    BY DEF Configured, BuildAzureConfig, input
  <1>4. /\ DOMAIN static = DOMAIN Defaults
        /\ \A l \in OldNames(input.file, f) : static[f] = input.file[l]
        /\ OldNames(input.file, f) = {} =>
              static[f] = IF f \in DOMAIN input.file THEN input.file[f] ELSE Defaults[f]
    BY <1>1, FileWins
  <1>5. DOMAIN read = DOMAIN static
    BY DEF AssignAll
  <1> HIDE DEF static
  <1>6. /\ GivenVars(rows, input.env, f) = {} => read[f] = static[f]
        /\ \A v : Wins(v, GivenVars(rows, input.env, f)) => read[f] = input.env[v].value
    BY <1>1, <1>4, LastGiven
  <1> HIDE DEF read
  <1>7. WithNonstatic(input, read)[f] = read[f]
    BY <1>1, <1>4, <1>5, OthersStay
  <1> HIDE DEF rows, set, f
  <1>8. Configured[scenario].cfg[f] = read[f]
    BY <1>3, <1>7
  <1>9. /\ set = {} => read[f] = static[f]
        /\ \A v : Wins(v, set) => read[f] = input.env[v].value
    BY <1>2, <1>6
  <1> QED
    BY <1>4, <1>8, <1>9 DEF f, set

\* A process is configured with what the variables say, then the legacy names of the
\* file, the file and the defaults: assigning the variables one after the other, whatever
\* is read for the back-off, comes to that.
THEOREM TheEnvironmentWins == Spec => []EnvironmentWins
  <1>1. CheckedInv => EnvironmentWins
    <2> DEFINE Set(f)   == GivenVars(ReadAlways, input.env, f)
               Old(f)   == OldNames(input.file, f)
               Value(f) == CASE Set(f) # {} ->
                                   input.env[CHOOSE v \in Set(f) :
                                                Set(f) \cap Preferred # {} => v \in Preferred].value
                             [] Set(f) = {} /\ Old(f) # {} ->
                                   input.file[CHOOSE l \in Old(f) : TRUE]
                             [] Set(f) = {} /\ Old(f) = {} /\ f \in DOMAIN input.file ->
                                   input.file[f]
                             [] OTHER -> Defaults[f]
    <2> SUFFICES ASSUME CheckedInv, NEW r \in Replica, At(r, "client")
                 PROVE  \A f \in {ReadAlways[i][1] : i \in DOMAIN ReadAlways}
                                 \ {"VMType", "SubscriptionID", "MaxDeploymentsCount"} :
                            config[r][f] = Value(f)
      BY DEF EnvironmentWins, ReadAlways, GivenVars, VarsOf, OldNames
    <2> SUFFICES ASSUME NEW i \in DOMAIN ReadAlways,
                        ReadAlways[i][1] \notin {"VMType", "SubscriptionID", "MaxDeploymentsCount"}
                 PROVE  config[r][ReadAlways[i][1]] = Value(ReadAlways[i][1])
      <3> HIDE DEF Value
      <3> QED
        OBVIOUS
    <2> DEFINE row == ReadAlways[i]
               f   == row[1]
               set == Set(f)
               old == Old(f)
    <2>1. config[r] = Configured[scenario].cfg /\ scenario \in DOMAIN Inputs
      BY DEF CheckedInv, MemoryInv, TypeInv, Checked, At
    <2>2. row \in Range(ReadAlways)
      BY DEF Range
    <2>3. f \notin Completed
      BY <2>2, RowsReadTable DEF Completed
    <2>4. /\ \A v : Wins(v, set) => config[r][f] = input.env[v].value
          /\ set = {} => \A l \in old : config[r][f] = input.file[l]
          /\ set = {} /\ old = {} =>
                config[r][f] = IF f \in DOMAIN input.file THEN input.file[f] ELSE Defaults[f]
      BY <2>1, <2>2, <2>3, FieldValue
    <2> HIDE DEF row, f, set, old
    <2>5. CASE set # {}
      <3> DEFINE v == CHOOSE v \in set : set \cap Preferred # {} => v \in Preferred
      <3>1. \E w \in set : set \cap Preferred # {} => w \in Preferred
        BY <2>5
      <3>2. v \in set /\ (set \cap Preferred # {} => v \in Preferred)
        BY <3>1
      <3>3. config[r][f] = input.env[v].value
        BY <2>4, <3>2 DEF Wins
      <3> QED
        BY <2>5, <3>3 DEF row, f, set, old
    <2>6. CASE set = {} /\ old # {}
      <3>1. config[r][f] = input.file[CHOOSE l \in old : TRUE]
        BY <2>4, <2>6
      <3> QED
        BY <2>6, <3>1 DEF row, f, set, old
    <2>7. CASE set = {} /\ old = {}
      BY <2>4, <2>7 DEF row, f, set, old
    <2> QED
      BY <2>5, <2>6, <2>7
  <1> QED
    BY <1>1, CheckedInvariant, PTL

-----------------------------------------------------------------------------
(* What agent pools redeploy.                                              *)

\* Where a registered group comes from: it was registered before, is the group of a
\* spec of --nodes, or was discovered.
LEMMA GroupsOrigin ==
    ASSUME scenario \in DOMAIN Inputs, NEW q \in Replica, Memory(q), Outcome(q),
           NEW k \in DOMAIN groups'[q]
    PROVE  \/ \E i \in DOMAIN groups[q] : groups'[q][k] = groups[q][i]
           \/ groups'[q][k] = buildNodeGroupFromSpec(NextSpec(q), q)
           \/ FoundGroup(groups'[q][k], q)
  <1>1. CASE groups'[q] = groups[q]
    BY <1>1
  <1>2. CASE Fresh(q)'
    BY <1>2, NoList DEF Fresh
  <1>3. CASE DidSpec(q)
    <2> DEFINE built == buildNodeGroupFromSpec(NextSpec(q), q)
    <2> HIDE DEF built
    <2>1. groups'[q] = Register(groups[q], built) /\ IsList(groups[q])
      BY <1>3 DEF DidSpec, Memory, built
    <2>2. \A j \in DOMAIN Register(groups[q], built) :
             \/ j \in DOMAIN groups[q] /\ Register(groups[q], built)[j] = groups[q][j]
             \/ Register(groups[q], built)[j] = built
      BY <2>1, RegisterElements
    <2> QED
      BY <2>1, <2>2 DEF built
  <1>4. CASE DidDiscover(q)
    BY <1>4, DiscoverElements
  <1> QED
    BY <1>1, <1>2, <1>3, <1>4
       DEF Outcome, Works, Stays, DidConfig, DidClient, DidLoad, DidSKUs, DidSpecs, DidFetch,
           DidFail, DidPublish, DidRefresh, DidAsk

\* An agent pool redeploys what initialize made of the exported template.
Redeploys(list) ==
    \A i \in DOMAIN list :
        list[i].kind = "AgentPool" => list[i].template = Normalised[scenario].template

TemplatesInv == MemoryInv /\ \A q \in Replica : Redeploys(groups[q])

\* The template is normalised before the group is registered and never written again.
LEMMA RedeploysStep ==
    ASSUME scenario \in DOMAIN Inputs, scenario' = scenario,
           NEW q \in Replica, Memory(q), Redeploys(groups[q]), Outcome(q)
    PROVE  Redeploys(groups[q])'
  <1> SUFFICES ASSUME NEW k \in DOMAIN groups'[q], groups'[q][k].kind = "AgentPool"
               PROVE  groups'[q][k].template = Normalised[scenario].template
    BY DEF Redeploys, Normalised
  <1>1. CASE \E i \in DOMAIN groups[q] : groups'[q][k] = groups[q][i]
    BY <1>1 DEF Redeploys
  <1>2. CASE groups'[q][k] = buildNodeGroupFromSpec(NextSpec(q), q)
    BY <1>2 DEF buildNodeGroupFromSpec
  <1>3. CASE FoundGroup(groups'[q][k], q)
    BY <1>3 DEF FoundGroup
  <1> QED
    BY <1>1, <1>2, <1>3, GroupsOrigin

\* Whatever the exported template holds, an agent pool redeploys just what the reference
\* keeps of it: the walk of normalizeForK8sVMASScalingUp over places that its own
\* removals shift loses none that it should keep and keeps none that it should lose.
THEOREM TemplatesNormalised == Spec => []TemplateNormalised
  <1>1. Init => TemplatesInv
    BY MemoryInvInit, NoList DEF Init, TemplatesInv, Redeploys
  <1>2. TemplatesInv /\ [Next]_vars => TemplatesInv'
    <2> SUFFICES ASSUME TemplatesInv, [Next]_vars PROVE TemplatesInv'
      OBVIOUS
    <2>1. scenario' = scenario /\ \A q \in Replica : Outcome(q)
      BY StepOutcome DEF TemplatesInv, MemoryInv, TypeInv
    <2>2. \A q \in Replica : Redeploys(groups[q])'
      BY <2>1, RedeploysStep DEF TemplatesInv, MemoryInv, TypeInv
    <2> QED
      BY <2>2, MemoryInvStep DEF TemplatesInv
  <1>3. TemplatesInv => TemplateNormalised
    <2> SUFFICES ASSUME TemplatesInv, NEW r \in Replica, NEW i \in DOMAIN groups[r],
                        groups[r][i].kind = "AgentPool",
                        \A j \in DOMAIN input.template : WellFormed(input.template[j])
                 PROVE  groups[r][i].template = Redeployable(input.template)
      BY DEF TemplateNormalised
    <2>1. scenario \in DOMAIN Inputs
      BY DEF TemplatesInv, MemoryInv, TypeInv
    <2>2. input.template \in Seq(Resource)
      BY <2>1, InputsAssumption DEF input
    <2>3. normalizeForK8sVMASScalingUp(input.template).template = Redeployable(input.template)
      BY <2>2, NormalisationIsReference
    <2>4. Normalised[scenario].template = normalizeForK8sVMASScalingUp(input.template).template
      BY <2>1 DEF Normalised, input
    <2> QED
      BY <2>3, <2>4 DEF TemplatesInv, Redeploys
  <1> QED
    BY <1>1, <1>2, <1>3, PTL DEF Spec

-----------------------------------------------------------------------------
(* The nodes that are predicted.                                           *)

\* Labels are predicted, by the configuration that is read.
Predicting == Configured[scenario].cfg.EnableLabelPredictionsOnTemplate

\* The list of SKUs is that of the API or none, and neither it nor the flag of the
\* predictions changes once it is read: the groups have the flag of the configuration.
Predicts(q) ==
    /\ cache[q].api \in {{}, input.api}
    /\ step[q] # "config" => config[q].EnableLabelPredictionsOnTemplate = Predicting
    /\ \A i \in DOMAIN groups[q] :
          /\ groups[q][i].predict = Predicting
          /\ groups[q][i].kind \in {"ScaleSet", "VMPool", "AgentPool"}

\* The list of SKUs after a step.
LEMMA ListStep ==
    ASSUME NEW q \in Replica, Memory(q), Works(q)
    PROVE  \/ cache'[q].api = cache[q].api \/ cache'[q].api = {}
           \/ step[q] = "skus" /\ cache'[q].api = input.api
  <1>1. CASE DidConfig(q) \/ DidClient(q) \/ DidSpec(q) \/ DidSpecs(q) \/ DidRefresh(q)
    BY <1>1 DEF DidConfig, DidClient, DidSpec, DidSpecs, DidRefresh
  <1>2. CASE DidLoad(q)
    <2>1. PICK failing \in Failing(q) :
             cache'[q] = LET c == fetchAzureResources(NewCache, config[q].EnableVMsAgentPool,
                                                      failing)
                         IN  IF failing = "nothing"
                             THEN [Published(<<>>, c) EXCEPT !.first = TRUE] ELSE c
      BY <1>2 DEF DidLoad
    <2> DEFINE c == fetchAzureResources(NewCache, config[q].EnableVMsAgentPool, failing)
               p == Published(<<>>, c)
    <2>2. DOMAIN c = CacheFields /\ c.api = {}
      <3>1. NewCache.api = {}
        BY DEF NewCache
      <3> QED
        BY <3>1, NewCacheFields, FetchedFields
    <2> HIDE DEF c
    <2>3. DOMAIN p = CacheFields /\ p.api = {}
      BY <2>2, PublishedFields
    <2> HIDE DEF p
    <2>4. cache'[q] = IF failing = "nothing" THEN [p EXCEPT !.first = TRUE] ELSE c
      BY <2>1 DEF c, p
    <2> QED
      BY <2>2, <2>3, <2>4 DEF CacheFields
  <1>3. CASE DidSKUs(q)
    BY <1>3 DEF DidSKUs, Memory, CacheFields
  <1>4. CASE DidDiscover(q) \/ DidAsk(q)
    BY <1>4 DEF DidDiscover, DidAsk, Memory, CacheFields
  <1>5. CASE DidFetch(q) \/ DidFail(q)
    BY <1>5, FetchedFields DEF DidFetch, DidFail, Memory
  <1>6. CASE DidPublish(q)
    BY <1>6, PublishedFields DEF DidPublish, Memory
  <1> QED
    BY <1>1, <1>2, <1>3, <1>4, <1>5, <1>6 DEF Works

\* The flag of the predictions after a step.
LEMMA PredictionStep ==
    ASSUME NEW q \in Replica, Memory(q), Works(q), Predicts(q)
    PROVE  /\ step'[q] # "config"
           /\ config'[q].EnableLabelPredictionsOnTemplate = Predicting
           /\ config'[q] = config[q] \/ groups'[q] = <<>>
  <1>1. CASE DidConfig(q)
    BY <1>1, NoList DEF DidConfig, Predicting, Memory, Early
  <1>2. CASE DidSKUs(q)
    <2>1. PICK skus : config'[q] = WithoutDynamicList(config[q], skus)
      BY <1>2 DEF DidSKUs
    <2>2. config'[q].EnableLabelPredictionsOnTemplate
          = config[q].EnableLabelPredictionsOnTemplate
      BY <2>1, WithoutDynamicFields DEF Memory
    <2>3. step[q] = "skus" /\ step'[q] = "groups" /\ groups'[q] = groups[q]
      BY <1>2 DEF DidSKUs
    <2> QED
      BY <2>2, <2>3 DEF Predicts, Memory, Early
  <1>3. CASE DidClient(q) \/ DidLoad(q) \/ DidSpec(q) \/ DidSpecs(q) \/ DidRefresh(q)
             \/ DidDiscover(q) \/ DidFetch(q) \/ DidFail(q) \/ DidPublish(q) \/ DidAsk(q)
    BY <1>3 DEF DidClient, DidLoad, DidSpec, DidSpecs, DidRefresh, DidDiscover, DidFetch,
                DidFail, DidPublish, DidAsk, Predicts
  <1> QED
    BY <1>1, <1>2, <1>3 DEF Works

\* No step disturbs what nodes are predicted from.
LEMMA PredictsStep ==
    ASSUME scenario \in DOMAIN Inputs, scenario' = scenario,
           NEW q \in Replica, Memory(q), Predicts(q), Outcome(q)
    PROVE  Predicts(q)'
  <1>1. input' = input /\ Predicting' = Predicting
    BY DEF input, Predicting, Configured
  <1>2. CASE Stays(q)
    BY <1>1, <1>2 DEF Stays, Predicts
  <1>3. CASE Fresh(q)'
    <2>1. cache'[q].api = {} /\ step'[q] = "config" /\ groups'[q] = <<>>
      BY <1>3 DEF Fresh, NewCache
    <2> QED
      BY <2>1, NoList DEF Predicts
  <1>4. CASE Works(q)
    <2>1. cache'[q].api \in {{}, input.api}
      BY <1>4, ListStep DEF Predicts
    <2>2. config'[q].EnableLabelPredictionsOnTemplate = Predicting
      BY <1>4, PredictionStep
    <2>3. ASSUME NEW k \in DOMAIN groups'[q]
          PROVE  /\ groups'[q][k].predict = Predicting
                 /\ groups'[q][k].kind \in {"ScaleSet", "VMPool", "AgentPool"}
      <3>0. config'[q] = config[q]
        BY <1>4, <2>3, PredictionStep, NoList
      <3>1. CASE \E i \in DOMAIN groups[q] : groups'[q][k] = groups[q][i]
        BY <3>1 DEF Predicts
      <3>2. CASE groups'[q][k] = buildNodeGroupFromSpec(NextSpec(q), q)
        BY <2>2, <3>0, <3>2, BuiltGroup DEF KindOf
      <3>3. CASE FoundGroup(groups'[q][k], q)
        BY <2>2, <3>0, <3>3 DEF FoundGroup
      <3> QED
        BY <3>1, <3>2, <3>3, GroupsOrigin
    <2> QED
      BY <1>1, <2>1, <2>2, <2>3 DEF Predicts
  <1> QED
    BY <1>2, <1>3, <1>4 DEF Outcome

\* What a node that is answered was built from: a scale set in Azure and the list of SKUs,
\* where it was there, or a VMs pool.
Predicted(node, group) ==
    \/ /\ group.kind = "ScaleSet"
       /\ \E vmss \in input.scaleSets, api \in {{}, input.api} :
             /\ Id(vmss.name, <<>>) = group.id
             /\ group.predict = Predicting
             /\ group.dynamic => api = input.api
             /\ node \in buildNodeFromTemplate(buildNodeTemplateFromVMSS(vmss), group.dynamic,
                                               group.predict, api)
    \/ /\ group.kind = "VMPool"
       /\ \E pool \in input.pools : \E location, dynamic, predict, api :
             node \in buildNodeFromTemplate(
                         buildNodeTemplateFromVMPool(pool, location, group.id.sku),
                         dynamic, predict, api)

\* TemplateNodeInfo builds its node so.
LEMMA AskTemplateAnswers ==
    ASSUME NEW r \in Replica, Memory(r), Depends(r), Predicts(r), AskTemplate(r)
    PROVE  answer'.query = "template" /\ Predicted(answer'.node, answer'.group)
  <1>1. PICK i \in DOMAIN groups[r] : \E node \in TemplateNodeInfo(groups[r][i], r) :
           answer' = [query |-> "template", group |-> groups[r][i], node |-> node]
    BY DEF AskTemplate
  <1> DEFINE group == groups[r][i]
  <1>2. PICK node \in TemplateNodeInfo(group, r) :
           answer' = [query |-> "template", group |-> group, node |-> node]
    BY <1>1
  <1>3. answer'.query = "template" /\ answer'.group = group /\ answer'.node = node
    BY <1>2
  <1>4. step[r] = "running"
    BY DEF AskTemplate, At
  <1>5. /\ group.predict = Predicting
        /\ group.kind \in {"ScaleSet", "VMPool", "AgentPool"}
        /\ group.dynamic => cache[r].api # {}
    BY <1>4 DEF Predicts, Depends, Early
  <1>6. cache[r].api \in {{}, input.api} /\ (group.dynamic => cache[r].api = input.api)
    BY <1>5 DEF Predicts
  <1> HIDE DEF group
  <1>7. CASE group.kind = "ScaleSet"
    <2>1. node \in UNION {buildNodeFromTemplate(buildNodeTemplateFromVMSS(vmss), group.dynamic,
                                                group.predict, cache[r].api) :
                             vmss \in {v \in cache[r].scaleSets : Id(v.name, <<>>) = group.id}}
      BY <1>7 DEF TemplateNodeInfo
    <2>2. PICK vmss \in cache[r].scaleSets :
             /\ Id(vmss.name, <<>>) = group.id
             /\ node \in buildNodeFromTemplate(buildNodeTemplateFromVMSS(vmss), group.dynamic,
                                               group.predict, cache[r].api)
      BY <2>1
    <2>3. vmss \in input.scaleSets
      BY DEF Memory
    <2> QED
      BY <1>3, <1>5, <1>6, <1>7, <2>2, <2>3 DEF Predicted
  <1>8. CASE group.kind = "VMPool"
    <2>1. PICK pool \in cache[r].pools : \E predict :
             node \in buildNodeFromTemplate(
                         buildNodeTemplateFromVMPool(pool, config[r].Location, group.id.sku),
                         config[r].EnableDynamicInstanceList, predict, cache[r].api)
      BY <1>8 DEF TemplateNodeInfo
    <2>2. pool \in input.pools
      BY DEF Memory
    <2> QED
      BY <1>3, <1>8, <2>1, <2>2 DEF Predicted
  <1>9. CASE group.kind = "AgentPool"
    BY <1>9 DEF TemplateNodeInfo
  <1> QED
    BY <1>3, <1>5, <1>7, <1>8, <1>9

\* Every node that is answered was built so.
AnsweredNode == answer.query = "template" => Predicted(answer.node, answer.group)

NodesInv == DependsInv /\ AnsweredNode /\ \A q \in Replica : Predicts(q)

\* In every reachable state.
LEMMA NodesInvariant == Spec => []NodesInv
  <1>1. Init => NodesInv
    <2> SUFFICES ASSUME Init PROVE NodesInv
      OBVIOUS
    <2>1. \A q \in Replica : Depends(q)
      BY NoList DEF Init, Depends, Early
    <2>2. \A q \in Replica : Predicts(q)
      BY NoList DEF Init, Predicts, NewCache
    <2>3. AnsweredNode
      BY DEF Init, AnsweredNode, NoAnswer
    <2> QED
      BY <2>1, <2>2, <2>3, MemoryInvInit DEF NodesInv, DependsInv
  <1>2. NodesInv /\ [Next]_vars => NodesInv'
    <2> SUFFICES ASSUME NodesInv, [Next]_vars PROVE NodesInv'
      OBVIOUS
    <2>1. scenario' = scenario /\ \A q \in Replica : Outcome(q)
      BY StepOutcome DEF NodesInv, DependsInv, MemoryInv, TypeInv
    <2>2. \A q \in Replica : Predicts(q)'
      BY <2>1, PredictsStep DEF NodesInv, DependsInv, MemoryInv, TypeInv
    <2>3. DependsInv'
      <3>1. \A q \in Replica : Depends(q)'
        BY <2>1, DependsStep DEF NodesInv, DependsInv, MemoryInv, TypeInv
      <3> QED
        BY <3>1, MemoryInvStep DEF NodesInv, DependsInv
    <2>4. AnsweredNode'
      <3>1. input' = input /\ Predicting' = Predicting
        BY <2>1 DEF input, Predicting, Configured
      <3>2. \A node, group : Predicted(node, group)' <=> Predicted(node, group)
        BY <3>1 DEF Predicted
      <3>3. CASE UNCHANGED vars
        BY <3>2, <3>3 DEF NodesInv, AnsweredNode, vars
      <3>4. CASE \E r \in Replica : AskTemplate(r)
        <4>1. PICK r \in Replica : AskTemplate(r)
          BY <3>4
        <4>2. Predicted(answer'.node, answer'.group)
          BY <4>1, AskTemplateAnswers DEF NodesInv, DependsInv, MemoryInv
        <4> QED
          BY <3>1, <4>2 DEF AnsweredNode, Predicted
      <3>5. CASE answer'.query # "template"
        BY <3>5 DEF AnsweredNode
      <3> QED
        BY <3>3, <3>4, <3>5 DEF Next, Ask, AskOwner, AskOptions, NoAnswer
    <2> QED
      BY <2>2, <2>3, <2>4 DEF NodesInv
  <1> QED
    BY <1>1, <1>2, PTL DEF Spec

\* What the operator meant by tags arrives at the nodes, whatever names he chose: no
\* generic label, no prediction and no other tag gets the better of it.
THEOREM TagsAlwaysArrive == Spec => [](TagsMeant(input) => TagsArrive)
  <1>1. NodesInv => (TagsMeant(input) => TagsArrive)
    <2> SUFFICES ASSUME NodesInv, TagsMeant(input),
                        answer.query = "template", answer.group.kind = "ScaleSet"
                 PROVE  /\ \A label \in DOMAIN input.labels :
                              /\ label \in DOMAIN answer.node.labels
                              /\ answer.node.labels[label] = input.labels[label]
                        /\ input.taints \subseteq answer.node.taints
      BY DEF TagsArrive
    <2> DEFINE node  == answer.node
               group == answer.group
    <2>1. scenario \in DOMAIN Inputs
      BY DEF NodesInv, DependsInv, MemoryInv, TypeInv
    <2>2. PICK vmss \in input.scaleSets, api \in {{}, input.api} :
             /\ group.predict = Predicting
             /\ node \in buildNodeFromTemplate(buildNodeTemplateFromVMSS(vmss), group.dynamic,
                                               group.predict, api)
      BY DEF NodesInv, AnsweredNode, Predicted
    <2>3. Predicting = BuildAzureConfig(input).cfg.EnableLabelPredictionsOnTemplate
      BY <2>1 DEF Predicting, Configured, input
    <2>4. node \in buildNodeFromTemplate(buildNodeTemplateFromVMSS(vmss), group.dynamic,
                                         Predicting, api)
      BY <2>2
    <2> HIDE DEF node, group
    <2>5. ASSUME NEW label \in DOMAIN input.labels
          PROVE  Carries(node, label, input.labels[label])
      <3>1. LabelMeant(vmss.tags, label, input.labels[label], Predicting)
        BY <2>3 DEF TagsMeant
      <3> QED
        BY <2>4, <3>1, ScaleSetLabelled
    <2>6. ASSUME NEW taint \in input.taints PROVE taint \in node.taints
      <3>1. TaintMeant(vmss.tags, taint)
        BY DEF TagsMeant
      <3> QED
        BY <2>4, <3>1, ScaleSetTainted
    <2> QED
      BY <2>5, <2>6 DEF node, Carries
  <1> QED
    BY <1>1, NodesInvariant, PTL

\* No node is predicted to carry the label of an accelerator that it is not predicted to
\* have: the list of names with Nvidia's drivers and the list of sizes with their GPUs,
\* both written by hand or generated apart, agree on every name.
THEOREM AcceleratorsHaveGPUs == Spec => [](AcceleratorsCounted(input) => AcceleratorHasGPU)
  <1>1. NodesInv => (AcceleratorsCounted(input) => AcceleratorHasGPU)
    <2> SUFFICES ASSUME NodesInv, AcceleratorsCounted(input),
                        answer.query = "template", AKS("accelerator") \in DOMAIN answer.node.labels
                 PROVE  Nvidia \in DOMAIN answer.node.capacity /\ answer.node.capacity[Nvidia] > 0
      BY DEF AcceleratorHasGPU
    <2> DEFINE node  == answer.node
               group == answer.group
    <2>1. Predicted(node, group)
      BY DEF NodesInv, AnsweredNode
    <2>2. AKS("accelerator") \in DOMAIN node.labels
      OBVIOUS
    <2>3. scenario \in DOMAIN Inputs
      BY DEF NodesInv, DependsInv, MemoryInv, TypeInv
    <2> HIDE DEF node, group
    <2>4. CASE group.kind = "ScaleSet"
      <3>1. PICK vmss \in input.scaleSets, api \in {{}, input.api} :
               node \in buildNodeFromTemplate(buildNodeTemplateFromVMSS(vmss), group.dynamic,
                                              group.predict, api)
        BY <2>1, <2>4 DEF Predicted
      <3>2. vmss.sku \in Seq(STRING)
        BY <2>3, InputsAssumption DEF input
      <3>3. \A c \in api : isNvidiaEnabledSKU(c.sku) => c.GPUs > 0
        BY DEF AcceleratorsCounted
      <3>4. /\ AKS("accelerator") \notin DOMAIN vmss.tags
            /\ AKS("accelerator") \notin DOMAIN extractLabelsFromTags(vmss.tags)
            /\ Nvidia \in DOMAIN extractAllocatableResourcesFromScaleSet(vmss.tags) =>
                  extractAllocatableResourcesFromScaleSet(vmss.tags)[Nvidia] > 0
        BY DEF AcceleratorsCounted
      <3>5. Nvidia \in DOMAIN node.capacity /\ node.capacity[Nvidia] > 0
        BY <2>2, <3>1, <3>2, <3>3, <3>4, ScaleSetAccelerator
      <3> QED
        BY <3>5 DEF node
    <2>5. CASE group.kind = "VMPool"
      <3>1. PICK pool \in input.pools : \E location, dynamic, predict, api :
               node \in buildNodeFromTemplate(
                           buildNodeTemplateFromVMPool(pool, location, group.id.sku),
                           dynamic, predict, api)
        BY <2>1, <2>5 DEF Predicted
      <3>2. AKS("accelerator") \notin DOMAIN pool.labels
        BY DEF AcceleratorsCounted
      <3> QED
        BY <2>2, <3>1, <3>2, PoolAccelerator
    <2> QED
      BY <2>1, <2>4, <2>5 DEF Predicted
  <1> QED
    BY <1>1, NodesInvariant, PTL

\* A size is predicted alike by the SKU API and by the static list, whatever the API
\* leaves out and whatever fails: the fractions are rounded by the look-up as they are
\* by the generator.
THEOREM ListsAlwaysAgree == Spec => [](ListGenerated(input) => ListsAgree)
  <1>1. NodesInv => (ListGenerated(input) => ListsAgree)
    <2> SUFFICES ASSUME NodesInv, ListGenerated(input), answer.query = "template",
                        answer.group.kind = "ScaleSet", answer.group.dynamic,
                        NEW vmss \in input.scaleSets, Id(vmss.name, <<>>) = answer.group.id
                 PROVE  LET known == GetInstanceTypeStatically(vmss.sku)
                            rows  == IF known # {} THEN known
                                     ELSE {GeneratedRow(c) : c \in Capabilities(vmss.sku, input.api)}
                        IN  \E type \in rows :
                               \A resource \in DOMAIN Capacity(type, vmss.sku) :
                                  answer.node.capacity[resource] = Capacity(type, vmss.sku)[resource]
      BY DEF ListsAgree
    <2> DEFINE node  == answer.node
               group == answer.group
    <2>1. scenario \in DOMAIN Inputs
      BY DEF NodesInv, DependsInv, MemoryInv, TypeInv
    <2>2. PICK w \in input.scaleSets, api \in {{}, input.api} :
             /\ Id(w.name, <<>>) = group.id
             /\ group.dynamic => api = input.api
             /\ node \in buildNodeFromTemplate(buildNodeTemplateFromVMSS(w), group.dynamic,
                                               group.predict, api)
      BY DEF NodesInv, AnsweredNode, Predicted
    <2>3. w = vmss
      <3>1. w.name = vmss.name
        BY <2>2 DEF Id
      <3> QED
        BY <2>1, <3>1, InputsAssumption DEF input
    <2>4. api = input.api
      BY <2>2
    <2>5. PICK dynamic, predict :
             node \in buildNodeFromTemplate(buildNodeTemplateFromVMSS(vmss), dynamic, predict,
                                            input.api)
      BY <2>2, <2>3, <2>4
    <2> HIDE DEF node, group
    <2>6. /\ DOMAIN extractAllocatableResourcesFromScaleSet(vmss.tags) \cap SizeResources = {}
          /\ \A c \in input.api, row \in StaticList :
                SameSize(c.sku, row.sku) /\ Missing \notin {c.vCPUs, c.MemoryMB} =>
                   /\ row.VCPU = GeneratedRow(c).VCPU /\ row.GPU = GeneratedRow(c).GPU
                   /\ row.MemoryMb = GeneratedRow(c).MemoryMb
      BY DEF ListGenerated
    <2>7. LET known == GetInstanceTypeStatically(vmss.sku)
              rows  == IF known # {} THEN known
                       ELSE {GeneratedRow(c) : c \in Capabilities(vmss.sku, input.api)}
          IN  \E type \in rows :
                 \A resource \in DOMAIN Capacity(type, vmss.sku) :
                    node.capacity[resource] = Capacity(type, vmss.sku)[resource]
      BY <2>5, <2>6, ScaleSetSize
    <2> QED
      BY <2>7 DEF node
  <1> QED
    BY <1>1, NodesInvariant, PTL

=============================================================================
