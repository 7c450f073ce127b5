-------------------------- MODULE NodeGroupsProofs --------------------------
(***************************************************************************)
(* Proofs about NodeGroups, for every set of scale sets, tags, discovery   *)
(* configurations and refreshing threads.                                  *)
(***************************************************************************)
EXTENDS NodeGroups, FiniteSetTheorems, WellFoundedInduction, TLAPS

\* The threads' labels and work lists are functions of the threads.
Shape == /\ pc \in [Thread -> Label]
         /\ todo = [t \in Thread |-> todo[t]]

\* What ExplicitKept rests on: no thread is about to unregister an explicit
\* group that is still registered, by whichever name.
SparedInv ==
  \A t \in Thread : pc[t] = "unregister" =>
    \A k \in todo[t], g \in Explicit \cap registered : ~EqualFold(k.id, g.id)

\* What SizesSane rests on: so do the groups about to be registered.
SaneInv ==
  /\ SizesSane
  /\ \A t \in Thread : pc[t] = "register" =>
       \A g \in todo[t] : 0 <= g.min /\ g.min <= g.max

-----------------------------------------------------------------------------
(* Lemmas about the steps.                                                 *)

\* What a step does to the registered groups and to the work lists: nothing,
\* or one of the steps of fetchAutoNodeGroups.
LEMMA StepKinds ==
  ASSUME [Next]_vars
  PROVE  \/ UNCHANGED <<registered, todo, pc>>
         \/ \E t \in Thread :
              \/ /\ UNCHANGED <<registered, todo>>
                 /\ \E l \in Label \ {"register", "unregister"} : Goto(t, l)
              \/ Discover(t)
              \/ RegisterGroup(t)
              \/ Compare(t)
              \/ Unregister(t)
<1>1. ASSUME NEW t \in Thread, Start(t)
      PROVE  UNCHANGED <<registered, todo>> /\ Goto(t, "discover")
  BY <1>1 DEF Start, cacheVars, locals
<1>2. ASSUME NEW t \in Thread, Refreshing(t)
      PROVE  \/ /\ UNCHANGED <<registered, todo>>
                /\ \E l \in Label \ {"register", "unregister"} : Goto(t, l)
             \/ Discover(t) \/ RegisterGroup(t) \/ Compare(t) \/ Unregister(t)
  BY <1>2 DEF Refreshing, Discovered, FetchOK, FetchFails, ReadNodes, NodesFail,
              Publish, cacheVars, locals, Label
<1>3. ASSUME NEW n \in Name, Retag(n) PROVE UNCHANGED <<registered, todo, pc>>
  BY <1>3 DEF Retag, cacheVars, locals
<1>4. ASSUME NEW i \in Inst, LookUp(i) PROVE UNCHANGED <<registered, todo, pc>>
  BY <1>4 DEF LookUp, locals
<1>5. CASE invalidateCache \/ UNCHANGED vars
  BY <1>5 DEF invalidateCache, vars, cacheVars, locals
<1>6. "discover" \in Label \ {"register", "unregister"} /\ Main \in Thread
      /\ Waiters \subseteq Thread
  BY DEF Label, Thread
<1> QED
  BY <1>1, <1>2, <1>3, <1>4, <1>5, <1>6 DEF Next, Refresh, forceRefresh

\* Every step keeps the shape.
LEMMA ShapeStep == Shape /\ [Next]_vars => Shape'
<1> SUFFICES ASSUME Shape, [Next]_vars PROVE Shape'
  OBVIOUS
<1>1. CASE UNCHANGED <<registered, todo, pc>>
  BY <1>1 DEF Shape
<1>2. ASSUME NEW t \in Thread, UNCHANGED <<registered, todo>>,
             NEW l \in Label, Goto(t, l)
      PROVE  Shape'
  BY <1>2 DEF Shape, Goto
<1>3. ASSUME NEW t \in Thread, Discover(t) PROVE Shape'
  BY <1>3 DEF Shape, Discover, Goto, Label
<1>4. ASSUME NEW t \in Thread, RegisterGroup(t) \/ Unregister(t) PROVE Shape'
  BY <1>4 DEF Shape, RegisterGroup, Unregister
<1>5. ASSUME NEW t \in Thread, Compare(t) PROVE Shape'
  BY <1>5 DEF Shape, Compare, Goto, Label
<1> QED
  BY <1>1, <1>2, <1>3, <1>4, <1>5, StepKinds

\* Initially the shape holds.
LEMMA ShapeInit == Init => Shape
BY DEF Init, Shape, Label

-----------------------------------------------------------------------------
(* No scale set has two node groups.                                       *)

\* However many refreshes register and unregister at once, no two registered
\* node groups have the same name, whatever its case.
THEOREM NoDuplicatesTheorem == Spec => []NoDuplicates
<1>1. Init => NoDuplicates
  BY ExplicitAssumption DEF Init, NoDuplicates
<1>2. NoDuplicates /\ [Next]_vars => NoDuplicates'
  <2> SUFFICES ASSUME NoDuplicates, [Next]_vars PROVE NoDuplicates'
    OBVIOUS
  <2>1. CASE UNCHANGED registered
    BY <2>1 DEF NoDuplicates
  <2>2. ASSUME NEW t, NEW g, Register(t, g) PROVE NoDuplicates'
    BY <2>2 DEF Register, NoDuplicates, EqualFold
  <2>3. ASSUME NEW t, RegisterGroup(t) PROVE NoDuplicates'
    BY <2>1, <2>2, <2>3 DEF RegisterGroup
  <2>4. ASSUME NEW t, Unregister(t) PROVE NoDuplicates'
    BY <2>4 DEF Unregister, NoDuplicates
  <2>5. ASSUME NEW t, Discover(t) \/ Compare(t) PROVE UNCHANGED registered
    BY <2>5 DEF Discover, Compare, cacheVars
  <2> QED
    BY <2>1, <2>3, <2>4, <2>5, StepKinds
<1> QED
  BY <1>1, <1>2, PTL DEF Spec

-----------------------------------------------------------------------------
(* The explicit configuration takes precedence.                            *)

\* A group that a refresh registers is none of the explicit ones.
LEMMA RegisteredByRefresh ==
  ASSUME NEW t \in Thread, RegisterGroup(t)
  PROVE  \/ UNCHANGED registered
         \/ \E k \in todo[t] :
              /\ k \notin Explicit /\ ~explicitlyConfigured(k.id)
              /\ registered' = {h \in registered : ~EqualFold(h.id, k.id)} \cup {k}
<1>1. PICK k \in todo[t] : \/ UNCHANGED registered
                           \/ ~explicitlyConfigured(k.id) /\ Register(t, k)
  BY DEF RegisterGroup
<1>2. ~explicitlyConfigured(k.id) => k \notin Explicit
  BY DEF explicitlyConfigured
<1>3. Register(t, k) =>
        \/ UNCHANGED registered
        \/ registered' = {h \in registered : ~EqualFold(h.id, k.id)} \cup {k}
  BY DEF Register
<1> QED
  BY <1>1, <1>2, <1>3

\* Every step spares the explicit groups: what Compare finds has no name of
\* theirs, and none of them is registered a second time.
LEMMA SparedStep ==
  ASSUME Shape, NoDuplicates, SparedInv, [Next]_vars PROVE SparedInv'
<1>1. CASE UNCHANGED <<registered, todo, pc>>
  BY <1>1 DEF SparedInv
<1>2. ASSUME NEW t \in Thread, UNCHANGED <<registered, todo>>,
             NEW l \in Label \ {"register", "unregister"}, Goto(t, l)
      PROVE  SparedInv'
  BY <1>2 DEF SparedInv, Shape, Goto
<1>3. ASSUME NEW t \in Thread, Discover(t) PROVE SparedInv'
  BY <1>3 DEF SparedInv, Shape, Discover, Goto, cacheVars
<1>4. ASSUME NEW t \in Thread, RegisterGroup(t) PROVE SparedInv'
  <2>1. Explicit \cap registered' \subseteq registered
    BY <1>4, RegisteredByRefresh
  <2>2. pc' = pc /\ pc[t] = "register"
    BY <1>4 DEF RegisterGroup, At
  <2>3. \A u \in Thread \ {t} : todo'[u] = todo[u]
    BY <1>4 DEF RegisterGroup, Shape
  <2> QED
    BY <2>1, <2>2, <2>3 DEF SparedInv
<1>5. ASSUME NEW t \in Thread, Compare(t) PROVE SparedInv'
  <2>1. \A k \in todo'[t] : k \in registered /\ ~explicitlyConfigured(k.id)
    BY <1>5 DEF Compare, Shape
  <2>2. ASSUME NEW k \in todo'[t], NEW g \in Explicit \cap registered
        PROVE  ~EqualFold(k.id, g.id)
    BY <2>1 DEF NoDuplicates, explicitlyConfigured
  <2>3. /\ \A u \in Thread \ {t} : todo'[u] = todo[u] /\ pc'[u] = pc[u]
        /\ UNCHANGED registered
    BY <1>5 DEF Compare, Goto, Shape, cacheVars
  <2> QED
    BY <2>2, <2>3 DEF SparedInv
<1>6. ASSUME NEW t \in Thread, Unregister(t) PROVE SparedInv'
  BY <1>6 DEF SparedInv, Shape, Unregister, At
<1> QED
  BY <1>1, <1>2, <1>3, <1>4, <1>5, <1>6, StepKinds

\* Whatever is discovered and however many refreshes run, an explicitly
\* configured group is lost only to a scale set discovered by a name that
\* differs from its own in case alone (fetchAutoNodeGroups, Register).
THEOREM ExplicitTheorem == Spec => ExplicitKept
<1> DEFINE Kept == \A g \in Explicit :
                     g \in registered /\ g \notin registered'
                       => \E h \in registered' : h.id # g.id /\ EqualFold(h.id, g.id)
<1>1. Init => NoDuplicates /\ SparedInv
  BY ExplicitAssumption DEF Init, NoDuplicates, SparedInv
<1>2. Shape /\ NoDuplicates /\ SparedInv /\ [Next]_vars => Kept
  <2> SUFFICES ASSUME Shape, SparedInv, [Next]_vars,
                      NEW g \in Explicit, g \in registered, g \notin registered'
               PROVE  \E h \in registered' : h.id # g.id /\ EqualFold(h.id, g.id)
    OBVIOUS
  <2>1. ASSUME NEW t \in Thread, RegisterGroup(t)
        PROVE  \E h \in registered' : h.id # g.id /\ EqualFold(h.id, g.id)
    <3>1. PICK k \in todo[t] :
            /\ ~explicitlyConfigured(k.id)
            /\ registered' = {h \in registered : ~EqualFold(h.id, k.id)} \cup {k}
      BY <2>1, RegisteredByRefresh
    <3>2. k \in registered' /\ EqualFold(k.id, g.id)
      BY <3>1 DEF EqualFold
    <3>3. k.id # g.id
      BY <3>1 DEF explicitlyConfigured
    <3> QED
      BY <3>2, <3>3
  <2>2. ASSUME NEW t \in Thread, Unregister(t) PROVE FALSE
    <3>1. PICK k \in todo[t] : registered' = {h \in registered : ~EqualFold(h.id, k.id)}
      BY <2>2 DEF Unregister
    <3>2. EqualFold(k.id, g.id)
      BY <3>1 DEF EqualFold
    <3> QED
      BY <2>2, <3>2 DEF SparedInv, Unregister, At
  <2>3. ASSUME NEW t, Discover(t) \/ Compare(t) PROVE UNCHANGED registered
    BY <2>3 DEF Discover, Compare, cacheVars
  <2> QED
    BY <2>1, <2>2, <2>3, StepKinds
<1>3. Kept => [Kept]_vars
  OBVIOUS
<1> QED
  BY <1>1, <1>2, <1>3, NoDuplicatesTheorem, ShapeInit, ShapeStep, SparedStep, PTL
     DEF Spec, ExplicitKept

-----------------------------------------------------------------------------
(* The sizes can be respected.                                             *)

\* Every group the autoscaler is given has 0 <= minimum <= maximum.
THEOREM SizesTheorem == Spec => []SizesSane
<1>0. \A g \in getFilteredScaleSets : 0 <= g.min /\ g.min <= g.max
  BY Zenon DEF getFilteredScaleSets
<1>1. Init => SaneInv
  <2> SUFFICES ASSUME Init PROVE SaneInv
    OBVIOUS
  <2>1. \A g \in Explicit : 0 <= g.min /\ g.min <= g.max
    BY ExplicitAssumption
  <2>2. \A t \in Thread : pc[t] # "register"
    BY DEF Init
  <2> QED
    BY <2>1, <2>2 DEF Init, SaneInv, SizesSane
<1>2. Shape /\ SaneInv /\ [Next]_vars => SaneInv'
  <2> SUFFICES ASSUME Shape, SaneInv, [Next]_vars PROVE SaneInv'
    OBVIOUS
  <2>1. CASE UNCHANGED <<registered, todo, pc>>
    BY <2>1 DEF SaneInv, SizesSane
  <2>2. ASSUME NEW t \in Thread, UNCHANGED <<registered, todo>>,
               NEW l \in Label \ {"register", "unregister"}, Goto(t, l)
        PROVE  SaneInv'
    BY <2>2 DEF SaneInv, SizesSane, Shape, Goto
  <2>3. ASSUME NEW t \in Thread, Discover(t) PROVE SaneInv'
    BY <1>0, <2>3 DEF SaneInv, SizesSane, Shape, Discover, Goto, cacheVars
  <2>4. ASSUME NEW t \in Thread, RegisterGroup(t) PROVE SaneInv'
    BY <2>4 DEF SaneInv, SizesSane, Shape, RegisterGroup, Register, At
  <2>5. ASSUME NEW t \in Thread, Compare(t) PROVE SaneInv'
    BY <2>5 DEF SaneInv, SizesSane, Shape, Compare, Goto, cacheVars
  <2>6. ASSUME NEW t \in Thread, Unregister(t) PROVE SaneInv'
    BY <2>6 DEF SaneInv, SizesSane, Shape, Unregister, At
  <2> QED
    BY <2>1, <2>2, <2>3, <2>4, <2>5, <2>6, StepKinds
<1>3. SaneInv => SizesSane
  BY DEF SaneInv
<1> QED
  BY <1>1, <1>2, <1>3, ShapeInit, ShapeStep, PTL DEF Spec

-----------------------------------------------------------------------------
(* Types.                                                                  *)

\* A finite set of numbers that is not empty has a highest one: of those that
\* had none, one would be smallest, and would have one all the same.
LEMMA HighestExists ==
  ASSUME NEW S \in SUBSET Int, IsFiniteSet(S), S # {}
  PROVE  \E x \in S : \A y \in S : x >= y
<1> DEFINE HasMax(T) == \E x \in T : \A y \in T : x >= y
           Bad == {T \in SUBSET S : T # {} /\ ~HasMax(T)}
           Sizes == {Cardinality(T) : T \in Bad}
<1>0. \A T \in SUBSET S : IsFiniteSet(T) /\ Cardinality(T) \in Nat
  BY FS_Subset, FS_CardinalityType
<1> SUFFICES ASSUME ~HasMax(S) PROVE FALSE
  OBVIOUS
<1>1. Sizes \subseteq Nat /\ Sizes # {}
  BY <1>0
<1>2. PICK n \in Sizes : \A m \in Sizes : ~(<<m, n>> \in OpToRel(<, Nat))
  BY <1>1, WFMin, NatLessThanWellFounded, Zenon
<1>3. \A m \in Sizes : ~(m < n)
  BY <1>1, <1>2 DEF OpToRel
<1>4. PICK T \in Bad : Cardinality(T) = n
  BY <1>2
<1>5. PICK x \in T : TRUE
  BY <1>4
<1>6. T \ {x} \in SUBSET S /\ Cardinality(T \ {x}) = n - 1
  BY <1>0, <1>4, <1>5, FS_RemoveElement
<1>7. T \ {x} \notin Bad
  <2>1. n \in Nat
    BY <1>1, <1>2
  <2>2. n - 1 < n
    BY <2>1
  <2> QED
    BY <1>3, <1>6, <2>2
<1>8. CASE T = {x}
  BY <1>4, <1>5, <1>8
<1>9. CASE HasMax(T \ {x})
  <2>1. PICK m \in T \ {x} : \A y \in T \ {x} : m >= y
    BY <1>9
  <2>2. m \in Int /\ x \in Int /\ T \subseteq Int
    BY <1>4, <1>5
  <2>3. CASE m >= x
    BY <1>4, <2>1, <2>2, <2>3
  <2>4. CASE x >= m
    <3>1. \A y \in T : x >= y
      BY <2>1, <2>2, <2>4
    <3> QED
      BY <1>4, <1>5, <3>1
  <2> QED
    BY <2>2, <2>3, <2>4
<1> QED
  BY <1>5, <1>6, <1>7, <1>8, <1>9

\* The sizes that the configurations give are numbers.
LEMMA ConfigSizes ==
  ASSUME NEW labels
  PROVE  /\ matchDiscoveryConfig(labels).min \in Int
         /\ matchDiscoveryConfig(labels).max \in Int
<1> DEFINE mins == {c.min : c \in Configs} \cup {-1}
           given == {c.max : c \in Configs} \ {-1}
<1>1. Max(mins) \in Int
  <2>1. mins \in SUBSET Int /\ mins # {}
    BY ConfigsAssumption
  <2>2. IsFiniteSet(mins)
    <3>1. IsFiniteSet({c.min : c \in Configs})
      <4> DEFINE f == [c \in Configs |-> c.min]
                 img == {f[c] : c \in Configs}
      <4>1. f \in Surjection(Configs, img)
        BY DEF Surjection
      <4>2. IsFiniteSet(img)
        BY <4>1, ConfigsAssumption, FS_Surjection
      <4>3. img = {c.min : c \in Configs}
        OBVIOUS
      <4> QED
        BY <4>2, <4>3
    <3> QED
      BY <3>1, FS_AddElement
  <2>3. Max(mins) \in mins
    BY <2>1, <2>2, HighestExists DEF Max
  <2> QED
    BY <2>1, <2>3
<1>2. given # {} => Min(given) \in Int
  <2> SUFFICES ASSUME given # {} PROVE Min(given) \in Int
    OBVIOUS
  <2>1. given \subseteq Nat
    BY ConfigsAssumption
  <2>2. PICK n \in given : \A m \in given : ~(<<m, n>> \in OpToRel(<, Nat))
    BY <2>1, WFMin, NatLessThanWellFounded, Zenon
  <2>3. \A m \in given : n =< m
    <3>1. \A m \in given : ~(m < n)
      BY <2>1, <2>2 DEF OpToRel
    <3>2. ASSUME NEW m \in given PROVE n =< m
      <4> HIDE DEF given
      <4>1. m \in Nat /\ n \in Nat
        BY <2>1, <3>2
      <4>2. ~(m < n)
        BY <3>1, <3>2
      <4> QED
        BY <4>1, <4>2
    <3> QED
      BY <3>2
  <2>4. Min(given) \in given
    BY <2>2, <2>3 DEF Min
  <2> QED
    BY <2>1, <2>4
<1> QED
  BY <1>1, <1>2 DEF matchDiscoveryConfig

\* So are those of a tag, and what is discovered are node groups.
LEMMA DiscoveredType ==
  ASSUME scaleSets \in [Name -> AnyTags]
  PROVE  getFilteredScaleSets \subseteq Group
<1>1. ASSUME NEW tag, tag \subseteq Int, NEW default \in Int
      PROVE  TagOr(tag, default) \in Int
  BY <1>1 DEF TagOr
<1>2. ASSUME NEW n \in Name
      PROVE  /\ TagOr(scaleSets[n].min, matchDiscoveryConfig(scaleSets[n].labels).min) \in Int
             /\ TagOr(scaleSets[n].max, matchDiscoveryConfig(scaleSets[n].labels).max) \in Int
  <2>1. scaleSets[n].min \subseteq Int /\ scaleSets[n].max \subseteq Int
    BY TagsAssumption
  <2> QED
    BY <1>1, <2>1, ConfigSizes
<1> QED
  BY <1>2 DEF getFilteredScaleSets, Group

\* A refresh keeps the types.
LEMMA TypeRefreshing ==
  ASSUME TypeOK, NEW t \in Thread, Refreshing(t) PROVE TypeOK'
<1> USE DEF cacheVars, locals, Goto, Label
<1>1. CASE Discover(t)
  <2>1. getFilteredScaleSets \subseteq Group
    BY DiscoveredType DEF TypeOK
  <2> QED
    BY <1>1, <2>1 DEF Discover, TypeOK
<1>2. CASE RegisterGroup(t)
  <2>1. PICK g \in todo[t] :
          /\ todo' = [todo EXCEPT ![t] = @ \ {g}]
          /\ UNCHANGED <<registered, unowned, changed>> \/ Register(t, g)
    BY <1>2 DEF RegisterGroup
  <2>2. registered' \subseteq Group /\ unowned' \subseteq Inst
        /\ changed' \in [Thread -> BOOLEAN]
    <3>1. CASE Register(t, g)
      <4>1. registered' \subseteq registered \cup {g}
        BY <3>1 DEF Register
      <4>2. unowned' \in {unowned, {}}
            /\ changed' \in {changed, [changed EXCEPT ![t] = TRUE]}
        BY <3>1 DEF Register
      <4>3. g \in Group
        BY <2>1 DEF TypeOK
      <4> QED
        BY <4>1, <4>2, <4>3 DEF TypeOK
    <3> QED
      BY <2>1, <3>1 DEF TypeOK
  <2>3. todo' \in [Thread -> SUBSET Group]
    BY <2>1 DEF TypeOK
  <2> QED
    BY <1>2, <2>2, <2>3 DEF RegisterGroup, TypeOK
<1>3. CASE Compare(t)
  <2>1. {g \in registered : /\ \A f \in found[t] : f.id # g.id
                            /\ ~explicitlyConfigured(g.id)} \subseteq Group
    BY DEF TypeOK
  <2> QED
    BY <1>3, <2>1 DEF Compare, TypeOK
<1>4. CASE Unregister(t)
  BY <1>4 DEF Unregister, TypeOK
<1>5. CASE Discovered(t)
  BY <1>5 DEF Discovered, TypeOK
<1>6. CASE FetchOK(t) \/ FetchFails(t) \/ NodesFail(t)
  BY <1>6 DEF FetchOK, FetchFails, NodesFail, TypeOK
<1>7. CASE ReadNodes(t)
  <2> DEFINE read == [i \in Inst |->
               IF \E g \in registered : i \in Nodes(g)
               THEN CHOOSE g \in registered : i \in Nodes(g) ELSE Nil]
  <2>1. ASSUME NEW i \in Inst, \E g \in registered : i \in Nodes(g)
        PROVE  (CHOOSE g \in registered : i \in Nodes(g)) \in Group
    BY <2>1 DEF TypeOK
  <2>2. read \in [Inst -> Group \cup {Nil}]
    BY <2>1
  <2>3. map' = [map EXCEPT ![t] = read]
    BY <1>7 DEF ReadNodes
  <2> HIDE DEF read
  <2>4. map' \in [Thread -> [Inst -> Group \cup {Nil}]]
    BY <2>2, <2>3 DEF TypeOK
  <2> QED
    BY <1>7, <2>4 DEF ReadNodes, TypeOK
<1>8. CASE Publish(t)
  <2>1. Empty \in [Inst -> Group \cup {Nil}]
    BY DEF Empty
  <2>2. map' \in [Thread -> [Inst -> Group \cup {Nil}]]
        /\ index' \in [Inst -> Group \cup {Nil}]
    BY <1>8, <2>1 DEF Publish, TypeOK
  <2> QED
    BY <1>8, <2>2 DEF Publish, TypeOK
<1> QED
  BY <1>1, <1>2, <1>3, <1>4, <1>5, <1>6, <1>7, <1>8 DEF Refreshing

\* Every variable keeps its type: what is registered, indexed and about to be
\* published are node groups, with numbers for sizes (azure_autodiscovery.go,
\* azure_manager.go, azure_cache.go).
THEOREM TypeCorrect == Spec => []TypeOK
<1>1. ASSUME Init PROVE TypeOK
  <2>1. Gone \in AnyTags /\ Empty \in [Inst -> Group \cup {Nil}]
    BY DEF AnyTags, Empty
  <2>2. Explicit \subseteq Group
    BY ExplicitAssumption DEF Group
  <2> QED
    BY <1>1, <2>1, <2>2 DEF Init, TypeOK, Label
<1>2. ASSUME TypeOK, [Next]_vars PROVE TypeOK'
  <2>1. ASSUME NEW n \in Name, Retag(n) PROVE TypeOK'
    <3>1. PICK tags \in Tags[n] : vmss' = [vmss EXCEPT ![n] = tags]
      BY <2>1 DEF Retag
    <3>2. tags \in AnyTags
      BY <3>1 DEF AnyTags
    <3> QED
      BY <1>2, <2>1, <3>1, <3>2 DEF Retag, TypeOK, cacheVars, locals
  <2>2. ASSUME NEW t \in Thread, Start(t) PROVE TypeOK'
    BY <1>2, <2>2 DEF Start, TypeOK, cacheVars, locals, Goto, Label
  <2>3. CASE invalidateCache \/ UNCHANGED vars
    BY <1>2, <2>3 DEF invalidateCache, vars, TypeOK, cacheVars, locals
  <2>4. ASSUME NEW i \in Inst, LookUp(i) PROVE TypeOK'
    BY <1>2, <2>4 DEF LookUp, TypeOK, locals
  <2> QED
    BY <1>2, <2>1, <2>2, <2>3, <2>4, TypeRefreshing
       DEF Next, Refresh, forceRefresh, Thread
<1> QED
  BY <1>1, <1>2, PTL DEF Spec

=============================================================================
