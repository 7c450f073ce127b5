----------------------------- MODULE NodeGroups -----------------------------
(***************************************************************************)
(* Which node groups exist and which one an instance belongs to: the       *)
(* auto-discovery of scale sets by their tags (azure_autodiscovery.go,     *)
(* getFilteredScaleSets), their registration, and the look-up of an        *)
(* instance in the index the last refresh published (azure_manager.go,     *)
(* azure_cache.go).                                                        *)
(*                                                                         *)
(* Main calls Refresh before every loop; a waiter of a deletion or of an   *)
(* update calls forceRefresh whenever it likes, so several run at once.    *)
(* azureCache.mutex is held for the length of a step.                      *)
(***************************************************************************)
EXTENDS Integers, FiniteSets, FiniteSetsExt

CONSTANTS
  Name,            \* names of scale sets
  Fold,            \* [Name -> Name]: a name's lower-case form
  FlexNames,       \* the scale sets with Flexible orchestration
  Tags,            \* what each scale set may be: sets of tags, Gone where it may go
  Configs,         \* autoDiscoverySpecs
  Explicit,        \* the node groups configured by --nodes
  Inst, Owner,     \* instances, and the scale set of each (or NoOwner)
  VMType,          \* config
  VMsPools,        \* there are VMs agent pools
  Waiters          \* goroutines that may call forceRefresh

Main == "main"
Thread == {Main} \cup Waiters
Gone == [labels |-> {}, min |-> {}, max |-> {}]
NoOwner == "no owner"
Nil == [id |-> NoOwner, min |-> -1, max |-> -1]

EqualFold(a, b) == Fold[a] = Fold[b]

Group == [id : Name, min : Int, max : Int]

AnyTags == (UNION {Tags[n] : n \in Name}) \cup {Gone}

\* A tag is {} where it is not set and {n} where it reads as the number n; one
\* that is no number is treated as a negative one is.
ASSUME TagsAssumption ==
  \A tags \in AnyTags : \A tag \in {tags.min, tags.max} :
    tag \subseteq Int /\ Cardinality(tag) <= 1
ASSUME ConfigsAssumption ==
  IsFiniteSet(Configs) /\ \A c \in Configs : {c.min, c.max} \subseteq Nat \cup {-1}
ASSUME NamesAssumption ==
  /\ Fold \in [Name -> Name] /\ FlexNames \subseteq Name
  /\ NoOwner \notin Name /\ Main \notin Waiters
  /\ Owner \in [Inst -> Name \cup {NoOwner}]
ASSUME ExplicitAssumption ==
  /\ Explicit \subseteq [id : Name, min : Nat, max : Nat]
  /\ \A g \in Explicit : g.min <= g.max
  /\ \A g, h \in Explicit : EqualFold(g.id, h.id) => g = h
ASSUME ModeAssumption == VMType \in {"vmss", "standard"} /\ VMsPools \in BOOLEAN

VARIABLES
  vmss,       \* Azure: the tags of every scale set, or Gone
  scaleSets,  \* azureCache.scaleSets
  registered, \* azureCache.registeredNodeGroups
  index,      \* azureCache.instanceToNodeGroup
  unowned,    \* azureCache.unownedInstances
  mgrFresh,   \* manager.lastRefresh has not expired
  pc,         \* where each thread is
  found,      \* the groups each thread's refresh has discovered
  todo,       \* those it has yet to register or unregister
  changed,    \* as in the code
  map         \* the index it is about to publish

cacheVars == <<scaleSets, registered, index, unowned>>
locals == <<found, todo, changed, map>>
vars == <<vmss, scaleSets, registered, index, unowned, mgrFresh, pc,
          found, todo, changed, map>>

Label == {"idle", "discover", "register", "unregister", "fetch",
          "nodes", "publish"}

Empty == [i \in Inst |-> Nil]

At(t, l) == pc[t] = l
Goto(t, l) == pc' = [pc EXCEPT ![t] = l]

-----------------------------------------------------------------------------
(* Auto-discovery: a function of the cached scale sets.                    *)

\* The highest minimum and the lowest maximum of the configurations, all of
\* which must match; -1 where none gives one.
matchDiscoveryConfig(labels) ==
  [match |-> Configs # {} /\ \A c \in Configs : c.sel # {} /\ c.sel \subseteq labels,
   min   |-> Max({c.min : c \in Configs} \cup {-1}),
   max   |-> LET given == {c.max : c \in Configs} \ {-1}
             IN  IF given = {} THEN -1 ELSE Min(given)]

TagOr(tag, default) == IF tag = {} THEN default ELSE CHOOSE n \in tag : TRUE

\* Mutant: maximum and minimum are not compared.
getFilteredScaleSetsUnchecked ==
  {g \in {[id  |-> n,
           min |-> TagOr(scaleSets[n].min, matchDiscoveryConfig(scaleSets[n].labels).min),
           max |-> TagOr(scaleSets[n].max, matchDiscoveryConfig(scaleSets[n].labels).max)]
          : n \in {m \in Name : /\ scaleSets[m] # Gone
                                /\ matchDiscoveryConfig(scaleSets[m].labels).match}} :
     0 <= g.min /\ 0 <= g.max}

\* A tag of the scale set takes precedence over the configurations.
getFilteredScaleSets ==
  {g \in {[id  |-> n,
           min |-> TagOr(scaleSets[n].min, matchDiscoveryConfig(scaleSets[n].labels).min),
           max |-> TagOr(scaleSets[n].max, matchDiscoveryConfig(scaleSets[n].labels).max)]
          : n \in {m \in Name : /\ scaleSets[m] # Gone
                                /\ matchDiscoveryConfig(scaleSets[m].labels).match}} :
     0 <= g.min /\ g.min <= g.max}

-----------------------------------------------------------------------------
(* Azure (external): scale sets come, go and are tagged.                   *)

\* Azure's names are unique up to their case.
Unique(sets) == \A m, n \in {k \in Name : sets[k] # Gone} : EqualFold(m, n) => m = n

Retag(n) == /\ \E tags \in Tags[n] \ {vmss[n]} :
                 /\ vmss' = [vmss EXCEPT ![n] = tags]
                 /\ Unique(vmss')
            /\ UNCHANGED <<cacheVars, mgrFresh, pc, locals>>

-----------------------------------------------------------------------------
(* forceRefresh.                                                           *)

Start(t) == /\ At(t, "idle")
            /\ Goto(t, "discover")
            /\ UNCHANGED <<vmss, cacheVars, mgrFresh, locals>>

Refresh == ~mgrFresh /\ Start(Main)

forceRefresh(w) == Start(w)

\* The interval elapses, or somebody calls invalidateCache.
invalidateCache == /\ mgrFresh
                   /\ mgrFresh' = FALSE
                   /\ UNCHANGED <<vmss, cacheVars, pc, locals>>

\* getFilteredNodeGroups looks at the scale sets of the previous refresh.
Discover(t) ==
  /\ At(t, "discover")
  /\ IF Configs # {} /\ VMType # "vmss"
     THEN Goto(t, "fetch") /\ UNCHANGED <<found, todo>>
     ELSE /\ Goto(t, "register")
          /\ found' = [found EXCEPT ![t] = getFilteredScaleSets]
          /\ todo' = [todo EXCEPT ![t] = getFilteredScaleSets]
  /\ UNCHANGED <<vmss, cacheVars, mgrFresh, changed, map>>

\* Register: a group with the name and sizes of a registered one changes
\* nothing; with other sizes it replaces it.
Register(t, g) ==
  LET same == {h \in registered : EqualFold(h.id, g.id)}
  IN  IF \E h \in same : h.min = g.min /\ h.max = g.max
      THEN UNCHANGED <<registered, unowned, changed>>
      ELSE /\ registered' = (registered \ same) \cup {g}
           /\ unowned' = {}
           /\ changed' = [changed EXCEPT ![t] = TRUE]

explicitlyConfigured(id) == \E g \in Explicit : g.id = id

\* Mutant: the explicit configuration takes no precedence.
RegisterGroupAny(t) ==
  /\ At(t, "register")
  /\ \E g \in todo[t] : /\ todo' = [todo EXCEPT ![t] = @ \ {g}]
                         /\ Register(t, g)
  /\ UNCHANGED <<vmss, scaleSets, index, mgrFresh, pc, found, map>>

RegisterGroup(t) ==
  /\ At(t, "register")
  /\ \E g \in todo[t] :
       /\ todo' = [todo EXCEPT ![t] = @ \ {g}]
       /\ IF explicitlyConfigured(g.id)
          THEN UNCHANGED <<registered, unowned, changed>>
          ELSE Register(t, g)
  /\ UNCHANGED <<vmss, scaleSets, index, mgrFresh, pc, found, map>>

\* Mutant: a group is kept for as long as its scale set exists.
CompareExisting(t) ==
  /\ At(t, "register") /\ todo[t] = {}
  /\ todo' = [todo EXCEPT ![t] = {g \in registered : /\ scaleSets[g.id] = Gone
                                                     /\ ~explicitlyConfigured(g.id)}]
  /\ found' = [found EXCEPT ![t] = {}]
  /\ Goto(t, "unregister")
  /\ UNCHANGED <<vmss, cacheVars, mgrFresh, changed, map>>

\* getNodeGroups: the registered groups that were not discovered.
Compare(t) ==
  /\ At(t, "register") /\ todo[t] = {}
  /\ todo' = [todo EXCEPT ![t] = {g \in registered : /\ \A f \in found[t] : f.id # g.id
                                                     /\ ~explicitlyConfigured(g.id)}]
  /\ found' = [found EXCEPT ![t] = {}]
  /\ Goto(t, "unregister")
  /\ UNCHANGED <<vmss, cacheVars, mgrFresh, changed, map>>

\* Unregister goes by the name, and leaves the index alone.
Unregister(t) ==
  /\ At(t, "unregister")
  /\ \E g \in todo[t] :
       /\ registered' = {h \in registered : ~EqualFold(h.id, g.id)}
       /\ todo' = [todo EXCEPT ![t] = @ \ {g}]
  /\ changed' = [changed EXCEPT ![t] = TRUE]
  /\ UNCHANGED <<vmss, scaleSets, index, unowned, mgrFresh, pc, found, map>>

Discovered(t) ==
  /\ At(t, "unregister") /\ todo[t] = {}
  /\ mgrFresh' = (mgrFresh /\ ~changed[t])
  /\ changed' = [changed EXCEPT ![t] = FALSE]
  /\ Goto(t, "fetch")
  /\ UNCHANGED <<vmss, cacheVars, found, todo, map>>

\* regenerate: fetchAzureResources lists the scale sets, then the VMs.
FetchOK(t) == /\ At(t, "fetch")
              /\ scaleSets' = vmss
              /\ Goto(t, "nodes")
              /\ UNCHANGED <<vmss, registered, index, unowned, mgrFresh, locals>>

FetchFails(t) == /\ At(t, "fetch")
                 /\ scaleSets' \in {scaleSets, vmss}
                 /\ Goto(t, "idle")
                 /\ UNCHANGED <<vmss, registered, index, unowned, mgrFresh, locals>>

\* Nodes() of every registered group: none where its scale set is not known.
Nodes(g) == {i \in Inst : Owner[i] = g.id /\ scaleSets[g.id] # Gone}

ReadNodes(t) ==
  /\ At(t, "nodes")
  /\ map' = [map EXCEPT ![t] =
               [i \in Inst |->
                  IF \E g \in registered : i \in Nodes(g)
                  THEN CHOOSE g \in registered : i \in Nodes(g) ELSE Nil]]
  /\ Goto(t, "publish")
  /\ UNCHANGED <<vmss, cacheVars, mgrFresh, found, todo, changed>>

NodesFail(t) == /\ At(t, "nodes")
                /\ Goto(t, "idle")
                /\ UNCHANGED <<vmss, cacheVars, mgrFresh, locals>>

\* Mutant: the unowned instances are not forgotten.
PublishKeepsUnowned(t) ==
  /\ At(t, "publish")
  /\ index' = map[t]
  /\ mgrFresh' = TRUE
  /\ Goto(t, "idle")
  /\ map' = [map EXCEPT ![t] = Empty]
  /\ UNCHANGED <<vmss, scaleSets, registered, unowned, found, todo, changed>>

Publish(t) ==
  /\ At(t, "publish")
  /\ index' = map[t]
  /\ unowned' = {}
  /\ mgrFresh' = TRUE
  /\ Goto(t, "idle")
  /\ map' = [map EXCEPT ![t] = Empty]
  /\ UNCHANGED <<vmss, scaleSets, registered, found, todo, changed>>

-----------------------------------------------------------------------------
(* Looking an instance up.                                                 *)

\* virtualMachineRE: the id of a VM, as those of Flexible scale sets and of
\* stand-alone VMs are.
IsVM(i) == Owner[i] = NoOwner \/ Owner[i] \in FlexNames

areAllScaleSetsUniform == \A n \in FlexNames : scaleSets[n] = Gone

Omitted(i) == \/ VMType = "vmss" /\ ~VMsPools /\ areAllScaleSetsUniform /\ IsVM(i)
              \/ VMType = "standard" /\ ~IsVM(i)

\* The answer, and what the look-up remembers.
FindForInstance(i) == IF i \in unowned \/ Omitted(i) THEN Nil ELSE index[i]

LookUp(i) == /\ i \notin unowned /\ Omitted(i)
             /\ unowned' = unowned \cup {i}
             /\ UNCHANGED <<vmss, scaleSets, registered, index, mgrFresh, pc, locals>>

-----------------------------------------------------------------------------
\* createAzureManagerInternal: the first refresh of the cache may have failed;
\* then the explicit groups are registered.
Init == /\ vmss \in [Name -> AnyTags] /\ Unique(vmss)
        /\ \A n \in Name : vmss[n] \in Tags[n]
        /\ scaleSets \in {vmss, [n \in Name |-> Gone]}
        /\ registered = Explicit
        /\ index = Empty
        /\ unowned = {}
        /\ mgrFresh = FALSE
        /\ pc = [t \in Thread |-> "idle"]
        /\ found = [t \in Thread |-> {}]
        /\ todo = [t \in Thread |-> {}]
        /\ changed = [t \in Thread |-> FALSE]
        /\ map = [t \in Thread |-> Empty]

Refreshing(t) ==
  \/ Discover(t) \/ RegisterGroup(t) \/ Compare(t) \/ Unregister(t) \/ Discovered(t)
  \/ FetchOK(t) \/ FetchFails(t) \/ ReadNodes(t) \/ NodesFail(t) \/ Publish(t)

Next == \/ \E n \in Name : Retag(n)
        \/ Refresh \/ invalidateCache
        \/ \E w \in Waiters : forceRefresh(w)
        \/ \E t \in Thread : Refreshing(t)
        \/ \E i \in Inst : LookUp(i)

Spec == Init /\ [][Next]_vars

(* Fairness.  Main refreshes in every loop and the interval elapses; every *)
(* call ends; Azure answers a refresh of Main's now and then.              *)
Fairness == /\ WF_vars(Refresh) /\ WF_vars(invalidateCache)
            /\ SF_vars(FetchOK(Main)) /\ SF_vars(ReadNodes(Main))
            /\ \A t \in Thread : WF_vars(Refreshing(t))

FairSpec == Spec /\ Fairness

-----------------------------------------------------------------------------
(* Properties.                                                             *)

\* Every variable keeps its type.
TypeOK ==
  /\ vmss \in [Name -> AnyTags]
  /\ scaleSets \in [Name -> AnyTags]
  /\ registered \subseteq Group
  /\ index \in [Inst -> Group \cup {Nil}]
  /\ unowned \subseteq Inst
  /\ mgrFresh \in BOOLEAN
  /\ pc \in [Thread -> Label]
  /\ found \in [Thread -> SUBSET Group] /\ todo \in [Thread -> SUBSET Group]
  /\ changed \in [Thread -> BOOLEAN]
  /\ map \in [Thread -> [Inst -> Group \cup {Nil}]]

\* However many refreshes register and unregister at once, no scale set has
\* two registered node groups, which would scale it independently.
NoDuplicates ==
  \A g, h \in registered : EqualFold(g.id, h.id) => g = h

\* An explicitly configured group stays registered with its own minimum and
\* maximum, whatever is discovered and whichever refreshes overlap, until a scale
\* set is discovered whose name is written in another case: the exact names of
\* explicitlyConfigured do not tell that one from it, and Register does not tell
\* it from that one.
ExplicitKept ==
  [][\A g \in Explicit :
       g \in registered /\ g \notin registered'
         => \E h \in registered' : h.id # g.id /\ EqualFold(h.id, g.id)]_vars

\* Every group the autoscaler is given has sizes it can respect.
SizesSane == \A g \in registered : 0 <= g.min /\ g.min <= g.max

\* What is registered is configured or discoverable, and what is discoverable
\* and not configured is registered, itself or as the configured group that has
\* its name in another case.
AsDiscovered ==
  /\ registered \subseteq Explicit \cup getFilteredScaleSets
  /\ \A g \in getFilteredScaleSets :
       explicitlyConfigured(g.id)
         \/ \E h \in registered : EqualFold(h.id, g.id) /\ h \in Explicit \cup {g}

\* Once Azure's scale sets stop changing, the registered groups become and
\* remain the configured and the discoverable ones, though a refresh that
\* looked at an older list may first unregister what a newer one registered.
DiscoveryConverges ==
  <>[][FALSE]_vmss => <>[](scaleSets = vmss /\ AsDiscovered)

\* And then every instance of a registered group is found in it, though it may
\* have been remembered as unowned, or indexed with a group that was replaced.
LookUpConverges ==
  \A i \in Inst :
    <>[][FALSE]_vmss =>
      <>[](\A g \in registered : i \in Nodes(g) => FindForInstance(i) = g)

=============================================================================
