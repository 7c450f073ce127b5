----------------------------- MODULE ArmTemplate -----------------------------
(***************************************************************************)
(* The deployment template that an agent pool redeploys to grow: it is     *)
(* exported when the pool is built and stripped of what a redeployment     *)
(* must not touch (azure_util.go, azure_agent_pool.go).                    *)
(*                                                                         *)
(* A template is the sequence of its resources.  A resource says whether   *)
(* it is a map at all, its type, whether it has a name and whether the     *)
(* name is the masters', what it depends on, which of the nested maps of a *)
(* VM it has, and which of the fields in them that matter.                 *)
(***************************************************************************)
EXTENDS Integers, Sequences, FiniteSets, SequencesExt

\* The nested maps of a well-formed VM, and the fields a master must not carry.
Maps == {"properties", "hardwareProfile", "osProfile", "storageProfile"}
Fields == {"vmSize", "customData", "imageReference"}

\* Resources depend on network security groups, route tables and other things.
Resource ==
    [map : BOOLEAN, type : STRING, named : BOOLEAN, master : BOOLEAN,
     dependsOn : Seq({"nsg", "rt", "other"}), maps : SUBSET Maps, fields : SUBSET Fields]

OfMasters(res) == res.map /\ res.named /\ res.master

(***************************************************************************)
(* removeIndexesFromArray.  The recursion is over the places of the array, *)
(* of which those in `indexes` are removed.                                *)
(***************************************************************************)

\* Mutant: the indexes are not put in descending order first.
removeIndexesFromArrayAscending(array, indexes) ==
    LET after[n \in 0..Len(array)] ==
            IF n > 0 /\ n \in indexes THEN RemoveAt(after[n - 1], n)
            ELSE IF n > 0 THEN after[n - 1] ELSE array
    IN  after[Len(array)]

\* after[n]: what is left when the n last places have been seen to.
removeIndexesFromArray(array, indexes) ==
    LET after[n \in 0..Len(array)] ==
            LET i == Len(array) + 1 - n
            IN  IF n > 0 /\ i \in indexes THEN RemoveAt(after[n - 1], i)
                ELSE IF n > 0 THEN after[n - 1] ELSE array
    IN  after[Len(array)]

\* The elements of a list at the indexes S, in their order.
Those(list, S) ==
    [k \in 1..Cardinality(S) |->
        list[CHOOSE i \in S : Cardinality({j \in S : j <= i}) = k]]

(***************************************************************************)
(* The masters.                                                            *)
(***************************************************************************)

removeCustomData(res) ==
    IF "osProfile" \in res.maps THEN [res EXCEPT !.fields = @ \ {"customData"}] ELSE res

removeImageReference(res) ==
    IF "storageProfile" \in res.maps THEN [res EXCEPT !.fields = @ \ {"imageReference"}]
    ELSE res

\* A master without osProfile keeps its image reference: && short-circuits.
WithoutMasterFields(res) ==
    LET noSize == [res EXCEPT !.fields = @ \ {"vmSize"}]
    IN  IF ~OfMasters(res) \/ res.type # "vm"
           \/ ~({"properties", "hardwareProfile"} \subseteq res.maps)
        THEN res
        ELSE IF "osProfile" \in res.maps
             THEN removeImageReference(removeCustomData(noSize))
             ELSE noSize

normalizeMasterResourcesForScaling(template) ==
    removeIndexesFromArray(
        [i \in DOMAIN template |-> WithoutMasterFields(template[i])],
        {i \in DOMAIN template : OfMasters(template[i]) /\ template[i].type = "extension"})

(***************************************************************************)
(* The whole: network security group and route table go, and so do the     *)
(* dependencies on them.                                                   *)
(***************************************************************************)

IndexesOf(template, type) ==
    {i \in DOMAIN template : template[i].map /\ template[i].type = type}

\* The dependencies are removed in the same way, the last one first.
WithoutNetworkDependencies(res) ==
    IF res.map
    THEN [res EXCEPT !.dependsOn =
             removeIndexesFromArray(@, {i \in DOMAIN @ : @[i] \in {"nsg", "rt"}})]
    ELSE res

normalizeForK8sVMASScalingUp(exported) ==
    LET template == normalizeMasterResourcesForScaling(exported)
        nsg      == IndexesOf(template, "nsg")
        rt       == IndexesOf(template, "rt")
    IN  [err |-> Cardinality(nsg) # 1 \/ Cardinality(rt) > 1,
         template |-> removeIndexesFromArray(
                          [i \in DOMAIN template |-> WithoutNetworkDependencies(template[i])],
                          nsg \cup rt)]

(***************************************************************************)
(* Reference definition.                                                   *)
(***************************************************************************)

WellFormed(res) == res.map /\ res.named /\ (res.type = "vm" => res.maps = Maps)

\* What a redeployment may contain of a template, resource by resource: none that the
\* masters' extensions or the network are, each with its other dependencies only, and
\* the masters without the fields that must not change.
Redeployable(exported) ==
    LET kept == Those(exported, {i \in DOMAIN exported :
                   /\ exported[i].type \notin {"nsg", "rt"}
                   /\ ~(exported[i].type = "extension" /\ exported[i].master)})
    IN  [i \in DOMAIN kept |->
            [kept[i] EXCEPT
                !.dependsOn = Those(@, {j \in DOMAIN @ : @[j] = "other"}),
                !.fields = IF kept[i].type = "vm" /\ kept[i].master THEN {} ELSE @]]
==============================================================================
