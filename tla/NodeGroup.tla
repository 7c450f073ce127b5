----------------------------- MODULE NodeGroup -----------------------------
(***************************************************************************)
(* What a node group promises the autoscaler about its nodes, whichever    *)
(* way it is implemented (the methods IncreaseSize, DeleteNodes and        *)
(* MaxSize of cloudprovider.NodeGroup, as azure_agent_pool.go keeps them): *)
(* nodes appear only while an increase is under way and never beyond the   *)
(* maximum, and disappear only when their deletion was asked for.          *)
(***************************************************************************)
EXTENDS Naturals, FiniteSets

CONSTANTS
  Node,     \* the nodes there may be
  MaxSize   \* MaxSize()

VARIABLES
  nodes,    \* the nodes there are
  growing,  \* an increase is under way
  asked,    \* the nodes whose deletion was asked for and has not ended
  unwatched \* nobody vouches for the maximum (any more)

vars == <<nodes, growing, asked, unwatched>>

Init == /\ nodes \subseteq Node
        /\ growing \in BOOLEAN
        /\ asked = {}
        /\ unwatched \in BOOLEAN
        /\ unwatched \/ Cardinality(nodes) <= MaxSize

IncreaseSize == /\ growing' \in BOOLEAN
                /\ UNCHANGED <<nodes, asked, unwatched>>

\* Some of the nodes of an increase appear; it may go on or end with that.
Grow == /\ growing
        /\ growing' \in BOOLEAN
        /\ nodes \subseteq nodes' /\ nodes' \subseteq Node
        /\ unwatched' \in {unwatched, TRUE}
        /\ unwatched' \/ Cardinality(nodes') <= MaxSize
        /\ UNCHANGED asked

DeleteNodes == /\ asked \subseteq asked' /\ asked' \subseteq Node
               /\ UNCHANGED <<nodes, growing, unwatched>>

\* A deletion goes on: some of its nodes are gone, or it ends, be it because it
\* has failed.
Shrink == /\ nodes' \subseteq nodes /\ nodes \ nodes' \subseteq asked
          /\ asked' \subseteq asked
          /\ UNCHANGED <<growing, unwatched>>

Next == IncreaseSize \/ Grow \/ DeleteNodes \/ Shrink

Spec == Init /\ [][Next]_vars

=============================================================================
