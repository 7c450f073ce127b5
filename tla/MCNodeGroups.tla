---------------------------- MODULE MCNodeGroups ----------------------------
(* Instances of NodeGroups for TLC.                                        *)
EXTENDS NodeGroups

\* "A" is the name "a" written otherwise, and the one that Azure has.
MCFold == [n \in Name |-> IF n = "A" THEN "a" ELSE n]

\* One instance, of the Flexible scale set.
MCOwner == [i |-> "A"]

\* Tags that match and give both sizes, only a maximum, and sizes that
\* contradict each other.  "A" comes and goes, and "b" becomes contradictory and
\* is mended again.
Both == [labels |-> {"k"}, min |-> {1}, max |-> {2}]
OnlyMax == [labels |-> {"k"}, min |-> {}, max |-> {1}]
Contradictory == [labels |-> {"k"}, min |-> {2}, max |-> {1}]
MCTags == [n \in Name |-> CASE n = "a" -> {Gone}
                            [] n = "A" -> {Gone, OnlyMax}
                            [] n = "b" -> {Both, Contradictory}
                            [] n = "d" -> {OnlyMax}]

\* A selector without sizes, and one with both.
MCConfigs == {[sel |-> {"k"}, min |-> -1, max |-> -1],
              [sel |-> {"k"}, min |-> 0, max |-> 3]}

\* --nodes names two of them.  Both are discovered too, the one of them as "A".
MCExplicit == {[id |-> "a", min |-> 0, max |-> 3], [id |-> "d", min |-> 0, max |-> 3]}

=============================================================================
