---------------------------- MODULE MCClientSide ----------------------------
(***************************************************************************)
(* Instances of ClientSide: an object with two labels and a list of rules  *)
(* that are known by their host.                                           *)
(***************************************************************************)
EXTENDS ClientSide, Rendering

Rule(h, v) == Map(<<"host">> :> Leaf(h) @@ <<"to">> :> Leaf(v))
Labels(f) == <<"labels">> :> Map(f)
Rules(s) == <<"rules">> :> List(s)
MergeKeys == <<Word("rules")>> :> <<"host">>
Keyed(fields) == [fields |-> Map(fields), mergeKeys |-> MergeKeys]

MCOriginal ==
    Map(Labels(<<"x">> :> Leaf("1") @@ <<"y">> :> Leaf("1")) @@ Rules(<<Rule("z", "1")>>))
MCForeignPath == <<FieldSegment(<<"labels">>), FieldSegment(<<"y">>)>>
MCForeignValues == {Leaf("1"), Leaf("2")}

\* The first overrides a label and may own a rule; the second owns a rule whose
\* value changes, and may add a field under a parent that is not there.
MCPatches ==
    <<{Keyed(Labels(<<"x">> :> Leaf("2")) @@ Rules(<<Rule("a", "1")>>)),
       Keyed(Labels(<<"x">> :> Leaf("3"))),
       Keyed(Labels(<<"x">> :> Leaf("2")))},
      {Keyed(Rules(<<Rule("b", "1")>>)),
       Keyed(Rules(<<Rule("b", "2")>>) @@ <<"spec">> :> Map(<<"n">> :> Leaf("1"))),
       [ops |-> <<[path |-> <<<<"spec">>, <<"n">>>>, val |-> Leaf("2")]>>]}>>

MCRendered == [h \in UNION {Patches[c] : c \in Contributors} |-> Render(h)]

MCOthers ==
    CollectLeaves(Original, <<>>, MergeKeys) \ (AllClaimable \cup {ForeignPath})

\* Everything the two patches, their withdrawal and the foreign writes can make of
\* the target, the order of the rules included.
LabelTrees ==
    {Labels(f @@ <<"y">> :> y) : f \in {<<>>} \cup {<<"x">> :> Leaf(v) : v \in {"1", "2", "3"}},
                                 y \in MCForeignValues}
RuleTrees ==
    LET a == Rule("a", "1")
        bs == {Rule("b", "1"), Rule("b", "2")}
    IN  {Rules(<<Rule("z", "1")>> \o s) :
            s \in {<<>>, <<a>>} \cup {<<b>> : b \in bs} \cup {<<a, b>> : b \in bs}
                    \cup {<<b, a>> : b \in bs}}
SpecTrees == {<<>>} \cup {<<"spec">> :> Map(<<"n">> :> Leaf(v)) : v \in {"1", "2"}}
MCTrees == {Map(l @@ r @@ s) : l \in LabelTrees, r \in RuleTrees, s \in SpecTrees}

\* A label whose name has a dot in it.
DottedPatches ==
    <<{Keyed(Labels(<<"app", "io">> :> Leaf("2")))}>>

=============================================================================
