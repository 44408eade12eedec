----------------------------- MODULE Rendering ------------------------------
(***************************************************************************)
(* internal/render/render.go: from the patch of a spec to a contribution,  *)
(* an object and the paths in it that are claimed.                         *)
(***************************************************************************)
EXTENDS FieldPaths

\* collectLeaves: an element of a list with a merge key is known by that key.
ElementSegment(text, e, i, mergeKeys) ==
    IF text \in DOMAIN mergeKeys /\ IsMap(e) /\ mergeKeys[text] \in DOMAIN e.of
    THEN KeySegment(mergeKeys[text], e.of[mergeKeys[text]].val)
    ELSE IndexSegment(i - 1)

RECURSIVE CollectLeaves(_, _, _)

\* collectLeaves: scalars, empty containers and keyed elements.
CollectLeaves(n, prefix, mergeKeys) ==
    IF n.kind = "leaf" \/ n.of = <<>>
    THEN {prefix} \ {<<>>}
    ELSE IF IsMap(n)
    THEN UNION {CollectLeaves(n.of[m], Append(prefix, FieldSegment(m)), mergeKeys) :
                    m \in DOMAIN n.of}
    ELSE UNION {LET s == ElementSegment(String(prefix), n.of[i], i, mergeKeys) IN
                IF IsKeyMatch(s) THEN {Append(prefix, s)}
                ELSE CollectLeaves(n.of[i], Append(prefix, s), mergeKeys) :
                    i \in DOMAIN n.of}

\* LeafPaths, sortPaths: the order is fixed, whichever it is.
LeafPaths(fields, mergeKeys) == SetToSeq(CollectLeaves(fields, <<>>, mergeKeys))

\* pathFromJSONPointer: an appended element is taken for the first.  Tokens that
\* are numbers are not modelled.
PathFromJSONPointer(ptr) ==
    [i \in DOMAIN ptr |->
        IF ptr[i] = <<"-">> THEN IndexSegment(0) ELSE FieldSegment(ptr[i])]

\* renderJSON6902, seedFor: the additions, made on a document that has nothing but
\* the parents they need.
AddTo(n, op) ==
    LET p == PathFromJSONPointer(op.path)
        l == Get(n, Front(p))
    IN  IF Last(op.path) # <<"-">> THEN SetIn(n, p, op.val)
        ELSE SetIn(n, Front(p), List(Append(IF l = Mistake THEN <<>> ELSE l.of, op.val)))

RenderJSON6902(ops) ==
    [object |-> FoldLeft(AddTo, EmptyMap, ops),
     paths |-> SetToSeq({PathFromJSONPointer(ops[i].path) : i \in DOMAIN ops})]

\* Render: a patch is a partial object or a list of operations.
Render(patch) ==
    IF "ops" \in DOMAIN patch THEN RenderJSON6902(patch.ops)
    ELSE [object |-> patch.fields, paths |-> LeafPaths(patch.fields, patch.mergeKeys)]

=============================================================================
