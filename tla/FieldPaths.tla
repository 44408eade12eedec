----------------------------- MODULE FieldPaths -----------------------------
(***************************************************************************)
(* internal/render/fieldpath.go: objects as trees, paths into them, and    *)
(* what reading, setting, deleting and storing a path does.                *)
(*                                                                         *)
(* A name is the sequence of its dot-separated words, so that <<"a", "b">>  *)
(* is the key "a.b" of a map.  The text of a path is the sequence of its   *)
(* words and brackets: writing it puts a dot between two names and between *)
(* the words of one name alike.                                            *)
(***************************************************************************)
EXTENDS Integers, Sequences, SequencesExt

(* Trees *)

Leaf(v) == [kind |-> "leaf", val |-> v]
Map(f) == [kind |-> "map", of |-> f]
List(s) == [kind |-> "list", of |-> s]
EmptyMap == Map(<<>>)
Mistake == [kind |-> "mistake"]

IsMap(n) == n.kind = "map"
IsList(n) == n.kind = "list"

With(n, name, v) ==
    Map([m \in DOMAIN n.of \cup {name} |-> IF m = name THEN v ELSE n.of[m]])
Without(n, name) == Map([m \in DOMAIN n.of \ {name} |-> n.of[m]])

(* Paths *)

FieldSegment(name) == [field |-> name]
IndexSegment(i) == [index |-> i]
KeySegment(k, v) == [key |-> k, value |-> v]

IsField(s) == "field" \in DOMAIN s
IsIndex(s) == "index" \in DOMAIN s
IsKeyMatch(s) == "key" \in DOMAIN s

Word(w) == [word |-> w]

\* Path.String
SegmentText(s) ==
    IF IsField(s) THEN [i \in DOMAIN s.field |-> Word(s.field[i])] ELSE <<s>>
String(p) == FlattenSeq([i \in DOMAIN p |-> SegmentText(p[i])])

\* Parse: a word is a name of its own, a bracket is what it was.
Parse(text) ==
    [i \in DOMAIN text |->
        IF "word" \in DOMAIN text[i] THEN FieldSegment(<<text[i].word>>) ELSE text[i]]

-----------------------------------------------------------------------------
(* Get, Set and Delete *)

\* findByKey: the first element with this value in this field, or 0.
FindByKey(l, k, v) ==
    SelectInSeq(l, LAMBDA e : IsMap(e) /\ k \in DOMAIN e.of /\ e.of[k] = Leaf(v))

\* The position a list segment selects, or 0.
Position(l, s) ==
    IF IsKeyMatch(s) THEN FindByKey(l, s.key, s.value)
    ELSE IF IsIndex(s) /\ s.index < Len(l) THEN s.index + 1 ELSE 0

\* The child a segment selects, or a mistake.
Child(n, s) ==
    IF IsField(s) /\ IsMap(n) /\ s.field \in DOMAIN n.of THEN n.of[s.field]
    ELSE IF ~IsField(s) /\ IsList(n) /\ Position(n.of, s) # 0
         THEN n.of[Position(n.of, s)]
    ELSE Mistake

Get(n, p) ==
    LET at[i \in 0..Len(p)] == IF i = 0 THEN n ELSE Child(at[i - 1], p[i])
    IN  at[Len(p)]
Has(n, p) == Get(n, p) # Mistake

\* emptyFor
EmptyFor(s) == IF IsField(s) THEN EmptyMap ELSE List(<<>>)

\* setInList: the element that is made when the list has none, carrying its key.
Element(s) == IF IsKeyMatch(s) THEN With(EmptyMap, s.key, Leaf(s.value)) ELSE EmptyMap

Grown(l, s) ==
    IF Position(l, s) # 0 THEN l
    ELSE IF IsKeyMatch(s) THEN Append(l, Element(s))
    ELSE l \o [i \in 1..(s.index + 1 - Len(l)) |-> Element(s)]

\* What s selects, made when it is missing; next is what it has to hold.
Below(n, s, next) ==
    IF Child(n, s) # Mistake THEN Child(n, s)
    ELSE IF IsField(s) THEN EmptyFor(next) ELSE Element(s)

\* n with child where s selects; a container of the wrong kind is a mistake.
Put(n, s, child) ==
    IF child # Mistake /\ IsField(s) /\ IsMap(n) THEN With(n, s.field, child)
    ELSE IF child # Mistake /\ ~IsField(s) /\ IsList(n)
    THEN LET l == Grown(n.of, s) IN List([l EXCEPT ![Position(l, s)] = child])
    ELSE Mistake

\* Set, setIn, setInList: down the path, making missing parents, and up again.
SetIn(n, p, v) ==
    LET down[i \in 1..Len(p)] == IF i = 1 THEN n ELSE Below(down[i - 1], p[i - 1], p[i])
        up[i \in 1..(Len(p) + 1)] ==
            IF i > Len(p) THEN v ELSE Put(down[i], p[i], up[i + 1])
    IN  up[1]

\* n without the child s selects.
Cut(n, s) ==
    IF IsField(s) THEN Without(n, s.field)
    ELSE List(RemoveAt(n.of, Position(n.of, s)))

\* deleteIn, deleteInList, of something that is there.
DeleteIn(n, p) ==
    LET parent(i) == Get(n, SubSeq(p, 1, i - 1))
        up[i \in 1..Len(p)] ==
            IF i = Len(p) THEN Cut(parent(i), p[i]) ELSE Put(parent(i), p[i], up[i + 1])
    IN  up[1]

\* Mutant: the parent goes whether it is empty or not.
PruneEmpty_Any(n, p) == IF Len(p) > 1 THEN DeleteIn(n, Front(p)) ELSE n

\* pruneEmpty: the parents of p that are empty maps now, deepest first.  Above one
\* that is something else there is none that is empty.
PruneEmpty(n, p) ==
    LET pruned[i \in 1..Len(p)] ==
            IF i = Len(p) THEN n
            ELSE LET m == pruned[i + 1]
                     parent == SubSeq(p, 1, i)
                 IN  IF Get(m, parent) = EmptyMap THEN DeleteIn(m, parent) ELSE m
    IN  pruned[1]

Delete(n, p) == IF Has(n, p) THEN PruneEmpty(DeleteIn(n, p), p) ELSE n

=============================================================================
