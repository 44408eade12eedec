-------------------------- MODULE FieldPathsProofs --------------------------
(***************************************************************************)
(* What Get, Set, Delete and the text of a path do, for every object.      *)
(*                                                                         *)
(* The code walks down a path and back up.  Here a walk is a function from *)
(* the positions of the path to what is met there, and what holds along it *)
(* is shown by induction on the position.  No induction on objects is      *)
(* needed: each step looks at one node and its children.                   *)
(***************************************************************************)
EXTENDS FieldPaths, WellFoundedInduction, TLAPS

\* Every nonempty set of naturals has a least element.
LEMMA LeastNatural ==
    ASSUME NEW T, T \subseteq Nat, T # {}
    PROVE  \E m \in T : \A n \in T : m <= n
<1>1. IsWellFoundedOn(OpToRel(<, Nat), Nat)
  BY NatLessThanWellFounded
<1>2. PICK m \in T : \A n \in T : <<n, m>> \notin OpToRel(<, Nat)
  BY <1>1, WFMin
<1>3. \A n \in T : ~(n < m)
  BY <1>2 DEF OpToRel
<1> QED
  BY <1>3

(* One segment *)

\* A segment selects by name, by number, or by the value of a key.
IsSegment(s) ==
    \/ IsField(s)
    \/ ~IsField(s) /\ IsKeyMatch(s)
    \/ ~IsField(s) /\ ~IsKeyMatch(s) /\ IsIndex(s) /\ s.index \in Nat

\* What is put where s selects is what s selects.
Carries(c, s) ==
    ~IsField(s) /\ IsKeyMatch(s) =>
        IsMap(c) /\ s.key \in DOMAIN c.of /\ c.of[s.key] = Leaf(s.value)

ListIsSequence(n) == IsList(n) => \E T : n.of \in Seq(T)

\* Two segments that can never select the same.
Apart(s, r) ==
    \/ IsField(s) /\ IsField(r) /\ s.field # r.field
    \/ /\ ~IsField(s) /\ ~IsField(r) /\ IsKeyMatch(s) /\ IsKeyMatch(r)
       /\ s.key = r.key /\ s.value # r.value

Matches(e, k, v) == IsMap(e) /\ k \in DOMAIN e.of /\ e.of[k] = Leaf(v)

LEMMA MinIn ==
    ASSUME NEW I, I \subseteq Nat, I # {}
    PROVE  Min(I) \in I /\ \A i \in I : Min(I) <= i
<1>1. \E m \in I : \A n \in I : m <= n
  BY LeastNatural
<1> QED
  BY <1>1 DEF Min

\* findByKey
LEMMA Found ==
    ASSUME NEW T, NEW l \in Seq(T), NEW k, NEW v
    PROVE  LET I == {i \in 1..Len(l) : Matches(l[i], k, v)}
               f == FindByKey(l, k, v)
           IN  /\ I = {} => f = 0
               /\ I # {} => f = Min(I) /\ f \in I /\ \A i \in I : f <= i
<1> DEFINE I == {i \in 1..Len(l) : Matches(l[i], k, v)}
<1>1. I = {i \in 1..Len(l) : IsMap(l[i]) /\ k \in DOMAIN l[i].of /\ l[i].of[k] = Leaf(v)}
  BY DEF Matches
<1>2. FindByKey(l, k, v) = IF I # {} THEN Min(I) ELSE 0
  BY <1>1 DEF FindByKey, SelectInSeq
<1>3. I \subseteq Nat
  OBVIOUS
<1> HIDE DEF I
<1>4. I # {} => Min(I) \in I /\ \A i \in I : Min(I) <= i
  BY <1>3, MinIn
<1> QED
  BY <1>2, <1>4 DEF I

\* setInList: the list, with the element that s selects.
LEMMA GrownLaw ==
    ASSUME NEW T, NEW l \in Seq(T), NEW s, IsSegment(s), ~IsField(s)
    PROVE  LET g == Grown(l, s)
               j == Position(g, s)
           IN  /\ \E U : g \in Seq(U)
               /\ Len(l) <= Len(g) /\ \A i \in 1..Len(l) : g[i] = l[i]
               /\ j \in 1..Len(g)
               /\ IsKeyMatch(s) =>
                    /\ Matches(g[j], s.key, s.value)
                    /\ \A i \in 1..Len(g) : i <= Len(l) \/ Matches(g[i], s.key, s.value)
               /\ ~IsKeyMatch(s) => j = s.index + 1
<1> DEFINE g == Grown(l, s)
           j == Position(g, s)
<1>1. CASE IsKeyMatch(s) /\ Position(l, s) # 0
  <2>1. g = l
    BY <1>1 DEF Grown
  <2>2. Position(l, s) = FindByKey(l, s.key, s.value)
    BY <1>1 DEF Position
  <2>3. Position(l, s) \in 1..Len(l) /\ Matches(l[Position(l, s)], s.key, s.value)
    BY <1>1, <2>2, Found
  <2> QED
    BY <1>1, <2>1, <2>3
<1>2. CASE IsKeyMatch(s) /\ Position(l, s) = 0
  <2>1. g = Append(l, Element(s))
    BY <1>2 DEF Grown
  <2>2. Matches(Element(s), s.key, s.value)
    BY <1>2 DEF Element, With, EmptyMap, Matches, IsMap, Map
  <2> HIDE DEF g
  <2>3. g \in Seq(T \cup {Element(s)}) /\ Len(g) = Len(l) + 1 /\ g[Len(g)] = Element(s)
        /\ \A i \in 1..Len(l) : g[i] = l[i]
    <3>1. l \in Seq(T \cup {Element(s)})
      OBVIOUS
    <3> QED
      BY <2>1, <3>1
  <2>4. j = FindByKey(g, s.key, s.value)
    BY <1>2 DEF Position
  <2>5. Len(g) \in 1..Len(g) /\ Matches(g[Len(g)], s.key, s.value)
    BY <2>2, <2>3
  <2>6. j \in 1..Len(g) /\ Matches(g[j], s.key, s.value)
    <3> DEFINE I == {i \in 1..Len(g) : Matches(g[i], s.key, s.value)}
    <3>1. Len(g) \in I
      BY <2>5
    <3>2. I # {} => FindByKey(g, s.key, s.value) \in I
      BY <2>3, Found
    <3> QED
      BY <2>4, <3>1, <3>2
  <2>7. \A i \in 1..Len(g) : i <= Len(l) \/ i = Len(g)
    BY <2>3
  <2>8. Len(l) <= Len(g)
    BY <2>3
  <2> QED
    BY <1>2, <2>3, <2>5, <2>6, <2>7, <2>8 DEF g
<1>3. CASE ~IsKeyMatch(s) /\ Position(l, s) # 0
  <2>1. g = l /\ IsIndex(s) /\ s.index \in Nat
    BY <1>3 DEF Grown, IsSegment
  <2>2. Position(l, s) = s.index + 1 /\ s.index < Len(l)
    BY <1>3, <2>1 DEF Position
  <2>3. s.index + 1 \in 1..Len(l)
    BY <2>1, <2>2
  <2> QED
    BY <1>3, <2>1, <2>2, <2>3
<1>4. CASE ~IsKeyMatch(s) /\ Position(l, s) = 0
  <2>1. IsIndex(s) /\ s.index \in Nat
    BY <1>4 DEF IsSegment
  <2>2. ~(s.index < Len(l))
    BY <1>4, <2>1 DEF Position
  <2> DEFINE more == [i \in 1..(s.index + 1 - Len(l)) |-> Element(s)]
  <2>3. g = l \o more
    BY <1>4 DEF Grown
  <2>4. s.index + 1 - Len(l) \in Nat
    BY <2>1, <2>2
  <2>5. more \in Seq({Element(s)}) /\ Len(more) = s.index + 1 - Len(l)
    BY <2>4
  <2> HIDE DEF g, more
  <2>6. g \in Seq(T \cup {Element(s)}) /\ Len(g) = s.index + 1
        /\ \A i \in 1..Len(l) : g[i] = l[i]
    <3>1. l \in Seq(T \cup {Element(s)}) /\ more \in Seq(T \cup {Element(s)})
      BY <2>5
    <3>2. Len(g) = Len(l) + Len(more)
      BY <2>3, <3>1
    <3> QED
      BY <2>1, <2>3, <2>5, <3>1, <3>2
  <2>7. j = s.index + 1
    BY <1>4, <2>1, <2>6 DEF Position
  <2> QED
    BY <1>4, <2>1, <2>2, <2>6, <2>7 DEF g
<1> QED
  BY <1>1, <1>2, <1>3, <1>4

\* setInList, the last step: g is l grown, with c where s selects.
Replaced(l, s, c) == [Grown(l, s) EXCEPT ![Position(Grown(l, s), s)] = c]

LEMMA ReplacedLaw ==
    ASSUME NEW T, NEW l \in Seq(T), NEW s, IsSegment(s), ~IsField(s), NEW c, Carries(c, s)
    PROVE  LET m == Replaced(l, s, c)
               j == Position(Grown(l, s), s)
           IN  /\ \E U : m \in Seq(U)
               /\ j \in 1..Len(m) /\ m[j] = c
               /\ Len(l) <= Len(m)
               /\ \A i \in 1..Len(l) : i # j => m[i] = l[i]
               /\ Position(m, s) = j
               /\ IsKeyMatch(s) => \A i \in 1..Len(m) :
                    (i > Len(l) \/ i = j) => Matches(m[i], s.key, s.value)
               /\ IsKeyMatch(s) /\ j <= Len(l) => Matches(l[j], s.key, s.value)
<1> DEFINE g == Grown(l, s)
           j == Position(g, s)
           m == Replaced(l, s, c)
<1>1. PICK U : g \in Seq(U)
  BY GrownLaw
<1>2. /\ Len(l) <= Len(g) /\ \A i \in 1..Len(l) : g[i] = l[i]
      /\ j \in 1..Len(g)
      /\ IsKeyMatch(s) =>
            /\ Matches(g[j], s.key, s.value)
            /\ \A i \in 1..Len(g) : i <= Len(l) \/ Matches(g[i], s.key, s.value)
      /\ ~IsKeyMatch(s) => j = s.index + 1
  BY GrownLaw
<1>3. m = [g EXCEPT ![j] = c]
  BY DEF Replaced
<1>4. Len(l) \in Nat /\ Len(g) \in Nat
  BY <1>1
<1>5. IsKeyMatch(s) => j = FindByKey(g, s.key, s.value)
  BY DEF Position
<1>6. IsKeyMatch(s) => Matches(c, s.key, s.value)
  BY DEF Carries, Matches
<1> HIDE DEF g, j, m
<1>7. /\ m \in Seq(U \cup {c}) /\ Len(m) = Len(g) /\ m[j] = c
      /\ \A i \in 1..Len(g) : i # j => m[i] = g[i]
  BY <1>1, <1>2, <1>3
<1>8. Position(m, s) = j
  <2>1. CASE IsKeyMatch(s)
    <3> DEFINE I == {i \in 1..Len(g) : Matches(g[i], s.key, s.value)}
               K == {i \in 1..Len(m) : Matches(m[i], s.key, s.value)}
    <3>1. I = K
      BY <1>2, <1>6, <1>7, <2>1
    <3>2. j \in I
      BY <1>2, <2>1
    <3>3. FindByKey(g, s.key, s.value) = Min(I)
      BY <1>1, <3>2, Found
    <3>4. FindByKey(m, s.key, s.value) = Min(K)
      BY <1>7, <3>1, <3>2, Found
    <3> QED
      BY <1>5, <2>1, <3>1, <3>3, <3>4 DEF Position
  <2>2. CASE ~IsKeyMatch(s)
    <3>1. IsIndex(s) /\ s.index \in Nat
      BY <2>2 DEF IsSegment
    <3>2. s.index < Len(m)
      BY <1>2, <1>4, <1>7, <2>2, <3>1
    <3> QED
      BY <1>2, <2>2, <3>1, <3>2 DEF Position
  <2> QED
    BY <2>1, <2>2
<1>9. j \in 1..Len(m) /\ Len(l) <= Len(m)
  BY <1>2, <1>7
<1>10. \A i \in 1..Len(l) : i # j => m[i] = l[i]
  BY <1>2, <1>4, <1>7
<1>11. IsKeyMatch(s) => \A i \in 1..Len(m) : (i > Len(l) \/ i = j) => Matches(m[i], s.key, s.value)
  BY <1>2, <1>4, <1>6, <1>7
<1>12. IsKeyMatch(s) /\ j <= Len(l) => Matches(l[j], s.key, s.value)
  BY <1>2, <1>4
<1> QED
  BY <1>7, <1>8, <1>9, <1>10, <1>11, <1>12 DEF g, j, m

\* What was put where s selects is selected by s.
LEMMA ChildPut ==
    ASSUME NEW n, NEW s, NEW c, ListIsSequence(n), IsSegment(s), Carries(c, s),
           Put(n, s, c) # Mistake
    PROVE  c # Mistake /\ Child(Put(n, s, c), s) = c
<1>1. c # Mistake
  BY DEF Put
<1>2. CASE IsField(s)
  <2>1. IsMap(n) /\ Put(n, s, c) = With(n, s.field, c)
    BY <1>1, <1>2 DEF Put
  <2> QED
    BY <1>1, <1>2, <2>1 DEF Child, With, Map, IsMap
<1>3. CASE ~IsField(s)
  <2>1. IsList(n) /\ Put(n, s, c) = List(Replaced(n.of, s, c))
    BY <1>1, <1>3 DEF Put, Replaced
  <2>2. PICK T : n.of \in Seq(T)
    BY <2>1 DEF ListIsSequence
  <2> DEFINE m == Replaced(n.of, s, c)
             j == Position(Grown(n.of, s), s)
  <2>3. Position(m, s) = j /\ j \in 1..Len(m) /\ m[j] = c
    BY <1>3, <2>2, ReplacedLaw
  <2> HIDE DEF m, j
  <2>4. j # 0
    BY <2>3
  <2> QED
    BY <1>1, <1>3, <2>1, <2>3, <2>4 DEF Child, List, IsList, IsMap, m
<1> QED
  BY <1>1, <1>2, <1>3

\* What was put where s selects does not change what a segment apart from s selects.
LEMMA PutApart ==
    ASSUME NEW n, NEW s, NEW r, NEW c, ListIsSequence(n), IsSegment(s), Carries(c, s),
           Put(n, s, c) # Mistake, Apart(s, r)
    PROVE  Child(Put(n, s, c), r) = Child(n, r)
<1>1. c # Mistake
  BY DEF Put
<1>2. CASE IsField(s)
  <2>1. IsMap(n) /\ Put(n, s, c) = With(n, s.field, c)
    BY <1>1, <1>2 DEF Put
  <2>2. IsField(r) /\ s.field # r.field
    BY <1>2 DEF Apart
  <2> QED
    BY <1>2, <2>1, <2>2 DEF Child, With, Map, IsMap
<1>3. CASE ~IsField(s)
  <2>1. IsList(n) /\ Put(n, s, c) = List(Replaced(n.of, s, c))
    BY <1>1, <1>3 DEF Put, Replaced
  <2>2. PICK T : n.of \in Seq(T)
    BY <2>1 DEF ListIsSequence
  <2>3. ~IsField(r) /\ IsKeyMatch(s) /\ IsKeyMatch(r) /\ s.key = r.key /\ s.value # r.value
    BY <1>3 DEF Apart
  <2> DEFINE l == n.of
             m == Replaced(l, s, c)
             j == Position(Grown(l, s), s)
             I == {i \in 1..Len(l) : Matches(l[i], r.key, r.value)}
             K == {i \in 1..Len(m) : Matches(m[i], r.key, r.value)}
  <2>4. PICK U : m \in Seq(U)
    BY <1>3, <2>2, ReplacedLaw
  <2>5. /\ j \in 1..Len(m) /\ Len(l) <= Len(m)
        /\ \A i \in 1..Len(l) : i # j => m[i] = l[i]
        /\ \A i \in 1..Len(m) : (i > Len(l) \/ i = j) => Matches(m[i], s.key, s.value)
        /\ j <= Len(l) => Matches(l[j], s.key, s.value)
    BY <1>3, <2>2, <2>3, ReplacedLaw
  <2>6. \A e : Matches(e, s.key, s.value) => ~Matches(e, r.key, r.value)
    BY <2>3 DEF Matches, Leaf
  <2>7. Len(l) \in Nat /\ Len(m) \in Nat
    BY <2>2, <2>4
  <2> HIDE DEF m, j
  <2>8. I = K
    BY <2>5, <2>6, <2>7
  <2>9. Position(l, r) = FindByKey(l, r.key, r.value) /\ Position(m, r) = FindByKey(m, r.key, r.value)
    BY <2>3 DEF Position
  <2>10. Position(m, r) = Position(l, r) /\ (Position(l, r) = 0 \/ Position(l, r) \in I)
    <3>1. I = {} => FindByKey(l, r.key, r.value) = 0
      BY <2>2, Found
    <3>2. I # {} => FindByKey(l, r.key, r.value) = Min(I) /\ FindByKey(l, r.key, r.value) \in I
      BY <2>2, Found
    <3>3. K = {} => FindByKey(m, r.key, r.value) = 0
      BY <2>4, Found
    <3>4. K # {} => FindByKey(m, r.key, r.value) = Min(K)
      BY <2>4, Found
    <3> HIDE DEF I, K
    <3> QED
      BY <2>8, <2>9, <3>1, <3>2, <3>3, <3>4
  <2>11. Position(l, r) # 0 => m[Position(l, r)] = l[Position(l, r)]
    <3>1. \A i \in I : i \in 1..Len(l) /\ i # j
      BY <2>5, <2>6
    <3> HIDE DEF I
    <3> QED
      BY <2>5, <2>10, <3>1
  <2> HIDE DEF I, K
  <2> QED
    BY <2>1, <2>3, <2>10, <2>11 DEF Child, List, IsList, IsMap, m
<1> QED
  BY <1>2, <1>3

-----------------------------------------------------------------------------
(* Along a path *)

\* What holds at 0 and is carried on holds up to k.
LEMMA CarriedOn ==
    ASSUME NEW k \in Nat, NEW S, 0 \in S, \A i \in 1..k : i - 1 \in S => i \in S
    PROVE  \A i \in 0..k : i \in S
<1> DEFINE Bad == (0..k) \ S
<1>1. SUFFICES ASSUME Bad # {} PROVE FALSE
  OBVIOUS
<1>2. PICK j \in Bad : \A i \in Bad : j <= i
  <2>1. Bad \subseteq Nat
    OBVIOUS
  <2> QED
    BY <1>1, <2>1, LeastNatural
<1>3. j \in 1..k /\ j - 1 \in 0..k /\ j - 1 \notin Bad
  BY <1>2
<1> QED
  BY <1>2, <1>3

\* at is the way from n along p.
IsWalk(at, n, p) == at[0] = n /\ \A i \in 1..Len(p) : at[i] = Child(at[i - 1], p[i])

\* Get ends where the way along its path ends.
LEMMA GetWalk ==
    ASSUME NEW n, NEW p, Len(p) \in Nat
    PROVE  \E at : IsWalk(at, n, p) /\ Get(n, p) = at[Len(p)]
<1> DEFINE k == Len(p)
           Eqn(at, j) == at = [i \in 0..j |-> IF i = 0 THEN n ELSE Child(at[i - 1], p[i])]
           S == {j \in 0..k : \E at : Eqn(at, j)}
<1>1. 0 \in S
  <2> DEFINE at == [i \in 0..0 |-> n]
  <2>1. Eqn(at, 0)
    OBVIOUS
  <2> HIDE DEF Eqn
  <2> QED
    BY <2>1
<1>2. ASSUME NEW j \in 1..k, j - 1 \in S
      PROVE  j \in S
  <2>1. PICK at : Eqn(at, j - 1)
    BY <1>2
  <2> DEFINE next == [i \in 0..j |-> IF i < j THEN at[i] ELSE Child(at[j - 1], p[j])]
             e(i) == IF i = 0 THEN n ELSE Child(next[i - 1], p[i])
  <2>2. \A i \in 0..(j - 1) : at[i] = IF i = 0 THEN n ELSE Child(at[i - 1], p[i])
    BY <2>1
  <2>3. ASSUME NEW i \in 0..j
        PROVE  next[i] = e(i)
    <3>1. CASE i = 0
      BY <2>2, <3>1
    <3>2. CASE i # 0
      <4>1. i - 1 \in 0..j /\ i - 1 < j
        BY <3>2
      <4>2. next[i - 1] = at[i - 1]
        BY <4>1
      <4>3. CASE i < j
        <5>1. next[i] = at[i] /\ i \in 0..(j - 1)
          BY <4>3
        <5> HIDE DEF next
        <5> QED
          BY <2>2, <3>2, <4>2, <5>1
      <4>4. CASE i = j
        <5>1. next[j] = Child(at[j - 1], p[j])
          OBVIOUS
        <5> HIDE DEF next
        <5> QED
          BY <3>2, <4>2, <4>4, <5>1
      <4>5. i < j \/ i = j
        OBVIOUS
      <4> QED
        BY <4>3, <4>4, <4>5
    <3> QED
      BY <3>1, <3>2
  <2>4. next = [i \in 0..j |-> next[i]]
    OBVIOUS
  <2>5. [i \in 0..j |-> next[i]] = [i \in 0..j |-> e(i)]
    <3> HIDE DEF e, next
    <3> QED
      BY <2>3
  <2>6. next = [i \in 0..j |-> e(i)]
    BY <2>4, <2>5
  <2> HIDE DEF next
  <2>7. Eqn(next, j)
    BY <2>6
  <2> HIDE DEF Eqn
  <2> QED
    BY <2>7
<1>3. \E at : Eqn(at, k)
  <2> HIDE DEF Eqn
  <2>1. k \in 0..k
    OBVIOUS
  <2> HIDE DEF S, k
  <2>2. k \in S
    BY <1>1, <1>2, <2>1, CarriedOn DEF k
  <2> QED
    BY <2>2 DEF S
<1>4. Get(n, p) = (CHOOSE at : Eqn(at, k))[k]
  BY DEF Get
<1>5. PICK at : Eqn(at, k) /\ Get(n, p) = at[k]
  <2> HIDE DEF Eqn
  <2> QED
    BY <1>3, <1>4
<1>6. \A i \in 0..k : at[i] = IF i = 0 THEN n ELSE Child(at[i - 1], p[i])
  BY <1>5
<1>7. IsWalk(at, n, p)
  BY <1>6 DEF IsWalk
<1> HIDE DEF Eqn
<1> QED
  BY <1>5, <1>7

\* Two ways along q that meet end in the same place.
LEMMA SameWay ==
    ASSUME NEW m, NEW n, NEW q, Len(q) \in Nat, NEW new, NEW old, IsWalk(new, m, q),
           IsWalk(old, n, q), NEW k \in 1..Len(q), new[k] = old[k]
    PROVE  new[Len(q)] = old[Len(q)]
<1> DEFINE S == {i \in 0..Len(q) : i >= k => new[i] = old[i]}
<1>1. 0 \in S
  OBVIOUS
<1>2. ASSUME NEW i \in 1..Len(q), i - 1 \in S
      PROVE  i \in S
  <2>1. CASE i <= k
    BY <2>1
  <2>2. CASE i > k
    <3>1. new[i - 1] = old[i - 1]
      BY <1>2, <2>2
    <3> QED
      BY <3>1 DEF IsWalk
  <2> QED
    BY <2>1, <2>2
<1>3. Len(q) \in S
  <2>1. Len(q) \in 0..Len(q)
    OBVIOUS
  <2> HIDE DEF S
  <2> QED
    BY <1>1, <1>2, <2>1, CarriedOn
<1> QED
  BY <1>3

\* down and up are the two ways of Set.
IsSetWalk(down, up, n, p, v) ==
    /\ down[1] = n
    /\ \A i \in 2..Len(p) : down[i] = Below(down[i - 1], p[i - 1], p[i])
    /\ up[Len(p) + 1] = v
    /\ \A i \in 1..Len(p) : up[i] = Put(down[i], p[i], up[i + 1])

LEMMA SetWalk ==
    ASSUME NEW n, NEW p, NEW v, Len(p) \in Nat, Len(p) # 0
    PROVE  \E down, up : IsSetWalk(down, up, n, p, v) /\ SetIn(n, p, v) = up[1]
<1> DEFINE k == Len(p)
           Down(f, j) == f = [i \in 1..j |->
                                IF i = 1 THEN n ELSE Below(f[i - 1], p[i - 1], p[i])]
           S == {j \in 0..k : \E f : Down(f, j)}
<1>1. 0 \in S
  <2> DEFINE f == [i \in 1..0 |-> n]
  <2>1. Down(f, 0)
    OBVIOUS
  <2> HIDE DEF Down
  <2> QED
    BY <2>1
<1>2. ASSUME NEW j \in 1..k, j - 1 \in S
      PROVE  j \in S
  <2>1. PICK f : Down(f, j - 1)
    BY <1>2
  <2> DEFINE last == IF j = 1 THEN n ELSE Below(f[j - 1], p[j - 1], p[j])
             next == [i \in 1..j |-> IF i < j THEN f[i] ELSE last]
             e(i) == IF i = 1 THEN n ELSE Below(next[i - 1], p[i - 1], p[i])
  <2>2. \A i \in 1..(j - 1) : f[i] = IF i = 1 THEN n ELSE Below(f[i - 1], p[i - 1], p[i])
    BY <2>1
  <2>3. ASSUME NEW i \in 1..j
        PROVE  next[i] = e(i)
    <3>1. i # 1 => next[i - 1] = f[i - 1]
      <4>1. i # 1 => i - 1 \in 1..j /\ i - 1 < j
        OBVIOUS
      <4> QED
        BY <4>1
    <3>2. CASE i < j
      <4>1. next[i] = f[i] /\ i \in 1..(j - 1)
        BY <3>2
      <4> HIDE DEF next
      <4> QED
        BY <2>2, <3>1, <4>1
    <3>3. CASE i = j
      <4>1. next[j] = last
        OBVIOUS
      <4> HIDE DEF next
      <4> QED
        BY <3>1, <3>3, <4>1
    <3>4. i < j \/ i = j
      OBVIOUS
    <3> QED
      BY <3>2, <3>3, <3>4
  <2>4. next = [i \in 1..j |-> next[i]]
    OBVIOUS
  <2>5. [i \in 1..j |-> next[i]] = [i \in 1..j |-> e(i)]
    <3> HIDE DEF e, next
    <3> QED
      BY <2>3
  <2>6. next = [i \in 1..j |-> e(i)]
    BY <2>4, <2>5
  <2> HIDE DEF next
  <2>7. Down(next, j)
    BY <2>6
  <2> HIDE DEF Down
  <2> QED
    BY <2>7
<1>3. \E f : Down(f, k)
  <2> HIDE DEF Down
  <2>1. k \in 0..k
    OBVIOUS
  <2> HIDE DEF S, k
  <2>2. k \in S
    BY <1>1, <1>2, <2>1, CarriedOn DEF k
  <2> QED
    BY <2>2 DEF S
<1> DEFINE down == CHOOSE f : Down(f, k)
<1>4. Down(down, k)
  <2> HIDE DEF Down, k
  <2> QED
    BY <1>3
<1>5. down[1] = n /\ \A i \in 2..k : down[i] = Below(down[i - 1], p[i - 1], p[i])
  <2>1. \A i \in 1..k : down[i] = IF i = 1 THEN n ELSE Below(down[i - 1], p[i - 1], p[i])
    <3> HIDE DEF down
    <3> QED
      BY <1>4
  <2> HIDE DEF down
  <2> QED
    BY <2>1
<1> HIDE DEF down
<1> DEFINE Up(f, j) == f = [i \in (k + 1 - j)..(k + 1) |->
                                IF i > k THEN v ELSE Put(down[i], p[i], f[i + 1])]
           R == {j \in 0..k : \E f : Up(f, j)}
<1>6. 0 \in R
  <2> DEFINE f == [i \in (k + 1 - 0)..(k + 1) |-> v]
  <2>1. Up(f, 0)
    OBVIOUS
  <2> HIDE DEF Up
  <2> QED
    BY <2>1
<1>7. ASSUME NEW j \in 1..k, j - 1 \in R
      PROVE  j \in R
  <2>1. PICK f : Up(f, j - 1)
    BY <1>7
  <2> DEFINE l == k + 1 - j
             D == l..(k + 1)
             last == Put(down[l], p[l], f[l + 1])
             next == [i \in D |-> IF i > l THEN f[i] ELSE last]
             e(i) == IF i > k THEN v ELSE Put(down[i], p[i], next[i + 1])
  <2>2. \A i \in (l + 1)..(k + 1) : f[i] = IF i > k THEN v ELSE Put(down[i], p[i], f[i + 1])
    <3>1. k + 1 - (j - 1) = l + 1
      OBVIOUS
    <3> QED
      BY <2>1, <3>1
  <2>3. ASSUME NEW i \in D
        PROVE  next[i] = e(i)
    <3>1. i <= k => next[i + 1] = f[i + 1]
      <4>1. i <= k => i + 1 \in D /\ i + 1 > l
        OBVIOUS
      <4> QED
        BY <4>1
    <3>2. CASE i > l
      <4>1. next[i] = f[i] /\ i \in (l + 1)..(k + 1)
        BY <3>2
      <4>2. i > k \/ i <= k
        OBVIOUS
      <4> HIDE DEF next
      <4> QED
        BY <2>2, <3>1, <4>1, <4>2
    <3>3. CASE i = l
      <4>1. next[i] = last /\ i <= k /\ ~(i > k)
        BY <3>3
      <4> HIDE DEF next
      <4> QED
        BY <3>1, <3>3, <4>1
    <3>4. i > l \/ i = l
      OBVIOUS
    <3> QED
      BY <3>2, <3>3, <3>4
  <2>4. next = [i \in D |-> next[i]]
    OBVIOUS
  <2>5. [i \in D |-> next[i]] = [i \in D |-> e(i)]
    <3> HIDE DEF e, next, D
    <3> QED
      BY <2>3
  <2>6. next = [i \in D |-> e(i)]
    BY <2>4, <2>5
  <2> HIDE DEF next
  <2>7. Up(next, j)
    BY <2>6
  <2> HIDE DEF Up
  <2> QED
    BY <2>7
<1>8. \E f : Up(f, k)
  <2> HIDE DEF Up
  <2>1. k \in 0..k
    OBVIOUS
  <2> HIDE DEF R, k
  <2>2. k \in R
    BY <1>6, <1>7, <2>1, CarriedOn DEF k
  <2> QED
    BY <2>2 DEF R
<1>9. k + 1 - k = 1
  OBVIOUS
<1>10. SetIn(n, p, v) = (CHOOSE f : Up(f, k))[1]
  BY <1>9 DEF SetIn, down
<1>11. PICK up : Up(up, k) /\ SetIn(n, p, v) = up[1]
  <2> HIDE DEF Up
  <2> QED
    BY <1>8, <1>10
<1>12. up[k + 1] = v /\ \A i \in 1..k : up[i] = Put(down[i], p[i], up[i + 1])
  <2>1. \A i \in 1..(k + 1) : up[i] = IF i > k THEN v ELSE Put(down[i], p[i], up[i + 1])
    BY <1>9, <1>11
  <2> QED
    BY <2>1
<1>13. IsSetWalk(down, up, n, p, v)
  BY <1>5, <1>12 DEF IsSetWalk
<1> HIDE DEF Up, k
<1> QED
  BY <1>11, <1>13

-----------------------------------------------------------------------------
(* Set *)

\* Nodes holds the children of its members, and lists are sequences.
AreNodes(Nodes) ==
    \A n \in Nodes :
        /\ IsMap(n) => \A f \in DOMAIN n.of : n.of[f] \in Nodes
        /\ IsList(n) => n.of \in Seq(Nodes)

\* A path as collectLeaves and pathFromJSONPointer make them: an element that is
\* known by its key is claimed as a whole, and carries that key.
IsClaim(p, v) ==
    /\ Len(p) \in Nat \ {0}
    /\ \A i \in 1..Len(p) : IsSegment(p[i])
    /\ \A i \in 1..(Len(p) - 1) : IsField(p[i]) \/ ~IsKeyMatch(p[i])
    /\ Carries(v, p[Len(p)])

\* p and q part at k.
PartAt(p, q, k) ==
    /\ k \in 1..Len(p) /\ k \in 1..Len(q)
    /\ \A i \in 1..(k - 1) : p[i] = q[i]
    /\ Apart(p[k], q[k])

Fresh == {EmptyMap, List(<<>>)}

LEMMA NothingBelow ==
    ASSUME NEW s, IsSegment(s)
    PROVE  Child(Mistake, s) = Mistake /\ \A n \in Fresh : Child(n, s) = Mistake
<1>1. Child(Mistake, s) = Mistake
  BY DEF Child, Mistake, IsMap, IsList
<1>2. Child(EmptyMap, s) = Mistake
  BY DEF Child, EmptyMap, Map, IsMap, IsList
<1>3. Child(List(<<>>), s) = Mistake
  <2>1. CASE IsField(s)
    BY <2>1 DEF Child, List, IsMap, IsList
  <2>2. CASE ~IsField(s)
    <3>1. Position(<<>>, s) = 0
      <4>1. CASE IsKeyMatch(s)
        <5>1. {i \in 1..Len(<<>>) : Matches(<<>>[i], s.key, s.value)} = {}
          OBVIOUS
        <5>2. <<>> \in Seq({})
          OBVIOUS
        <5> QED
          BY <4>1, <5>1, <5>2, Found DEF Position
      <4>2. CASE ~IsKeyMatch(s)
        BY <2>2, <4>2 DEF Position, IsSegment
      <4> QED
        BY <4>1, <4>2
    <3> QED
      BY <2>2, <3>1 DEF Child, List, IsList, IsMap
  <2> QED
    BY <2>1, <2>2
<1> QED
  BY <1>1, <1>2, <1>3 DEF Fresh

LEMMA ChildIn ==
    ASSUME NEW Nodes, AreNodes(Nodes), NEW n \in Nodes, NEW s, IsSegment(s)
    PROVE  Child(n, s) \in Nodes \cup {Mistake}
<1>1. CASE IsField(s)
  BY <1>1 DEF Child, AreNodes
<1>2. CASE ~IsField(s) /\ IsList(n) /\ Position(n.of, s) # 0
  <2>1. n.of \in Seq(Nodes)
    BY <1>2 DEF AreNodes
  <2>2. Grown(n.of, s) = n.of
    BY <1>2 DEF Grown
  <2>3. Position(Grown(n.of, s), s) \in 1..Len(Grown(n.of, s))
    BY <1>2, <2>1, GrownLaw
  <2>4. Position(n.of, s) \in 1..Len(n.of)
    BY <2>2, <2>3
  <2>5. n.of[Position(n.of, s)] \in Nodes
    BY <2>1, <2>4
  <2> QED
    BY <1>2, <2>5 DEF Child
<1>3. CASE ~IsField(s) /\ ~(IsList(n) /\ Position(n.of, s) # 0)
  BY <1>3 DEF Child
<1> QED
  BY <1>1, <1>2, <1>3

LEMMA BelowIn ==
    ASSUME NEW Nodes, AreNodes(Nodes), NEW n \in Nodes \cup Fresh, NEW s, IsSegment(s),
           IsField(s) \/ ~IsKeyMatch(s), NEW next
    PROVE  /\ Child(n, s) = Mistake => Below(n, s, next) \in Fresh
           /\ Child(n, s) # Mistake => Below(n, s, next) = Child(n, s)
           /\ Below(n, s, next) \in Nodes \cup Fresh
<1>1. Child(n, s) \in Nodes \cup {Mistake}
  BY ChildIn, NothingBelow
<1>2. Child(n, s) = Mistake => Below(n, s, next) \in Fresh
  BY DEF Below, EmptyFor, Element, Fresh
<1>3. Child(n, s) # Mistake => Below(n, s, next) = Child(n, s)
  BY DEF Below
<1> QED
  BY <1>1, <1>2, <1>3

LEMMA NodeListIsSequence ==
    ASSUME NEW Nodes, AreNodes(Nodes), NEW n \in Nodes \cup Fresh
    PROVE  ListIsSequence(n)
<1>1. CASE n \in Nodes
  BY <1>1 DEF AreNodes, ListIsSequence
<1>2. CASE n = EmptyMap
  BY <1>2 DEF EmptyMap, Map, IsList, ListIsSequence
<1>3. CASE n = List(<<>>)
  <2>1. n.of \in Seq({})
    BY <1>3 DEF List
  <2> QED
    BY <2>1 DEF ListIsSequence
<1> QED
  BY <1>1, <1>2, <1>3 DEF Fresh

\* The way down, and that nothing goes wrong on the way up.
LEMMA SetWays ==
    ASSUME NEW Nodes, AreNodes(Nodes), NEW n \in Nodes, NEW p, NEW v, IsClaim(p, v),
           NEW down, NEW up, IsSetWalk(down, up, n, p, v), up[1] # Mistake
    PROVE  /\ \A i \in 1..Len(p) : down[i] \in Nodes \cup Fresh
           /\ \A i \in 1..(Len(p) + 1) : up[i] # Mistake
           /\ \A i \in 1..Len(p) : ListIsSequence(down[i]) /\ Carries(up[i + 1], p[i])
<1> DEFINE k == Len(p)
           S == {i \in 0..k : i \in 1..k => down[i] \in Nodes \cup Fresh}
           R == {i \in 0..k : up[i + 1] # Mistake}
<1>1. k \in Nat \ {0}
  BY DEF IsClaim
<1>2. \A i \in 0..k : i \in S
  <2>1. 0 \in S
    BY <1>1
  <2>2. ASSUME NEW i \in 1..k, i - 1 \in S
        PROVE  i \in S
    <3>1. CASE i = 1
      BY <1>1, <3>1 DEF IsSetWalk
    <3>2. CASE i # 1
      <4>1. i \in 2..k /\ i - 1 \in 1..(k - 1) /\ i - 1 \in 1..k /\ i \in 0..k
        BY <1>1, <3>2
      <4>2. down[i - 1] \in Nodes \cup Fresh
        BY <2>2, <4>1
      <4>3. IsSegment(p[i - 1]) /\ (IsField(p[i - 1]) \/ ~IsKeyMatch(p[i - 1]))
        BY <4>1 DEF IsClaim
      <4>4. down[i] = Below(down[i - 1], p[i - 1], p[i])
        BY <4>1 DEF IsSetWalk
      <4>5. down[i] \in Nodes \cup Fresh
        BY <4>2, <4>3, <4>4, BelowIn
      <4> QED
        BY <4>1, <4>5
    <3> QED
      BY <3>1, <3>2
  <2> HIDE DEF S, k
  <2> QED
    BY <1>1, <2>1, <2>2, CarriedOn
<1>3. \A i \in 0..k : i \in R
  <2>1. 0 \in R
    BY <1>1
  <2>2. ASSUME NEW i \in 1..k, i - 1 \in R
        PROVE  i \in R
    <3>1. up[(i - 1) + 1] # Mistake /\ (i - 1) + 1 = i
      BY <2>2
    <3>2. up[i] = Put(down[i], p[i], up[i + 1])
      BY DEF IsSetWalk
    <3>3. up[i + 1] # Mistake
      BY <3>1, <3>2 DEF Put
    <3> QED
      BY <1>1, <3>3
  <2> HIDE DEF R, k
  <2> QED
    BY <1>1, <2>1, <2>2, CarriedOn
<1>4. \A i \in 1..(k + 1) : up[i] # Mistake
  <2>1. \A i \in 1..(k + 1) : i - 1 \in 0..k /\ (i - 1) + 1 = i
    BY <1>1
  <2> QED
    BY <1>3, <2>1
<1>5. \A i \in 1..k : down[i] \in Nodes \cup Fresh
  BY <1>1, <1>2
<1>6. \A i \in 1..k : ListIsSequence(down[i])
  BY <1>5, NodeListIsSequence
<1>7. ASSUME NEW i \in 1..k
      PROVE  Carries(up[i + 1], p[i])
  <2>1. CASE i = k
    BY <2>1 DEF IsSetWalk, IsClaim
  <2>2. CASE i # k
    <3>1. i \in 1..(k - 1)
      BY <1>1, <2>2
    <3> QED
      BY <3>1 DEF IsClaim, Carries
  <2> QED
    BY <2>1, <2>2
<1> QED
  BY <1>4, <1>5, <1>6, <1>7

\* Where Set does not fail, Get finds what it has set: for every object and every
\* path, of names, numbers and merge keys (fieldpath.go: Set, setIn, setInList, Get).
THEOREM SetThenGet ==
    ASSUME NEW Nodes, AreNodes(Nodes), NEW n \in Nodes, NEW p, NEW v, IsClaim(p, v),
           SetIn(n, p, v) # Mistake
    PROVE  Get(SetIn(n, p, v), p) = v
<1> DEFINE k == Len(p)
           m == SetIn(n, p, v)
<1>1. k \in Nat \ {0}
  BY DEF IsClaim
<1>2. PICK down, up : IsSetWalk(down, up, n, p, v) /\ m = up[1]
  BY <1>1, SetWalk
<1>3. PICK at : IsWalk(at, m, p) /\ Get(m, p) = at[k]
  BY <1>1, GetWalk
<1> HIDE DEF m
<1>4. /\ \A i \in 1..(k + 1) : up[i] # Mistake
      /\ \A i \in 1..k : ListIsSequence(down[i]) /\ Carries(up[i + 1], p[i])
  <2>1. up[1] # Mistake
    BY <1>2 DEF m
  <2> QED
    BY <1>2, <2>1, SetWays
<1> DEFINE S == {i \in 0..k : at[i] = up[i + 1]}
<1>5. 0 \in S
  BY <1>1, <1>2, <1>3 DEF IsWalk
<1>6. ASSUME NEW i \in 1..k, i - 1 \in S
      PROVE  i \in S
  <2>1. at[i - 1] = up[i]
    <3>1. (i - 1) + 1 = i
      OBVIOUS
    <3> QED
      BY <1>6, <3>1
  <2>2. up[i] = Put(down[i], p[i], up[i + 1]) /\ up[i] # Mistake
    BY <1>1, <1>2, <1>4 DEF IsSetWalk
  <2>3. Child(up[i], p[i]) = up[i + 1]
    BY <1>4, <2>2, ChildPut DEF IsClaim
  <2>4. at[i] = Child(at[i - 1], p[i])
    BY <1>3 DEF IsWalk
  <2> QED
    BY <1>1, <2>1, <2>3, <2>4
<1>7. k \in S
  <2> HIDE DEF S, k
  <2>1. k \in 0..k
    BY <1>1
  <2> QED
    BY <1>1, <1>5, <1>6, <2>1, CarriedOn
<1> QED
  BY <1>2, <1>3, <1>7 DEF IsSetWalk, m

\* The way down is the way Get goes, until something is missing.
LEMMA DownIsWalk ==
    ASSUME NEW Nodes, AreNodes(Nodes), NEW n \in Nodes, NEW p, NEW v, IsClaim(p, v),
           NEW down, NEW up, IsSetWalk(down, up, n, p, v), up[1] # Mistake,
           NEW q, NEW k, PartAt(p, q, k), NEW at, IsWalk(at, n, q)
    PROVE  down[k] = at[k - 1] \/ (at[k - 1] = Mistake /\ down[k] \in Fresh)
<1> DEFINE Meets(i) == down[i + 1] = at[i] \/ (at[i] = Mistake /\ down[i + 1] \in Fresh)
           S == {i \in 0..(k - 1) : Meets(i)}
<1>1. k \in 1..Len(p) /\ k \in 1..Len(q) /\ k - 1 \in Nat /\ Len(p) \in Nat /\ Len(q) \in Int
  BY DEF PartAt, IsClaim
<1>2. 0 \in S
  BY <1>1 DEF IsSetWalk, IsWalk
<1>3. ASSUME NEW i \in 1..(k - 1), i - 1 \in S
      PROVE  i \in S
  <2>1. i + 1 \in 2..Len(p) /\ i \in 1..Len(p) /\ i \in 1..(Len(p) - 1) /\ i \in 1..Len(q)
    BY <1>1
  <2>2. /\ down[i + 1] = Below(down[i], p[i], p[i + 1])
        /\ at[i] = Child(at[i - 1], p[i])
    <3>1. (i + 1) - 1 = i
      OBVIOUS
    <3>2. p[i] = q[i]
      BY DEF PartAt
    <3> QED
      BY <2>1, <3>1, <3>2 DEF IsSetWalk, IsWalk
  <2>3. down[i] = at[i - 1] \/ (at[i - 1] = Mistake /\ down[i] \in Fresh)
    <3>1. (i - 1) + 1 = i
      OBVIOUS
    <3> QED
      BY <1>3, <3>1
  <2>4. down[i] \in Nodes \cup Fresh
    BY <2>1, SetWays
  <2>5. IsSegment(p[i]) /\ (IsField(p[i]) \/ ~IsKeyMatch(p[i]))
    BY <2>1 DEF IsClaim
  <2>6. /\ Child(down[i], p[i]) = Mistake => down[i + 1] \in Fresh
        /\ Child(down[i], p[i]) # Mistake => down[i + 1] = Child(down[i], p[i])
    BY <2>2, <2>4, <2>5, BelowIn
  <2>7. Meets(i)
    <3>1. CASE down[i] = at[i - 1]
      BY <2>2, <2>6, <3>1
    <3>2. CASE at[i - 1] = Mistake /\ down[i] \in Fresh
      BY <2>2, <2>5, <2>6, <3>2, NothingBelow
    <3> QED
      BY <2>3, <3>1, <3>2
  <2> HIDE DEF Meets
  <2> QED
    BY <1>1, <2>7
<1>4. k - 1 \in S
  <2> DEFINE j == k - 1
  <2>1. j \in Nat /\ j \in 0..j
    BY <1>1
  <2> HIDE DEF S, Meets
  <2>2. \A i \in 1..j : i - 1 \in S => i \in S
    BY <1>3
  <2> HIDE DEF j
  <2>3. j \in S
    BY <1>2, <2>1, <2>2, CarriedOn
  <2> QED
    BY <2>3 DEF j
<1>5. (k - 1) + 1 = k
  BY <1>1
<1> QED
  BY <1>4, <1>5

\* Set leaves alone what is found along a path that parts from its own: a name of the
\* same map, or an element of the same list with another key (fieldpath.go: Set).
THEOREM SetKeepsOthers ==
    ASSUME NEW Nodes, AreNodes(Nodes), NEW n \in Nodes, NEW p, NEW v, IsClaim(p, v),
           SetIn(n, p, v) # Mistake,
           NEW q, Len(q) \in Nat, \A i \in 1..Len(q) : IsSegment(q[i]),
           NEW k, PartAt(p, q, k)
    PROVE  Get(SetIn(n, p, v), q) = Get(n, q)
<1> DEFINE m == SetIn(n, p, v)
<1>1. k \in 1..Len(p) /\ k \in 1..Len(q) /\ Len(p) \in Nat \ {0}
  BY DEF PartAt, IsClaim
<1>2. PICK down, up : IsSetWalk(down, up, n, p, v) /\ m = up[1]
  BY <1>1, SetWalk
<1>3. PICK new : IsWalk(new, m, q) /\ Get(m, q) = new[Len(q)]
  BY GetWalk
<1>4. PICK old : IsWalk(old, n, q) /\ Get(n, q) = old[Len(q)]
  BY GetWalk
<1>5. up[1] # Mistake
  BY <1>2
<1> HIDE DEF m
<1>6. /\ \A i \in 1..(Len(p) + 1) : up[i] # Mistake
      /\ \A i \in 1..Len(p) : ListIsSequence(down[i]) /\ Carries(up[i + 1], p[i])
  BY <1>2, <1>5, SetWays
<1>7. \A i \in 1..Len(p) : up[i] = Put(down[i], p[i], up[i + 1]) /\ IsSegment(p[i])
  BY <1>2 DEF IsSetWalk, IsClaim
<1> DEFINE S == {i \in 0..(k - 1) : new[i] = up[i + 1]}
<1>8. 0 \in S
  BY <1>1, <1>2, <1>3 DEF IsWalk
<1>9. ASSUME NEW i \in 1..(k - 1), i - 1 \in S
      PROVE  i \in S
  <2>1. i \in 1..Len(p) /\ i \in 1..Len(q) /\ p[i] = q[i] /\ i \in 1..(Len(p) + 1) /\ (i - 1) + 1 = i
    BY <1>1 DEF PartAt
  <2>2. new[i - 1] = up[i]
    BY <1>9, <2>1
  <2>3. Child(up[i], p[i]) = up[i + 1]
    BY <1>6, <1>7, <2>1, ChildPut
  <2>4. new[i] = Child(new[i - 1], p[i])
    BY <1>3, <2>1 DEF IsWalk
  <2> QED
    BY <1>1, <2>2, <2>3, <2>4
<1>10. new[k - 1] = up[k]
  <2> DEFINE j == k - 1
  <2>1. j \in Nat /\ j \in 0..j /\ j + 1 = k
    BY <1>1
  <2>2. \A i \in 1..j : i - 1 \in S => i \in S
    <3> HIDE DEF S
    <3> QED
      BY <1>9
  <2>3. j \in S
    <3> HIDE DEF S, j
    <3> QED
      BY <1>8, <2>1, <2>2, CarriedOn
  <2> QED
    BY <2>1, <2>3
<1>11. new[k] = old[k]
  <2>1. new[k] = Child(up[k], q[k]) /\ old[k] = Child(old[k - 1], q[k])
    BY <1>1, <1>3, <1>4, <1>10 DEF IsWalk
  <2>2. Child(up[k], q[k]) = Child(down[k], q[k])
    <3>1. up[k] # Mistake /\ Apart(p[k], q[k])
      BY <1>1, <1>6 DEF PartAt
    <3> QED
      BY <1>1, <1>6, <1>7, <3>1, PutApart
  <2>3. down[k] = old[k - 1] \/ (old[k - 1] = Mistake /\ down[k] \in Fresh)
    BY <1>2, <1>4, <1>5, DownIsWalk
  <2>4. IsSegment(q[k])
    BY <1>1
  <2> QED
    BY <2>1, <2>2, <2>3, <2>4, NothingBelow
<1>12. new[Len(q)] = old[Len(q)]
  BY <1>1, <1>3, <1>4, <1>11, SameWay
<1> QED
  BY <1>3, <1>4, <1>12 DEF m

-----------------------------------------------------------------------------
(* Delete *)

\* An element that is known by its key is the only one that has it.
OnlyOne(l, s) ==
    /\ l \in Seq(Range(l))
    /\ \A i, j \in 1..Len(l) :
        Matches(l[i], s.key, s.value) /\ Matches(l[j], s.key, s.value) => i = j

Singles(n, s) == IsField(s) \/ (IsKeyMatch(s) /\ (IsList(n) => OnlyOne(n.of, s)))

\* A list without its j-th element.
LEMMA Removed ==
    ASSUME NEW T, NEW l \in Seq(T), NEW j \in 1..Len(l)
    PROVE  LET m == RemoveAt(l, j) IN
           /\ m \in Seq(T) /\ Len(m) = Len(l) - 1
           /\ \A i \in 1..(j - 1) : m[i] = l[i]
           /\ \A i \in j..(Len(l) - 1) : m[i] = l[i + 1]
<1> DEFINE a == SubSeq(l, 1, j - 1)
           b == SubSeq(l, j + 1, Len(l))
<1>1. a \in Seq(T) /\ Len(a) = j - 1 /\ \A i \in 1..(j - 1) : a[i] = l[i]
  OBVIOUS
<1>2. b \in Seq(T) /\ Len(b) = Len(l) - j /\ \A i \in 1..(Len(l) - j) : b[i] = l[i + j]
  OBVIOUS
<1> DEFINE m == RemoveAt(l, j)
<1>3. m = a \o b
  BY DEF RemoveAt
<1> HIDE DEF a, b, m
<1>4. m \in Seq(T) /\ Len(m) = Len(l) - 1
  BY <1>1, <1>2, <1>3
<1>5. \A i \in 1..(j - 1) : m[i] = l[i]
  BY <1>1, <1>2, <1>3
<1>6. ASSUME NEW i \in j..(Len(l) - 1)
      PROVE  m[i] = l[i + 1]
  <2>1. i - Len(a) \in 1..Len(b) /\ (i - Len(a)) + j = i + 1 /\ i \in 1..(Len(a) + Len(b)) /\ i > Len(a)
    BY <1>1, <1>2
  <2>2. m[i] = b[i - Len(a)]
    BY <1>1, <1>2, <1>3, <2>1
  <2> QED
    BY <1>2, <2>1, <2>2
<1> QED
  BY <1>4, <1>5, <1>6 DEF m

LEMMA CutOwn ==
    ASSUME NEW n, NEW s, IsSegment(s), Singles(n, s), Child(n, s) # Mistake
    PROVE  Cut(n, s) # Mistake /\ Child(Cut(n, s), s) = Mistake
<1>1. CASE IsField(s)
  BY <1>1 DEF Cut, Without, Map, Mistake, Child, IsMap
<1>2. CASE ~IsField(s)
  <2>1. IsList(n) /\ Position(n.of, s) # 0 /\ IsKeyMatch(s)
    BY <1>2 DEF Child, Singles
  <2> DEFINE l == n.of
             j == Position(l, s)
             m == RemoveAt(l, j)
  <2>2. PICK T : l \in Seq(T)
    BY <1>2, <2>1 DEF Singles, OnlyOne
  <2>3. \A i, h \in 1..Len(l) :
            Matches(l[i], s.key, s.value) /\ Matches(l[h], s.key, s.value) => i = h
    BY <1>2, <2>1 DEF Singles, OnlyOne
  <2>4. j = FindByKey(l, s.key, s.value)
    BY <2>1 DEF Position
  <2>5. j \in 1..Len(l) /\ Matches(l[j], s.key, s.value)
    BY <2>1, <2>2, <2>4, Found
  <2>6. Cut(n, s) = List(m)
    BY <1>2 DEF Cut
  <2>7. /\ m \in Seq(T) /\ Len(m) = Len(l) - 1
        /\ \A i \in 1..(j - 1) : m[i] = l[i]
        /\ \A i \in j..(Len(l) - 1) : m[i] = l[i + 1]
    BY <2>2, <2>5, Removed
  <2> HIDE DEF j, m
  <2>8. Len(l) \in Nat
    BY <2>2
  <2>9. {i \in 1..Len(m) : Matches(m[i], s.key, s.value)} = {}
    <3>1. SUFFICES ASSUME NEW i \in 1..Len(m), Matches(m[i], s.key, s.value) PROVE FALSE
      OBVIOUS
    <3>2. CASE i < j
      BY <2>3, <2>5, <2>7, <2>8, <3>1, <3>2
    <3>3. CASE i >= j
      <4>1. i \in j..(Len(l) - 1) /\ i + 1 \in 1..Len(l) /\ i + 1 # j
        BY <2>5, <2>7, <2>8, <3>3
      <4> QED
        BY <2>3, <2>5, <2>7, <3>1, <4>1
    <3> QED
      BY <2>5, <3>2, <3>3
  <2>10. Position(m, s) = 0
    BY <2>1, <2>7, <2>9, Found DEF Position
  <2> QED
    BY <1>2, <2>6, <2>10 DEF Child, List, IsList, IsMap, Mistake
<1> QED
  BY <1>1, <1>2

LEMMA CutApart ==
    ASSUME NEW n, NEW s, NEW r, IsSegment(s), Singles(n, s), Child(n, s) # Mistake, Apart(s, r)
    PROVE  Child(Cut(n, s), r) = Child(n, r)
<1>1. CASE IsField(s)
  <2>1. IsMap(n) /\ IsField(r) /\ s.field # r.field
    BY <1>1 DEF Child, Apart
  <2> QED
    BY <1>1, <2>1 DEF Cut, Without, Map, Child, IsMap
<1>2. CASE ~IsField(s)
  <2>1. IsList(n) /\ Position(n.of, s) # 0 /\ IsKeyMatch(s)
    BY <1>2 DEF Child, Singles
  <2>2. ~IsField(r) /\ IsKeyMatch(r) /\ s.key = r.key /\ s.value # r.value
    BY <1>2 DEF Apart
  <2> DEFINE l == n.of
             j == Position(l, s)
             m == RemoveAt(l, j)
             I == {i \in 1..Len(l) : Matches(l[i], r.key, r.value)}
             K == {i \in 1..Len(m) : Matches(m[i], r.key, r.value)}
             a == FindByKey(l, r.key, r.value)
             b == FindByKey(m, r.key, r.value)
  <2>3. PICK T : l \in Seq(T)
    BY <1>2, <2>1 DEF Singles, OnlyOne
  <2>4. j = FindByKey(l, s.key, s.value)
    BY <2>1 DEF Position
  <2>5. j \in 1..Len(l) /\ Matches(l[j], s.key, s.value)
    BY <2>1, <2>3, <2>4, Found
  <2>6. Cut(n, s) = List(m)
    BY <1>2 DEF Cut
  <2>7. /\ m \in Seq(T) /\ Len(m) = Len(l) - 1
        /\ \A i \in 1..(j - 1) : m[i] = l[i]
        /\ \A i \in j..(Len(l) - 1) : m[i] = l[i + 1]
    BY <2>3, <2>5, Removed
  <2>8. ~Matches(l[j], r.key, r.value)
    BY <2>2, <2>5 DEF Matches, Leaf
  <2>9. Position(l, r) = a /\ Position(m, r) = b
    BY <2>2 DEF Position
  <2>10. /\ I = {} => a = 0
         /\ I # {} => a \in I /\ \A i \in I : a <= i
    BY <2>3, Found
  <2>11. /\ K = {} => b = 0
         /\ K # {} => b \in K /\ \A i \in K : b <= i
    BY <2>7, Found
  <2>12. Len(l) \in Nat
    BY <2>3
  <2> HIDE DEF j, m, a, b
  <2>13. \A i \in I : /\ i < j => i \in K /\ m[i] = l[i]
                      /\ i > j => i - 1 \in K /\ m[i - 1] = l[i]
                      /\ i # j
    <3>1. ASSUME NEW i \in I
          PROVE  /\ i < j => i \in K /\ m[i] = l[i]
                 /\ i > j => i - 1 \in K /\ m[i - 1] = l[i]
                 /\ i # j
      <4>1. CASE i < j
        <5>1. i \in 1..(j - 1) /\ i \in 1..Len(m)
          BY <2>5, <2>7, <2>12, <4>1
        <5> QED
          BY <2>5, <2>7, <4>1, <5>1
      <4>2. CASE i > j
        <5>1. i - 1 \in j..(Len(l) - 1) /\ i - 1 \in 1..Len(m) /\ (i - 1) + 1 = i
          BY <2>5, <2>7, <2>12, <4>2
        <5>2. m[i - 1] = l[i]
          BY <2>7, <5>1
        <5> QED
          BY <2>5, <4>2, <5>1, <5>2
      <4>3. i # j
        BY <2>8
      <4> QED
        BY <2>5, <4>1, <4>2, <4>3
    <3> QED
      BY <3>1
  <2>14. \A i \in K : (i < j /\ i \in I) \/ (i >= j /\ i + 1 \in I)
    <3>1. ASSUME NEW i \in K
          PROVE  (i < j /\ i \in I) \/ (i >= j /\ i + 1 \in I)
      <4>1. CASE i < j
        BY <2>5, <2>7, <2>12, <4>1
      <4>2. CASE i >= j
        <5>1. i \in j..(Len(l) - 1) /\ i + 1 \in 1..Len(l)
          BY <2>5, <2>7, <2>12, <4>2
        <5> QED
          BY <2>7, <4>2, <5>1
      <4> QED
        BY <2>5, <4>1, <4>2
    <3> QED
      BY <3>1
  <2>15. I \subseteq 1..Len(l) /\ K \subseteq 1..Len(m)
    OBVIOUS
  <2> HIDE DEF I, K
  <2>16. CASE I = {}
    <3>1. K = {}
      BY <2>14, <2>16
    <3> QED
      BY <2>1, <2>2, <2>6, <2>9, <2>10, <2>11, <2>16, <3>1 DEF Child, List, IsList, IsMap
  <2>17. CASE I # {}
    <3>1. a \in I /\ \A i \in I : a <= i
      BY <2>10, <2>17
    <3>2. K # {}
      <4>1. a < j \/ a > j
        BY <2>5, <2>13, <2>15, <3>1
      <4> QED
        BY <2>13, <3>1, <4>1
    <3>3. b \in K /\ \A i \in K : b <= i
      BY <2>11, <3>2
    <3>4. a \in Nat \ {0} /\ b \in Nat \ {0} /\ j \in Nat /\ I \subseteq Nat /\ K \subseteq Nat
      BY <2>5, <2>7, <2>12, <2>15, <3>1, <3>3
    <3>5. m[b] = l[a]
      <4>1. CASE a < j
        <5>1. a \in K /\ m[a] = l[a] /\ b <= a
          BY <2>13, <3>1, <3>3, <4>1
        <5>2. b \in I
          BY <2>14, <3>3, <3>4, <4>1, <5>1
        <5>3. a = b
          BY <3>1, <3>4, <5>1, <5>2
        <5> QED
          BY <5>1, <5>3
      <4>2. CASE a > j
        <5>1. a - 1 \in K /\ m[a - 1] = l[a] /\ b <= a - 1
          BY <2>13, <3>1, <3>3, <4>2
        <5>2. b >= j /\ b + 1 \in I
          BY <2>14, <3>1, <3>3, <3>4, <4>2
        <5>3. b = a - 1
          BY <3>1, <3>4, <5>1, <5>2
        <5> QED
          BY <5>1, <5>3
      <4> QED
        BY <2>13, <3>1, <3>4, <4>1, <4>2
    <3> QED
      BY <2>1, <2>2, <2>6, <2>9, <3>4, <3>5 DEF Child, List, IsList, IsMap
  <2> QED
    BY <2>16, <2>17
<1> QED
  BY <1>1, <1>2

\* Two ways along the same segments.
LEMMA WalksAgree ==
    ASSUME NEW n, NEW p, NEW q, NEW k \in Nat, NEW at, NEW to, IsWalk(at, n, p), IsWalk(to, n, q),
           k <= Len(p), k <= Len(q), Len(p) \in Nat, Len(q) \in Nat,
           \A i \in 1..k : p[i] = q[i]
    PROVE  at[k] = to[k]
<1> DEFINE S == {i \in 0..k : at[i] = to[i]}
<1>1. 0 \in S
  BY DEF IsWalk
<1>2. ASSUME NEW i \in 1..k, i - 1 \in S
      PROVE  i \in S
  <2>1. i \in 1..Len(p) /\ i \in 1..Len(q) /\ p[i] = q[i] /\ at[i - 1] = to[i - 1]
    BY <1>2
  <2> QED
    BY <2>1 DEF IsWalk
<1>3. k \in S
  <2>1. k \in 0..k
    OBVIOUS
  <2> HIDE DEF S
  <2> QED
    BY <1>1, <1>2, <2>1, CarriedOn
<1> QED
  BY <1>3

\* Beyond a mistake there is nothing.
LEMMA LostWay ==
    ASSUME NEW n, NEW q, Len(q) \in Nat, \A i \in 1..Len(q) : IsSegment(q[i]),
           NEW at, IsWalk(at, n, q), NEW k \in 0..Len(q), at[k] = Mistake
    PROVE  at[Len(q)] = Mistake
<1> DEFINE S == {i \in 0..Len(q) : i >= k => at[i] = Mistake}
<1>1. 0 \in S
  OBVIOUS
<1>2. ASSUME NEW i \in 1..Len(q), i - 1 \in S
      PROVE  i \in S
  <2>1. CASE i <= k
    BY <2>1
  <2>2. CASE i > k
    <3>1. at[i - 1] = Mistake
      BY <1>2, <2>2
    <3> QED
      BY <3>1, NothingBelow DEF IsWalk
  <2> QED
    BY <2>1, <2>2
<1>3. Len(q) \in S
  <2>1. Len(q) \in 0..Len(q)
    OBVIOUS
  <2> HIDE DEF S
  <2> QED
    BY <1>1, <1>2, <2>1, CarriedOn
<1> QED
  BY <1>3

\* The path to a parent.
LEMMA Parent ==
    ASSUME NEW T, NEW p \in Seq(T), NEW i \in 0..Len(p)
    PROVE  /\ SubSeq(p, 1, i) \in Seq(T) /\ Len(SubSeq(p, 1, i)) = i
           /\ \A j \in 1..i : SubSeq(p, 1, i)[j] = p[j]
  OBVIOUS

LEMMA GetParent ==
    ASSUME NEW T, NEW p \in Seq(T), NEW n, NEW at, IsWalk(at, n, p), NEW i \in 0..Len(p)
    PROVE  Get(n, SubSeq(p, 1, i)) = at[i]
<1> DEFINE q == SubSeq(p, 1, i)
<1>1. Len(q) = i /\ \A j \in 1..i : q[j] = p[j]
  BY Parent
<1> HIDE DEF q
<1>2. PICK to : IsWalk(to, n, q) /\ Get(n, q) = to[Len(q)]
  BY <1>1, GetWalk
<1>3. at[i] = to[i]
  BY <1>1, <1>2, WalksAgree
<1> QED
  BY <1>1, <1>2, <1>3 DEF q

\* up is the way back of deleteIn.
IsDeleteWalk(up, at, p) ==
    /\ up[Len(p)] = Cut(at[Len(p) - 1], p[Len(p)])
    /\ \A i \in 1..(Len(p) - 1) : up[i] = Put(at[i - 1], p[i], up[i + 1])

LEMMA DeleteWalk ==
    ASSUME NEW T, NEW p \in Seq(T), Len(p) # 0, NEW n, NEW at, IsWalk(at, n, p)
    PROVE  \E up : IsDeleteWalk(up, at, p) /\ DeleteIn(n, p) = up[1]
<1> DEFINE k == Len(p)
           parent(i) == Get(n, SubSeq(p, 1, i - 1))
           Up(f, j) == f = [i \in (k - j)..k |->
                                IF i = k THEN Cut(parent(i), p[i]) ELSE Put(parent(i), p[i], f[i + 1])]
           R == {j \in 0..(k - 1) : \E f : Up(f, j)}
<1>1. k \in Nat \ {0} /\ k - 1 \in Nat
  OBVIOUS
<1>2. \A i \in 1..k : parent(i) = at[i - 1]
  <2>1. \A i \in 1..k : i - 1 \in 0..Len(p)
    OBVIOUS
  <2> QED
    BY <2>1, GetParent
<1> HIDE DEF parent
<1>3. 0 \in R
  <2> DEFINE f == [i \in (k - 0)..k |-> Cut(parent(i), p[i])]
  <2>1. Up(f, 0)
    OBVIOUS
  <2> HIDE DEF Up
  <2> QED
    BY <1>1, <2>1
<1>4. ASSUME NEW j \in 1..(k - 1), j - 1 \in R
      PROVE  j \in R
  <2>1. PICK f : Up(f, j - 1)
    BY <1>4
  <2> DEFINE l == k - j
             D == l..k
             last == Put(parent(l), p[l], f[l + 1])
             next == [i \in D |-> IF i > l THEN f[i] ELSE last]
             e(i) == IF i = k THEN Cut(parent(i), p[i]) ELSE Put(parent(i), p[i], next[i + 1])
  <2>2. \A i \in (l + 1)..k : f[i] = IF i = k THEN Cut(parent(i), p[i])
                                     ELSE Put(parent(i), p[i], f[i + 1])
    <3>1. k - (j - 1) = l + 1
      OBVIOUS
    <3> QED
      BY <2>1, <3>1
  <2>3. ASSUME NEW i \in D
        PROVE  next[i] = e(i)
    <3>1. i # k => next[i + 1] = f[i + 1]
      <4>1. i # k => i + 1 \in D /\ i + 1 > l
        OBVIOUS
      <4> QED
        BY <4>1
    <3>2. CASE i > l
      <4>1. next[i] = f[i] /\ i \in (l + 1)..k
        BY <3>2
      <4> HIDE DEF next
      <4> QED
        BY <2>2, <3>1, <4>1
    <3>3. CASE i = l
      <4>1. next[i] = last /\ i # k
        BY <3>3
      <4> HIDE DEF next
      <4> QED
        BY <3>1, <3>3, <4>1
    <3>4. i > l \/ i = l
      OBVIOUS
    <3> QED
      BY <3>2, <3>3, <3>4
  <2>4. next = [i \in D |-> next[i]]
    OBVIOUS
  <2>5. [i \in D |-> next[i]] = [i \in D |-> e(i)]
    <3> HIDE DEF e, next, D
    <3> QED
      BY <2>3
  <2>6. next = [i \in D |-> e(i)]
    BY <2>4, <2>5
  <2> HIDE DEF next
  <2>7. Up(next, j)
    BY <2>6
  <2> HIDE DEF Up
  <2> QED
    BY <2>7
<1>5. \E f : Up(f, k - 1)
  <2> DEFINE j == k - 1
  <2>1. j \in Nat /\ j \in 0..j
    OBVIOUS
  <2>2. \A i \in 1..j : i - 1 \in R => i \in R
    <3> HIDE DEF R
    <3> QED
      BY <1>4
  <2>3. j \in R
    <3> HIDE DEF R, j
    <3> QED
      BY <1>3, <2>1, <2>2, CarriedOn
  <2> HIDE DEF Up
  <2> QED
    BY <2>3
<1>6. k - (k - 1) = 1
  OBVIOUS
<1>7. DeleteIn(n, p) = (CHOOSE f : Up(f, k - 1))[1]
  BY <1>6 DEF DeleteIn, parent
<1>8. PICK up : Up(up, k - 1) /\ DeleteIn(n, p) = up[1]
  <2> HIDE DEF Up
  <2> QED
    BY <1>5, <1>7
<1>9. \A i \in 1..k : up[i] = IF i = k THEN Cut(parent(i), p[i]) ELSE Put(parent(i), p[i], up[i + 1])
  BY <1>6, <1>8
<1>10. IsDeleteWalk(up, at, p)
  <2>1. k \in 1..k /\ \A i \in 1..(k - 1) : i \in 1..k /\ i # k
    BY <1>1
  <2> QED
    BY <1>2, <1>9, <2>1 DEF IsDeleteWalk
<1> HIDE DEF Up, k
<1> QED
  BY <1>8, <1>10

\* A path as Delete is given it: names, and at the end a name or a key.
IsPlain(p) ==
    /\ Len(p) # 0
    /\ \A i \in 1..Len(p) : IsSegment(p[i])
    /\ \A i \in 1..(Len(p) - 1) : IsField(p[i])

\* If it ends in a key, the list has one element with it.
EndsInOne(n, p) == Singles(Get(n, SubSeq(p, 1, Len(p) - 1)), p[Len(p)])

\* What is cut was there, and every step back is a step of Put.
GoesBack(up, at, p) ==
    /\ Singles(at[Len(p) - 1], p[Len(p)])
    /\ Child(at[Len(p) - 1], p[Len(p)]) # Mistake
    /\ \A i \in 1..(Len(p) - 1) :
        /\ Child(up[i], p[i]) = up[i + 1]
        /\ \A r : Apart(p[i], r) => Child(up[i], r) = Child(at[i - 1], r)

\* The way to something that is there, and back.
LEMMA DeleteWays ==
    ASSUME NEW T, NEW p \in Seq(T), IsPlain(p), NEW n, EndsInOne(n, p),
           NEW at, IsWalk(at, n, p), at[Len(p)] # Mistake,
           NEW up, IsDeleteWalk(up, at, p)
    PROVE  GoesBack(up, at, p)
<1> DEFINE k == Len(p)
<1>1. k \in Nat \ {0} /\ k - 1 \in 0..k /\ k \in 1..k
  BY DEF IsPlain
<1>2. Singles(at[k - 1], p[k])
  BY <1>1, GetParent DEF EndsInOne
<1>3. \A i \in 0..k : at[i] # Mistake
  <2>1. SUFFICES ASSUME NEW i \in 0..k, at[i] = Mistake PROVE FALSE
    OBVIOUS
  <2>2. Len(p) \in Nat /\ \A j \in 1..Len(p) : IsSegment(p[j])
    BY DEF IsPlain
  <2>3. at[Len(p)] = Mistake
    BY <2>1, <2>2, LostWay
  <2> QED
    BY <2>3
<1>4. \A i \in 1..k : at[i] = Child(at[i - 1], p[i]) /\ IsSegment(p[i])
  BY DEF IsWalk, IsPlain
<1>5. up[k] # Mistake /\ Child(at[k - 1], p[k]) # Mistake
  BY <1>1, <1>2, <1>3, <1>4, CutOwn DEF IsDeleteWalk
<1>6. \A i \in 1..(k - 1) : IsField(p[i]) /\ IsMap(at[i - 1]) /\ ~IsList(at[i - 1])
  <2>1. ASSUME NEW i \in 1..(k - 1)
        PROVE  IsField(p[i]) /\ IsMap(at[i - 1]) /\ ~IsList(at[i - 1])
    <3>1. IsField(p[i]) /\ i \in 1..k /\ i \in 0..k
      BY <1>1 DEF IsPlain
    <3>2. Child(at[i - 1], p[i]) # Mistake
      BY <1>3, <1>4, <3>1
    <3> QED
      BY <3>1, <3>2 DEF Child, IsMap, IsList
  <2> QED
    BY <2>1
<1>7. \A i \in 1..k : up[i] # Mistake
  <2> DEFINE S == {j \in 0..(k - 1) : up[k - j] # Mistake}
  <2>1. 0 \in S
    BY <1>1, <1>5
  <2>2. ASSUME NEW j \in 1..(k - 1), j - 1 \in S
        PROVE  j \in S
    <3> DEFINE i == k - j
    <3>1. i \in 1..(k - 1) /\ k - (j - 1) = i + 1
      BY <1>1
    <3>2. up[i] = Put(at[i - 1], p[i], up[i + 1]) /\ up[i + 1] # Mistake
      BY <2>2, <3>1 DEF IsDeleteWalk
    <3>3. IsField(p[i]) /\ IsMap(at[i - 1])
      BY <1>6, <3>1
    <3> HIDE DEF i
    <3>4. up[i] # Mistake
      BY <3>2, <3>3 DEF Put, With, Map, Mistake
    <3> QED
      BY <3>4 DEF i
  <2>3. \A j \in 0..(k - 1) : j \in S
    <3> DEFINE l == k - 1
    <3>1. l \in Nat
      BY <1>1
    <3>2. \A j \in 1..l : j - 1 \in S => j \in S
      <4> HIDE DEF S
      <4> QED
        BY <2>2
    <3>3. \A j \in 0..l : j \in S
      <4> HIDE DEF S, l
      <4> QED
        BY <2>1, <3>1, <3>2, CarriedOn
    <3> QED
      BY <3>3
  <2>4. \A i \in 1..k : k - i \in 0..(k - 1) /\ k - (k - i) = i
    BY <1>1
  <2> QED
    BY <2>3, <2>4
<1>8. ASSUME NEW i \in 1..(k - 1)
      PROVE  /\ Child(up[i], p[i]) = up[i + 1]
             /\ \A r : Apart(p[i], r) => Child(up[i], r) = Child(at[i - 1], r)
  <2>1. i \in 1..k
    BY <1>1
  <2>2. ListIsSequence(at[i - 1])
    BY <1>6 DEF ListIsSequence
  <2>3. Carries(up[i + 1], p[i])
    BY <1>6 DEF Carries
  <2>4. up[i] = Put(at[i - 1], p[i], up[i + 1]) /\ up[i] # Mistake /\ IsSegment(p[i])
    BY <1>4, <1>7, <2>1 DEF IsDeleteWalk
  <2>5. Child(up[i], p[i]) = up[i + 1]
    BY <2>2, <2>3, <2>4, ChildPut
  <2>6. \A r : Apart(p[i], r) => Child(up[i], r) = Child(at[i - 1], r)
    BY <2>2, <2>3, <2>4, PutApart
  <2> QED
    BY <2>5, <2>6
<1> QED
  BY <1>2, <1>5, <1>8 DEF GoesBack

\* deleteIn of something that is there leaves nothing in its place, and leaves alone
\* what is found along a path that parts from its own.
LEMMA DeleteInLaw ==
    ASSUME NEW T, NEW p \in Seq(T), IsPlain(p), NEW n, EndsInOne(n, p), Has(n, p)
    PROVE  /\ Get(DeleteIn(n, p), p) = Mistake
           /\ \A q, k : (Len(q) \in Nat /\ PartAt(p, q, k)) =>
                    Get(DeleteIn(n, p), q) = Get(n, q)
<1> DEFINE L == Len(p)
           m == DeleteIn(n, p)
<1>1. L \in Nat \ {0}
  BY DEF IsPlain
<1>2. PICK at : IsWalk(at, n, p) /\ Get(n, p) = at[L]
  BY <1>1, GetWalk
<1>3. PICK up : IsDeleteWalk(up, at, p) /\ m = up[1]
  BY <1>1, <1>2, DeleteWalk
<1>4. at[L] # Mistake
  BY <1>2 DEF Has
<1>5. /\ Singles(at[L - 1], p[L])
      /\ Child(at[L - 1], p[L]) # Mistake
      /\ \A i \in 1..(L - 1) :
            /\ Child(up[i], p[i]) = up[i + 1]
            /\ \A r : Apart(p[i], r) => Child(up[i], r) = Child(at[i - 1], r)
  <2>1. GoesBack(up, at, p)
    BY <1>2, <1>3, <1>4, DeleteWays
  <2> QED
    BY <2>1 DEF GoesBack
<1>6. up[L] = Cut(at[L - 1], p[L]) /\ IsSegment(p[L])
  BY <1>1, <1>3 DEF IsDeleteWalk, IsPlain
<1> HIDE DEF m
<1>7. ASSUME NEW q, Len(q) \in Nat, NEW j \in 0..(L - 1), j <= Len(q),
             \A i \in 1..j : p[i] = q[i], NEW new, IsWalk(new, m, q)
      PROVE  new[j] = up[j + 1]
  <2> DEFINE S == {i \in 0..j : new[i] = up[i + 1]}
  <2>1. 0 \in S
    BY <1>3, <1>7 DEF IsWalk
  <2>2. ASSUME NEW i \in 1..j, i - 1 \in S
        PROVE  i \in S
    <3>1. i \in 1..(L - 1) /\ i \in 1..Len(q) /\ (i - 1) + 1 = i /\ p[i] = q[i]
      BY <1>1, <1>7
    <3>2. new[i - 1] = up[i]
      BY <2>2, <3>1
    <3>3. new[i] = Child(up[i], p[i])
      BY <1>7, <3>1, <3>2 DEF IsWalk
    <3>4. Child(up[i], p[i]) = up[i + 1]
      BY <1>5, <3>1
    <3>5. new[i] = up[i + 1] /\ i \in 0..j
      BY <3>3, <3>4
    <3> QED
      BY <3>5
  <2>3. j \in S
    <3>1. j \in Nat /\ j \in 0..j
      BY <1>1
    <3> HIDE DEF S
    <3> QED
      BY <2>1, <2>2, <3>1, CarriedOn
  <2> QED
    BY <2>3
<1>8. Get(m, p) = Mistake
  <2>1. PICK new : IsWalk(new, m, p) /\ Get(m, p) = new[L]
    BY <1>1, GetWalk
  <2>2. L - 1 \in 0..(L - 1) /\ (L - 1) + 1 = L /\ L - 1 <= L /\ L \in 1..L
    BY <1>1
  <2>3. new[L - 1] = up[L]
    BY <1>1, <1>7, <2>1, <2>2
  <2>4. new[L] = Child(up[L], p[L])
    BY <2>1, <2>2, <2>3 DEF IsWalk
  <2> QED
    BY <1>5, <1>6, <2>1, <2>4, CutOwn
<1>9. ASSUME NEW q, NEW k, Len(q) \in Nat, PartAt(p, q, k)
      PROVE  Get(m, q) = Get(n, q)
  <2>1. k \in 1..L /\ k \in 1..Len(q) /\ Apart(p[k], q[k]) /\ \A i \in 1..(k - 1) : p[i] = q[i]
    BY <1>9 DEF PartAt
  <2>2. PICK new : IsWalk(new, m, q) /\ Get(m, q) = new[Len(q)]
    BY <1>9, GetWalk
  <2>3. PICK old : IsWalk(old, n, q) /\ Get(n, q) = old[Len(q)]
    BY <1>9, GetWalk
  <2>4. k - 1 \in 0..(L - 1) /\ (k - 1) + 1 = k /\ k - 1 <= Len(q) /\ k - 1 \in Nat /\ k - 1 <= L
    BY <1>1, <1>9, <2>1
  <2>5. new[k - 1] = up[k]
    BY <1>7, <1>9, <2>1, <2>2, <2>4
  <2>6. old[k - 1] = at[k - 1]
    BY <1>1, <1>2, <1>9, <2>1, <2>3, <2>4, WalksAgree
  <2>7. Child(up[k], q[k]) = Child(at[k - 1], q[k])
    <3>1. CASE k = L
      BY <1>5, <1>6, <2>1, <3>1, CutApart
    <3>2. CASE k # L
      <4>1. k \in 1..(L - 1)
        BY <1>1, <2>1, <3>2
      <4> QED
        BY <1>5, <2>1, <4>1
    <3> QED
      BY <3>1, <3>2
  <2>8. new[k] = old[k]
    BY <2>1, <2>2, <2>3, <2>5, <2>6, <2>7 DEF IsWalk
  <2>9. new[Len(q)] = old[Len(q)]
    BY <1>9, <2>1, <2>2, <2>3, <2>8, SameWay
  <2> QED
    BY <2>2, <2>3, <2>9
<1> QED
  BY <1>8, <1>9 DEF m

\* Beyond nothing, and in an empty map, there is nothing.
LEMMA NothingBeyond ==
    ASSUME NEW n, NEW p, NEW q, Len(p) \in Nat, Len(q) \in Nat, Len(p) <= Len(q),
           \A i \in 1..Len(q) : IsSegment(q[i]),
           \A i \in 1..Len(p) : p[i] = q[i],
           Get(n, p) = Mistake \/ (Get(n, p) = EmptyMap /\ Len(p) < Len(q))
    PROVE  Get(n, q) = Mistake
<1>1. PICK at : IsWalk(at, n, p) /\ Get(n, p) = at[Len(p)]
  BY GetWalk
<1>2. PICK to : IsWalk(to, n, q) /\ Get(n, q) = to[Len(q)]
  BY GetWalk
<1>3. at[Len(p)] = to[Len(p)]
  BY <1>1, <1>2, WalksAgree
<1>4. CASE Get(n, p) = Mistake
  <2>1. Len(p) \in 0..Len(q) /\ to[Len(p)] = Mistake
    BY <1>1, <1>3, <1>4
  <2>2. to[Len(q)] = Mistake
    BY <1>2, <2>1, LostWay
  <2> QED
    BY <1>2, <2>2
<1>5. CASE Get(n, p) = EmptyMap /\ Len(p) < Len(q)
  <2> DEFINE k == Len(p) + 1
  <2>1. k \in 1..Len(q) /\ k \in 0..Len(q) /\ k - 1 = Len(p)
    BY <1>5
  <2>2. to[k] = Child(EmptyMap, q[k]) /\ IsSegment(q[k])
    BY <1>1, <1>2, <1>3, <1>5, <2>1 DEF IsWalk
  <2>3. to[k] = Mistake
    BY <2>2, NothingBelow DEF Fresh
  <2> HIDE DEF k
  <2>4. to[Len(q)] = Mistake
    BY <1>2, <2>1, <2>3, LostWay
  <2> QED
    BY <1>2, <2>4
<1> QED
  BY <1>4, <1>5

\* pruneEmpty, one parent.
Pruned(n, p) == IF Get(n, p) = EmptyMap THEN DeleteIn(n, p) ELSE n

IsPrune(f, n, p) ==
    f[Len(p)] = n /\ \A i \in 1..(Len(p) - 1) : f[i] = Pruned(f[i + 1], SubSeq(p, 1, i))

LEMMA PruneWalk ==
    ASSUME NEW p, NEW n, Len(p) \in Nat \ {0}
    PROVE  \E f : IsPrune(f, n, p) /\ PruneEmpty(n, p) = f[1]
<1> DEFINE k == Len(p)
           Up(f, j) == f = [i \in (k - j)..k |->
                                IF i = k THEN n
                                ELSE LET m == f[i + 1]
                                         parent == SubSeq(p, 1, i)
                                     IN  IF Get(m, parent) = EmptyMap THEN DeleteIn(m, parent)
                                         ELSE m]
           R == {j \in 0..(k - 1) : \E f : Up(f, j)}
<1>1. k \in Nat \ {0} /\ k - 1 \in Nat
  OBVIOUS
<1>2. \A f, j : Up(f, j) <=>
            f = [i \in (k - j)..k |->
                    IF i = k THEN n ELSE Pruned(f[i + 1], SubSeq(p, 1, i))]
  BY DEF Pruned
<1>3. 0 \in R
  <2> DEFINE f == [i \in (k - 0)..k |-> n]
  <2>1. Up(f, 0)
    OBVIOUS
  <2> HIDE DEF Up
  <2> QED
    BY <1>1, <2>1
<1>4. ASSUME NEW j \in 1..(k - 1), j - 1 \in R
      PROVE  j \in R
  <2> HIDE DEF Up
  <2>1. PICK f : Up(f, j - 1)
    BY <1>4
  <2> DEFINE l == k - j
             D == l..k
             last == Pruned(f[l + 1], SubSeq(p, 1, l))
             next == [i \in D |-> IF i > l THEN f[i] ELSE last]
             e(i) == IF i = k THEN n ELSE Pruned(next[i + 1], SubSeq(p, 1, i))
  <2>2. \A i \in (l + 1)..k : f[i] = IF i = k THEN n ELSE Pruned(f[i + 1], SubSeq(p, 1, i))
    <3>1. k - (j - 1) = l + 1
      OBVIOUS
    <3>2. f = [i \in (k - (j - 1))..k |-> IF i = k THEN n ELSE Pruned(f[i + 1], SubSeq(p, 1, i))]
      BY <1>2, <2>1
    <3> QED
      BY <3>1, <3>2
  <2>3. ASSUME NEW i \in D
        PROVE  next[i] = e(i)
    <3>1. i # k => next[i + 1] = f[i + 1]
      <4>1. i # k => i + 1 \in D /\ i + 1 > l
        OBVIOUS
      <4> QED
        BY <4>1
    <3>2. CASE i > l
      <4>1. next[i] = f[i] /\ i \in (l + 1)..k
        BY <3>2
      <4> HIDE DEF next
      <4> QED
        BY <2>2, <3>1, <4>1
    <3>3. CASE i = l
      <4>1. next[i] = last /\ i # k
        BY <3>3
      <4> HIDE DEF next
      <4> QED
        BY <3>1, <3>3, <4>1
    <3>4. i > l \/ i = l
      OBVIOUS
    <3> QED
      BY <3>2, <3>3, <3>4
  <2>4. next = [i \in D |-> next[i]]
    OBVIOUS
  <2>5. [i \in D |-> next[i]] = [i \in D |-> e(i)]
    <3> HIDE DEF e, next, D
    <3> QED
      BY <2>3
  <2>6. next = [i \in D |-> e(i)]
    BY <2>4, <2>5
  <2> HIDE DEF next
  <2>7. Up(next, j)
    BY <1>2, <2>6
  <2> QED
    BY <2>7
<1>5. \E f : Up(f, k - 1)
  <2> DEFINE j == k - 1
  <2>1. j \in Nat /\ j \in 0..j
    OBVIOUS
  <2>2. \A i \in 1..j : i - 1 \in R => i \in R
    <3> HIDE DEF R
    <3> QED
      BY <1>4
  <2>3. j \in R
    <3> HIDE DEF R, j
    <3> QED
      BY <1>3, <2>1, <2>2, CarriedOn
  <2> HIDE DEF Up
  <2> QED
    BY <2>3
<1>6. k - (k - 1) = 1
  OBVIOUS
<1>7. PruneEmpty(n, p) = (CHOOSE f : Up(f, k - 1))[1]
  BY <1>6 DEF PruneEmpty
<1>8. PICK f : Up(f, k - 1) /\ PruneEmpty(n, p) = f[1]
  <2> HIDE DEF Up
  <2> QED
    BY <1>5, <1>7
<1>9. f = [i \in (k - (k - 1))..k |-> IF i = k THEN n ELSE Pruned(f[i + 1], SubSeq(p, 1, i))]
  <2> HIDE DEF Up, k
  <2> QED
    BY <1>2, <1>8
<1>10. \A i \in 1..k : f[i] = IF i = k THEN n ELSE Pruned(f[i + 1], SubSeq(p, 1, i))
  BY <1>6, <1>9
<1>11. IsPrune(f, n, p)
  <2>1. k \in 1..k /\ \A i \in 1..(k - 1) : i \in 1..k /\ i # k
    BY <1>1
  <2> QED
    BY <1>10, <2>1 DEF IsPrune
<1> HIDE DEF Up, k
<1> QED
  BY <1>8, <1>11

\* Pruning a parent takes away what was empty.
LEMMA PruneStep ==
    ASSUME NEW T, NEW p \in Seq(T), IsPlain(p), NEW i \in 1..(Len(p) - 1), NEW m,
           Get(m, p) = Mistake
    PROVE  LET pruned == Pruned(m, SubSeq(p, 1, i)) IN
           /\ Get(pruned, p) = Mistake
           /\ \A q, k : (/\ Len(q) \in Nat /\ PartAt(p, q, k)
                         /\ \A j \in 1..Len(q) : IsSegment(q[j])) => Get(pruned, q) = Get(m, q)
<1> DEFINE pre == SubSeq(p, 1, i)
           pruned == Pruned(m, pre)
<1>1. Len(p) \in Nat /\ i \in 0..Len(p) /\ i <= Len(p)
  OBVIOUS
<1>2. pre \in Seq(T) /\ Len(pre) = i /\ \A j \in 1..i : pre[j] = p[j]
  BY <1>1, Parent
<1> HIDE DEF pre
<1>3. CASE Get(m, pre) # EmptyMap
  <2>1. pruned = m
    BY <1>3 DEF Pruned
  <2> QED
    BY <2>1 DEF pre
<1>4. CASE Get(m, pre) = EmptyMap
  <2>1. pruned = DeleteIn(m, pre)
    BY <1>4 DEF Pruned
  <2>2. IsPlain(pre) /\ IsField(pre[i])
    BY <1>1, <1>2 DEF IsPlain
  <2>3. EndsInOne(m, pre) /\ Has(m, pre)
    BY <1>2, <1>4, <2>2 DEF EndsInOne, Singles, Has, EmptyMap, Map, Mistake
  <2>4. /\ Get(pruned, pre) = Mistake
        /\ \A q, k : (Len(q) \in Nat /\ PartAt(pre, q, k)) => Get(pruned, q) = Get(m, q)
    BY <1>2, <2>1, <2>2, <2>3, DeleteInLaw
  <2> HIDE DEF pruned
  <2>5. Get(pruned, p) = Mistake
    <3>1. \A j \in 1..Len(p) : IsSegment(p[j])
      BY DEF IsPlain
    <3> QED
      BY <1>1, <1>2, <2>4, <3>1, NothingBeyond
  <2>6. ASSUME NEW q, NEW k, Len(q) \in Nat, PartAt(p, q, k), \A j \in 1..Len(q) : IsSegment(q[j])
        PROVE  Get(pruned, q) = Get(m, q)
    <3>1. k \in 1..Len(p) /\ k \in 1..Len(q) /\ Apart(p[k], q[k]) /\ \A j \in 1..(k - 1) : p[j] = q[j]
      BY <2>6 DEF PartAt
    <3>2. CASE k <= i
      <4>1. k \in 1..i /\ \A j \in 1..(k - 1) : j \in 1..i
        BY <1>1, <3>1, <3>2
      <4>2. PartAt(pre, q, k)
        BY <1>2, <3>1, <4>1 DEF PartAt
      <4> QED
        BY <2>4, <2>6, <4>2
    <3>3. CASE k > i
      <4>1. i < Len(q) /\ \A j \in 1..i : j \in 1..(k - 1)
        BY <1>1, <2>6, <3>1, <3>3
      <4>2. \A j \in 1..Len(pre) : pre[j] = q[j]
        BY <1>2, <3>1, <4>1
      <4>3. Len(pre) \in Nat /\ Len(pre) < Len(q) /\ Len(pre) <= Len(q)
        BY <1>1, <1>2, <2>6, <4>1
      <4>4. Get(pruned, q) = Mistake
        BY <2>4, <2>6, <4>2, <4>3, NothingBeyond
      <4>5. Get(m, q) = Mistake
        BY <1>4, <2>6, <4>2, <4>3, NothingBeyond
      <4> QED
        BY <4>4, <4>5
    <3> QED
      BY <1>1, <3>1, <3>2, <3>3
  <2> QED
    BY <2>5, <2>6 DEF pruned, pre
<1> QED
  BY <1>3, <1>4

LEMMA PruneLaw ==
    ASSUME NEW T, NEW p \in Seq(T), IsPlain(p), NEW n, Get(n, p) = Mistake
    PROVE  /\ Get(PruneEmpty(n, p), p) = Mistake
           /\ \A q, k : (/\ Len(q) \in Nat /\ PartAt(p, q, k)
                         /\ \A j \in 1..Len(q) : IsSegment(q[j])) =>
                    Get(PruneEmpty(n, p), q) = Get(n, q)
<1> DEFINE L == Len(p)
           Likewise(m) ==
                /\ Get(m, p) = Mistake
                /\ \A q, k : (/\ Len(q) \in Nat /\ PartAt(p, q, k)
                              /\ \A j \in 1..Len(q) : IsSegment(q[j])) => Get(m, q) = Get(n, q)
<1>1. L \in Nat \ {0} /\ L - 1 \in Nat
  BY DEF IsPlain
<1>2. PICK f : IsPrune(f, n, p) /\ PruneEmpty(n, p) = f[1]
  BY <1>1, PruneWalk
<1> DEFINE S == {j \in 0..(L - 1) : Likewise(f[L - j])}
<1>3. 0 \in S
  <2>1. Likewise(n)
    OBVIOUS
  <2> HIDE DEF Likewise
  <2> QED
    BY <1>1, <1>2, <2>1 DEF IsPrune
<1>4. ASSUME NEW j \in 1..(L - 1), j - 1 \in S
      PROVE  j \in S
  <2> DEFINE i == L - j
  <2>1. i \in 1..(L - 1) /\ L - (j - 1) = i + 1
    BY <1>1
  <2>2. Likewise(f[i + 1])
    <3> HIDE DEF Likewise
    <3> QED
      BY <1>4, <2>1
  <2>3. f[i] = Pruned(f[i + 1], SubSeq(p, 1, i))
    BY <1>2, <2>1 DEF IsPrune
  <2> HIDE DEF i
  <2>4. /\ Get(f[i], p) = Mistake
        /\ \A q, k : (/\ Len(q) \in Nat /\ PartAt(p, q, k)
                      /\ \A h \in 1..Len(q) : IsSegment(q[h])) => Get(f[i], q) = Get(f[i + 1], q)
    BY <2>1, <2>2, <2>3, PruneStep
  <2>5. Likewise(f[i])
    BY <2>2, <2>4
  <2> HIDE DEF Likewise
  <2> QED
    BY <1>1, <2>5 DEF i
<1>5. Likewise(f[1])
  <2> HIDE DEF Likewise
  <2> DEFINE j == L - 1
  <2>1. j \in Nat /\ j \in 0..j /\ L - j = 1
    BY <1>1
  <2>2. \A i \in 1..j : i - 1 \in S => i \in S
    <3> HIDE DEF S
    <3> QED
      BY <1>4
  <2>3. j \in S
    <3> HIDE DEF S, j
    <3> QED
      BY <1>3, <2>1, <2>2, CarriedOn
  <2> QED
    BY <2>1, <2>3
<1> QED
  BY <1>2, <1>5

\* Delete leaves nothing at its path: for every object and every path of names that
\* ends in a name or in the key of one element (fieldpath.go: Delete, deleteIn,
\* deleteInList, pruneEmpty).
THEOREM DeleteLeavesNothing ==
    ASSUME NEW T, NEW p \in Seq(T), IsPlain(p), NEW n, EndsInOne(n, p)
    PROVE  ~Has(Delete(n, p), p)
<1>1. CASE Has(n, p)
  <2>1. Delete(n, p) = PruneEmpty(DeleteIn(n, p), p)
    BY <1>1 DEF Delete
  <2>2. Get(DeleteIn(n, p), p) = Mistake
    BY <1>1, DeleteInLaw
  <2>3. Get(PruneEmpty(DeleteIn(n, p), p), p) = Mistake
    BY <2>2, PruneLaw
  <2> QED
    BY <2>1, <2>3 DEF Has
<1>2. CASE ~Has(n, p)
  BY <1>2 DEF Delete
<1> QED
  BY <1>1, <1>2

\* Delete, and the pruning of the parents it leaves empty, leave alone what is found
\* along a path that parts from its own: the parents that go held nothing else, and
\* the other elements of a list are found by their keys wherever they have moved
\* (fieldpath.go: Delete, pruneEmpty, findByKey).
THEOREM DeleteKeepsOthers ==
    ASSUME NEW T, NEW p \in Seq(T), IsPlain(p), NEW n, EndsInOne(n, p),
           NEW q, Len(q) \in Nat, \A i \in 1..Len(q) : IsSegment(q[i]),
           NEW k, PartAt(p, q, k)
    PROVE  Get(Delete(n, p), q) = Get(n, q)
<1>1. CASE Has(n, p)
  <2> DEFINE m == DeleteIn(n, p)
  <2>1. Delete(n, p) = PruneEmpty(m, p)
    BY <1>1 DEF Delete
  <2>2. Get(m, p) = Mistake /\ Get(m, q) = Get(n, q)
    BY <1>1, DeleteInLaw
  <2> HIDE DEF m
  <2>3. Get(PruneEmpty(m, p), q) = Get(m, q)
    BY <2>2, PruneLaw
  <2> QED
    BY <2>1, <2>2, <2>3
<1>2. CASE ~Has(n, p)
  BY <1>2 DEF Delete
<1> QED
  BY <1>1, <1>2

-----------------------------------------------------------------------------
(* Text *)

\* A segment whose text is one token: its name, if it has one, is a single word.
IsPlainText(s) ==
    IF IsField(s) THEN s = FieldSegment(<<s.field[1]>>) ELSE "word" \notin DOMAIN s

Token(s) == IF IsField(s) THEN Word(s.field[1]) ELSE s

\* A path whose names have no dot in them is read back from its text (fieldpath.go:
\* Path.String and Parse).
THEOREM TextIsReadBack ==
    ASSUME NEW T, NEW p \in Seq(T), \A i \in 1..Len(p) : IsPlainText(p[i])
    PROVE  Parse(String(p)) = p
<1> DEFINE L == Len(p)
           seqs == [i \in 1..L |-> SegmentText(p[i])]
           tokens == [i \in 1..L |-> Token(p[i])]
<1>1. L \in Nat /\ DOMAIN p = 1..L
  OBVIOUS
<1>2. \A i \in 1..L : seqs[i] = <<Token(p[i])>>
  <2>1. ASSUME NEW i \in 1..L
        PROVE  SegmentText(p[i]) = <<Token(p[i])>>
    <3>1. CASE \E w : p[i] = FieldSegment(<<w>>)
      <4>1. PICK w : p[i] = FieldSegment(<<w>>)
        BY <3>1
      <4>2. IsField(p[i]) /\ p[i].field = <<w>>
        BY <4>1 DEF FieldSegment, IsField
      <4>3. SegmentText(p[i]) = [j \in DOMAIN <<w>> |-> Word(<<w>>[j])]
        BY <4>2 DEF SegmentText
      <4>4. [j \in DOMAIN <<w>> |-> Word(<<w>>[j])] = <<Word(w)>>
        OBVIOUS
      <4> QED
        BY <4>2, <4>3, <4>4 DEF Token
    <3>2. CASE ~IsField(p[i])
      BY <3>2 DEF SegmentText, Token
    <3> QED
      BY <3>1, <3>2 DEF IsPlainText
  <2> QED
    BY <2>1
<1>3. ASSUME L # 0
      PROVE  FlattenSeq(seqs) = tokens
  <2> DEFINE Eqn(f, j) == f = [i \in 1..j |-> IF i = 1 THEN seqs[i] ELSE f[i - 1] \o seqs[i]]
             prefix(i) == [h \in 1..i |-> Token(p[h])]
             f == [i \in 1..L |-> prefix(i)]
  <2>1. Len(seqs) = L
    BY <1>1
  <2> HIDE DEF seqs
  <2>2. ASSUME NEW i \in 1..L
        PROVE  f[i] = IF i = 1 THEN seqs[i] ELSE f[i - 1] \o seqs[i]
    <3>1. f[i] = prefix(i) /\ seqs[i] = <<Token(p[i])>>
      BY <1>2
    <3>2. CASE i = 1
      <4>1. prefix(1) = <<Token(p[1])>>
        OBVIOUS
      <4> QED
        BY <3>1, <3>2, <4>1
    <3>3. CASE i # 1
      <4>1. i - 1 \in 1..L
        BY <1>1, <3>3
      <4>2. f[i - 1] = prefix(i - 1)
        BY <4>1
      <4> DEFINE U == {Token(p[h]) : h \in 1..L}
      <4>3. prefix(i - 1) \in Seq(U) /\ Len(prefix(i - 1)) = i - 1
        BY <1>1, <4>1
      <4>4. \A h \in 1..(i - 1) : prefix(i - 1)[h] = Token(p[h])
        OBVIOUS
      <4>5. Token(p[i]) \in U
        OBVIOUS
      <4> DEFINE a == prefix(i - 1)
                 t == Token(p[i])
      <4>6. a \in Seq(U) /\ Len(a) = i - 1 /\ t \in U
        BY <4>3, <4>5
      <4> HIDE DEF a, t, U
      <4>7. a \o <<t>> \in Seq(U) /\ Len(a \o <<t>>) = i
            /\ (a \o <<t>>)[i] = t /\ \A h \in 1..(i - 1) : (a \o <<t>>)[h] = a[h]
        BY <1>1, <4>1, <4>6
      <4>8. a \o <<t>> = [h \in 1..i |-> (a \o <<t>>)[h]]
        BY <4>7
      <4>9. \A h \in 1..i : (a \o <<t>>)[h] = Token(p[h])
        <5>1. \A h \in 1..i : h \in 1..(i - 1) \/ h = i
          BY <1>1
        <5> QED
          BY <4>4, <4>7, <5>1 DEF a, t
      <4>10. a \o <<t>> = prefix(i)
        BY <4>8, <4>9
      <4> QED
        BY <3>1, <3>3, <4>2, <4>10 DEF a, t
    <3> QED
      BY <3>2, <3>3
  <2>3. Eqn(f, L)
    <3> DEFINE e(i) == IF i = 1 THEN seqs[i] ELSE f[i - 1] \o seqs[i]
    <3>1. f = [i \in 1..L |-> f[i]]
      OBVIOUS
    <3>2. [i \in 1..L |-> f[i]] = [i \in 1..L |-> e(i)]
      <4>1. \A i \in 1..L : f[i] = e(i)
        BY <2>2
      <4> HIDE DEF e, f
      <4> QED
        BY <4>1
    <3>3. f = [i \in 1..L |-> e(i)]
      BY <3>1, <3>2
    <3> HIDE DEF f
    <3> QED
      BY <3>3
  <2>4. FlattenSeq(seqs) = (CHOOSE g : Eqn(g, L))[L]
    BY <1>3, <2>1 DEF FlattenSeq
  <2> HIDE DEF f
  <2>5. PICK g : Eqn(g, L) /\ FlattenSeq(seqs) = g[L]
    <3> HIDE DEF Eqn
    <3> QED
      BY <2>3, <2>4
  <2>6. \A i \in 1..L : g[i] = IF i = 1 THEN seqs[i] ELSE g[i - 1] \o seqs[i]
    BY <2>5
  <2> DEFINE S == {i \in 0..L : i # 0 => g[i] = f[i]}
  <2>7. 0 \in S
    BY <1>1
  <2>8. ASSUME NEW i \in 1..L, i - 1 \in S
        PROVE  i \in S
    <3>1. i # 1 => g[i - 1] = f[i - 1]
      BY <2>8
    <3>2. g[i] = f[i]
      BY <2>2, <2>6, <3>1
    <3> QED
      BY <1>1, <3>2
  <2>9. L \in S
    <3>1. L \in 0..L
      BY <1>1
    <3> HIDE DEF S, L
    <3> QED
      BY <1>1, <2>7, <2>8, <3>1, CarriedOn
  <2>10. g[L] = f[L]
    BY <1>3, <2>9
  <2>11. f[L] = tokens
    BY <1>1, <1>3 DEF f
  <2> QED
    BY <2>5, <2>10, <2>11
<1>4. String(p) = tokens
  <2>1. String(p) = FlattenSeq(seqs)
    BY <1>1 DEF String
  <2>2. CASE L = 0
    <3>1. Len(seqs) = 0 /\ seqs = tokens
      BY <1>1, <2>2
    <3> QED
      BY <2>1, <3>1 DEF FlattenSeq
  <2>3. CASE L # 0
    BY <1>3, <2>1, <2>3
  <2> QED
    BY <2>2, <2>3
<1>5. ASSUME NEW i \in 1..L
      PROVE  p[i] = IF "word" \in DOMAIN Token(p[i]) THEN FieldSegment(<<Token(p[i]).word>>)
                    ELSE Token(p[i])
  <2>1. CASE \E w : p[i] = FieldSegment(<<w>>)
    <3>1. PICK w : p[i] = FieldSegment(<<w>>)
      BY <2>1
    <3>2. IsField(p[i]) /\ p[i].field = <<w>>
      BY <3>1 DEF FieldSegment, IsField
    <3>3. Token(p[i]) = [word |-> w]
      BY <3>2 DEF Token, Word
    <3> QED
      BY <3>1, <3>3
  <2>2. CASE ~IsField(p[i]) /\ "word" \notin DOMAIN p[i]
    BY <2>2 DEF Token
  <2> QED
    BY <2>1, <2>2 DEF IsPlainText
<1>6. p = [i \in 1..L |-> p[i]]
  BY <1>1
<1>7. [i \in 1..L |-> p[i]] = [i \in 1..L |->
            IF "word" \in DOMAIN Token(p[i]) THEN FieldSegment(<<Token(p[i]).word>>)
            ELSE Token(p[i])]
  BY <1>5
<1>8. Parse(tokens) = [i \in 1..L |->
            IF "word" \in DOMAIN Token(p[i]) THEN FieldSegment(<<Token(p[i]).word>>)
            ELSE Token(p[i])]
  BY DEF Parse
<1> QED
  BY <1>4, <1>6, <1>7, <1>8

=============================================================================
