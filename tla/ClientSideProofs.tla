-------------------------- MODULE ClientSideProofs --------------------------
(***************************************************************************)
(* The bookkeeping of the client-side applier, for every set of            *)
(* contributors and patches and for all trees whose paths obey the laws of *)
(* Get, Set and Delete: what nobody claims is left alone, what is claimed  *)
(* is there, and what is given up comes back.                              *)
(***************************************************************************)
EXTENDS ClientSide, FieldPathsProofs

(* Hypotheses *)

\* Where there was a value before, a contributor claims the path with all of its
\* patches or with none.
GrowsOverNothing ==
    \A c \in Contributors : \A g, h \in Patches[c] :
        \A p \in Range(Rendered[g].paths) \ Range(Rendered[h].paths) : ~Has(Original, p)

\* No patch sets a path to the value it had before.
NothingEchoed ==
    \A c \in Contributors : \A h \in Patches[c] : \A p \in Range(Rendered[h].paths) :
        Get(Rendered[h].object, p) # Get(Original, p)

(* The invariant, shapes first *)

Claims(h) == Range(Rendered[h].paths)
Want(h, p) == Get(Rendered[h].object, p)
AllPatches == UNION {Patches[c] : c \in Contributors}
Watched == AllClaimable \cup Others \cup {ForeignPath}

ObjectsOK ==
    /\ obj \in [Contributors -> [phase : {"absent", "live", "leaving", "gone"}, patch : AllPatches]]
    /\ \A c \in Contributors : obj[c].patch \in Patches[c]

\* A pass works on the objects it began with; meanwhile one may have come, or gone.
SnapshotOK ==
    pass.pc # "idle" =>
        /\ pass.snap \in [Contributors ->
                [phase : {"absent", "live", "leaving", "gone"}, patch : AllPatches]]
        /\ \A c \in Contributors :
            /\ pass.snap[c].patch = obj[c].patch
            /\ \/ pass.snap[c].phase = obj[c].phase
               \/ pass.snap[c].phase = "absent" /\ obj[c].phase = "live"
               \/ pass.snap[c].phase = "leaving" /\ obj[c].phase = "gone"
            /\ pass.snap[c].phase = "absent" => c \notin DOMAIN rec \cup DOMAIN seen
            /\ c \in DOMAIN pass.known => pass.snap[c].phase \in {"live", "leaving"}
            /\ pass.snap[c].phase = "leaving" =>
                /\ c \in DOMAIN rec => c \in DOMAIN pass.known
                /\ c \in DOMAIN pass.known => pass.known[c].hash = obj[c].patch
            /\ pass.snap[c].phase = "live" => c \in pass.todo \cup DOMAIN pass.out
            /\ c \in DOMAIN pass.out => pass.snap[c].phase = "live"
            /\ c \in pass.todo => pass.snap[c].phase \in {"live", "leaving"}
        /\ pass.todo \cap DOMAIN pass.out = {}

PassOK ==
    /\ pass \in [pc : {"idle", "read", "update"}, todo : SUBSET Contributors,
                 copy : Trees \cup {Mistake}, snap : {pass.snap},
                 known : {pass.known}, out : {pass.out}]
    /\ DOMAIN pass.out \subseteq Contributors
    /\ pass.pc = "idle" => DOMAIN pass.out = {} /\ DOMAIN pass.known = {}
    /\ pass.pc = "update" => pass.todo # {} /\ pass.copy \in Trees
    /\ SnapshotOK

\* A record owns what its patch claims.
RecordOK(c, r) ==
    /\ r.hash \in Patches[c]
    /\ r.owned = Texts(Rendered[r.hash].paths)
    /\ r.captured = TRUE
    /\ \A t \in DOMAIN r.priors : \E p \in Claims(r.hash) : t = String(p)
    /\ \A p \in Claims(r.hash) : String(p) \in DOMAIN r.priors =>
            r.priors[String(p)] \in Settable(p)

RecordsOK ==
    /\ DOMAIN rec \subseteq Contributors
    /\ \A c \in DOMAIN rec : RecordOK(c, rec[c]) /\ obj[c].phase \in {"live", "leaving"}
    /\ DOMAIN seen \subseteq Contributors
    /\ \A c \in DOMAIN seen : RecordOK(c, seen[c]) /\ obj[c].phase \in {"live", "leaving"}
    /\ DOMAIN pass.known \subseteq Contributors
    /\ \A c \in DOMAIN pass.known : RecordOK(c, pass.known[c])
    /\ \A c \in DOMAIN pass.out :
        RecordOK(c, pass.out[c]) /\ pass.out[c].hash = obj[c].patch

\* The cache is behind, but not by a contributor that leaves, or whose spec it shows
\* as applied.
CacheOK ==
    \A c \in Contributors :
        /\ obj[c].phase = "live" /\ c \in DOMAIN seen =>
            /\ c \in DOMAIN rec
            /\ seen[c].hash = obj[c].patch => rec[c].hash = obj[c].patch
        /\ obj[c].phase = "leaving" =>
            /\ c \in DOMAIN rec => c \in DOMAIN seen /\ rec[c].hash = obj[c].patch
            /\ c \in DOMAIN seen => seen[c].hash = obj[c].patch

ValuesOK ==
    /\ live \in Trees
    /\ \A p \in AllClaimable : Get(live, p) \in Settable(p) \cup {Mistake}
    /\ pass.pc = "update" =>
        \A p \in AllClaimable \cup Others : Get(pass.copy, p) = Get(live, p)

ShapeInv == ObjectsOK /\ PassOK /\ RecordsOK /\ CacheOK /\ ValuesOK /\ OthersKept

(* The invariant, values *)

\* What was there before, or nothing when a capture was lost or overwritten.
Back(p) == Get(live, p) = Get(Original, p) \/ (missed /\ ~Has(live, p))

Set(h, p) == p \in Claims(h) /\ Get(live, p) = Want(h, p)

\* What a record knows of the values there were.
PriorsTrue(r) ==
    \A p \in Claims(r.hash) :
        IF String(p) \in DOMAIN r.priors
        THEN r.priors[String(p)] = Get(Original, p) /\ Has(Original, p)
        ELSE Has(Original, p) => missed

\* What there is of a contributor that lives and is recorded with patch h.
AtHash(c, h) ==
    \A p \in Claimable(c) :
        \/ Set(obj[c].patch, p)
        \/ Set(h, p)
        \/ ~Has(Original, p) /\ ~Has(live, p) /\ p \notin Claims(obj[c].patch) \cap Claims(h)

\* What there is of one that the cache, or a pass, has no record of.
Untold(c, told) ==
    \A p \in Claimable(c) :
        Get(live, p) = Get(Original, p) \/ (Set(obj[c].patch, p) /\ (missed \/ told))

ValuesOf(c) ==
    LET o == obj[c] IN
    /\ o.phase = "absent" => \A p \in Claimable(c) : Get(live, p) = Get(Original, p)
    /\ o.phase = "live" =>
        /\ c \notin DOMAIN seen => Untold(c, c \in DOMAIN pass.out \cup DOMAIN rec)
        /\ pass.pc # "idle" /\ c \notin DOMAIN pass.known => Untold(c, c \in DOMAIN pass.out)
        /\ c \in DOMAIN rec => AtHash(c, rec[c].hash)
        /\ c \in DOMAIN seen => AtHash(c, seen[c].hash)
        /\ c \in DOMAIN pass.known => AtHash(c, pass.known[c].hash)
    /\ o.phase = "leaving" /\ c \in DOMAIN rec => \A p \in Claimable(c) :
            Back(p) \/ (Set(o.patch, p) /\ (pass.pc = "idle" \/ c \in pass.todo))
    /\ o.phase \in {"leaving", "gone"} /\ c \notin DOMAIN rec =>
            \A p \in Claimable(c) : Back(p)
    /\ c \in DOMAIN pass.out => \A p \in Claimable(c) :
        IF p \in Claims(o.patch) THEN Get(live, p) = Want(o.patch, p)
        ELSE Get(live, p) = Get(Original, p)

AllPriorsTrue ==
    /\ \A c \in DOMAIN rec : PriorsTrue(rec[c])
    /\ \A c \in DOMAIN seen : PriorsTrue(seen[c])
    /\ \A c \in DOMAIN pass.known : PriorsTrue(pass.known[c])
    /\ \A c \in DOMAIN pass.out : PriorsTrue(pass.out[c])

ValueInv == (\A c \in Contributors : ValuesOf(c)) /\ AllPriorsTrue

-----------------------------------------------------------------------------
(* Folds over the paths of a contribution *)

Steps(S, k) == [(1..k) \X S -> S]
IsFold(at, S, k, a, F) ==
    /\ at \in [0..k -> S]
    /\ at[0] = a
    /\ \A i \in 1..k : at[i] = F[<<i, at[i - 1]>>]

\* A step that stays in S can be repeated.
LEMMA FoldExists ==
    ASSUME NEW S, NEW a \in S, NEW k \in Nat, NEW F \in Steps(S, k)
    PROVE  \E at : IsFold(at, S, k, a, F)
<1> DEFINE UpTo(j) == \E at \in [0..j -> S] :
                        at[0] = a /\ \A i \in 1..j : at[i] = F[<<i, at[i - 1]>>]
           Bad == {j \in 0..k : ~UpTo(j)}
<1> USE DEF Steps
<1>1. UpTo(0)
  <2> DEFINE at == [i \in 0..0 |-> a]
  <2>1. at \in [0..0 -> S] /\ at[0] = a /\ \A i \in 1..0 : at[i] = F[<<i, at[i - 1]>>]
    OBVIOUS
  <2> HIDE DEF at
  <2> QED
    BY <2>1
<1>2. ASSUME NEW j \in 1..k, UpTo(j - 1)
      PROVE  UpTo(j)
  <2>1. PICK at \in [0..(j - 1) -> S] :
            at[0] = a /\ \A i \in 1..(j - 1) : at[i] = F[<<i, at[i - 1]>>]
    BY <1>2
  <2> DEFINE next == [i \in 0..j |-> IF i < j THEN at[i] ELSE F[<<j, at[j - 1]>>]]
  <2>2. at[j - 1] \in S
    BY <2>1
  <2>3. F[<<j, at[j - 1]>>] \in S
    BY <2>2
  <2>4. next \in [0..j -> S]
    BY <2>3
  <2>5. next[0] = a
    BY <2>1
  <2>6. ASSUME NEW i \in 1..j
        PROVE  next[i] = F[<<i, next[i - 1]>>]
    <3>1. i - 1 \in 0..j /\ i - 1 < j
      OBVIOUS
    <3>2. next[i - 1] = at[i - 1]
      BY <3>1
    <3>3. CASE i < j
      <4>1. i \in 1..(j - 1)
        BY <3>3
      <4> QED
        BY <2>1, <3>2, <3>3, <4>1
    <3>4. CASE i = j
      <4>1. next[j] = F[<<j, at[j - 1]>>]
        OBVIOUS
      <4> HIDE DEF next
      <4> QED
        BY <3>2, <3>4, <4>1
    <3>5. i < j \/ i = j
      OBVIOUS
    <3> QED
      BY <3>3, <3>4, <3>5
  <2> HIDE DEF next
  <2> QED
    BY <2>4, <2>5, <2>6
<1>3. Bad = {}
  <2> HIDE DEF UpTo
  <2>1. SUFFICES ASSUME Bad # {} PROVE FALSE
    OBVIOUS
  <2>2. Bad \subseteq Nat
    OBVIOUS
  <2>3. PICK j \in Bad : \A i \in Bad : j <= i
    BY <2>1, <2>2, LeastNatural
  <2>4. j # 0
    BY <1>1
  <2>5. j \in 1..k /\ j - 1 \in 0..k /\ j - 1 \notin Bad
    BY <2>3, <2>4
  <2> QED
    BY <1>2, <2>3, <2>5
<1> HIDE DEF UpTo
<1>4. UpTo(k)
  BY <1>3
<1> QED
  BY <1>4 DEF UpTo, IsFold

\* What holds at the start and is carried on by every step holds at the end.
LEMMA FoldInvariant ==
    ASSUME NEW k \in Nat, NEW at, NEW J, at[0] \in J[0],
           \A i \in 1..k : at[i - 1] \in J[i - 1] => at[i] \in J[i]
    PROVE  at[k] \in J[k]
<1> DEFINE Bad == {j \in 0..k : at[j] \notin J[j]}
<1>1. SUFFICES ASSUME Bad # {} PROVE FALSE
  OBVIOUS
<1>2. Bad \subseteq Nat
  OBVIOUS
<1>3. PICK j \in Bad : \A i \in Bad : j <= i
  BY <1>1, <1>2, LeastNatural
<1>4. j \in 1..k /\ j - 1 \in 0..k /\ j - 1 \notin Bad
  BY <1>3
<1> QED
  BY <1>3, <1>4

\* The contributor a pass turns to is one it has left to visit.
LEMMA TurnIn ==
    ASSUME pass.todo \subseteq Contributors, pass.todo # {}
    PROVE  Turn \in pass.todo
<1> DEFINE leaving == {c \in pass.todo : pass.snap[c].phase = "leaving"}
           first == IF leaving # {} THEN leaving ELSE pass.todo
<1>1. first # {} /\ first \subseteq pass.todo /\ first \subseteq Nat
  BY ContributorsAssumption
<1>2. \E c \in first : \A d \in first : c <= d
  BY <1>1, LeastNatural
<1>3. Turn = CHOOSE c \in first : \A d \in first : c <= d
  BY DEF Turn
<1> HIDE DEF first
<1> QED
  BY <1>1, <1>2, <1>3


-----------------------------------------------------------------------------
(* What the applier does to a tree *)

\* The value a withdrawal leaves at p.
Withdrawn(priors, p) == IF String(p) \in DOMAIN priors THEN priors[String(p)] ELSE Mistake

\* What is recorded of the paths h claims may be set again.
PriorsFit(h, priors) ==
    \A p \in Claims(h) : String(p) \in DOMAIN priors => priors[String(p)] \in Settable(p)

\* m is n without the paths of h that are not among the claimed.
IsWithdrawn(m, n, h, claimed, priors) ==
    /\ m \in Trees
    /\ \A q \in Watched :
        Get(m, q) = IF q \in Claims(h) /\ String(q) \notin claimed
                    THEN Withdrawn(priors, q) ELSE Get(n, q)

\* A contributor's paths are a sequence of paths that may be claimed.
LEMMA PathsOf ==
    ASSUME NEW c \in Contributors, NEW h \in Patches[c]
    PROVE  LET paths == Rendered[h].paths IN
           /\ paths \in Seq(AllClaimable)
           /\ Len(paths) \in Nat /\ DOMAIN paths = 1..Len(paths)
           /\ Claims(h) = {paths[i] : i \in 1..Len(paths)}
           /\ Claims(h) \subseteq Claimable(c) /\ Claims(h) \subseteq AllClaimable
           /\ Claims(h) \subseteq Watched
<1>1. Rendered[h].paths \in Seq(Claimable(c))
  BY PatchesAssumption
<1>2. Claimable(c) \subseteq AllClaimable /\ AllClaimable \subseteq Watched
  BY DEF AllClaimable, Watched
<1>3. Claims(h) \subseteq Claimable(c)
  BY DEF Claims, Claimable
<1>4. Rendered[h].paths \in Seq(AllClaimable)
  BY <1>1, <1>2
<1>5. Claims(h) = {Rendered[h].paths[i] : i \in DOMAIN Rendered[h].paths}
  BY DEF Claims, Range
<1> QED
  BY <1>2, <1>3, <1>4, <1>5

\* restoreOrDelete changes its own path, to the prior or to nothing.
LEMMA RestoreLaw ==
    ASSUME PathLaws, NEW n \in Trees, NEW p \in AllClaimable, NEW priors,
           String(p) \in DOMAIN priors => priors[String(p)] \in Settable(p)
    PROVE  LET m == RestoreOrDelete(n, p, priors) IN
           m \in Trees /\ Get(m, p) = Withdrawn(priors, p) /\ SameBut(n, m, p)
<1>1. CASE String(p) \in DOMAIN priors
  <2> DEFINE m == SetIn(n, p, priors[String(p)])
  <2>1. m \in Trees /\ Get(m, p) = priors[String(p)] /\ SameBut(n, m, p)
    BY <1>1 DEF PathLaws, SetLaw
  <2>2. m # Mistake
    BY <2>1 DEF PathLaws
  <2>3. RestoreOrDelete(n, p, priors) = m
    BY <1>1, <2>2 DEF RestoreOrDelete
  <2> QED
    BY <1>1, <2>1, <2>3 DEF Withdrawn
<1>2. CASE String(p) \notin DOMAIN priors
  <2>1. RestoreOrDelete(n, p, priors) = Delete(n, p)
    BY <1>2 DEF RestoreOrDelete
  <2> QED
    BY <1>2, <2>1 DEF Withdrawn, PathLaws, DeleteLaw, Has
<1> QED
  BY <1>1, <1>2

\* Withdraw changes the paths it is given, but for those that stay claimed.
LEMMA WithdrawLaw ==
    ASSUME PathLaws, NEW c \in Contributors, NEW h \in Patches[c], NEW n \in Trees,
           NEW claimed, NEW priors, PriorsFit(h, priors)
    PROVE  IsWithdrawn(Withdraw(n, Rendered[h].paths, claimed, priors), n, h, claimed, priors)
<1> DEFINE paths == Rendered[h].paths
           k == Len(paths)
           Step(i, m) == IF String(paths[i]) \in claimed THEN m
                         ELSE RestoreOrDelete(m, paths[i], priors)
           F == [x \in (1..k) \X Trees |-> Step(x[1], x[2])]
           Eqn(f) == f = [i \in 0..k |->
                            IF i = 0 THEN n
                            ELSE IF String(paths[i]) \in claimed THEN f[i - 1]
                            ELSE RestoreOrDelete(f[i - 1], paths[i], priors)]
           Done(i) == {paths[j] : j \in 1..i}
           J == [i \in 0..k |-> {m \in Trees : \A q \in Watched :
                    Get(m, q) = IF q \in Done(i) /\ String(q) \notin claimed
                                THEN Withdrawn(priors, q) ELSE Get(n, q)}]
<1>1. k \in Nat /\ Claims(h) = {paths[i] : i \in 1..k} /\ Claims(h) \subseteq AllClaimable
  BY PathsOf
<1>2. Withdraw(n, paths, claimed, priors) = (CHOOSE f : Eqn(f))[k]
  BY DEF Withdraw
<1>3. ASSUME NEW i \in 1..k, NEW m \in Trees
      PROVE  /\ Step(i, m) \in Trees
             /\ SameBut(m, Step(i, m), paths[i])
             /\ String(paths[i]) \notin claimed =>
                    Get(Step(i, m), paths[i]) = Withdrawn(priors, paths[i])
             /\ String(paths[i]) \in claimed => Step(i, m) = m
  <2>1. paths[i] \in Claims(h) /\ paths[i] \in AllClaimable
    BY <1>1
  <2>2. CASE String(paths[i]) \in claimed
    BY <2>2 DEF SameBut
  <2>3. CASE String(paths[i]) \notin claimed
    <3>1. Step(i, m) = RestoreOrDelete(m, paths[i], priors)
      BY <2>3
    <3> QED
      BY <2>1, <2>3, <3>1, RestoreLaw DEF PriorsFit
  <2> QED
    BY <2>2, <2>3
<1>4. F \in [(1..k) \X Trees -> Trees]
  <2> HIDE DEF Step
  <2> QED
    BY <1>3
<1>5. PICK at \in [0..k -> Trees] : at[0] = n /\ \A i \in 1..k : at[i] = F[<<i, at[i - 1]>>]
  <2>1. k \in Nat /\ F \in Steps(Trees, k)
    BY <1>1, <1>4 DEF Steps
  <2> HIDE DEF F, k
  <2>2. \E at : IsFold(at, Trees, k, n, F)
    BY <2>1, FoldExists
  <2> QED
    BY <2>2 DEF IsFold
<1>6. ASSUME NEW i \in 1..k
      PROVE  at[i - 1] \in Trees /\ at[i] = Step(i, at[i - 1])
  <2>1. i - 1 \in 0..k
    BY <1>1
  <2>2. at[i - 1] \in Trees
    BY <1>5, <2>1
  <2>3. at[i] = F[<<i, at[i - 1]>>]
    BY <1>5
  <2> HIDE DEF Step
  <2>4. F[<<i, at[i - 1]>>] = Step(i, at[i - 1])
    BY <2>2
  <2> QED
    BY <2>2, <2>3, <2>4
<1>7. \E f : Eqn(f)
  <2> DEFINE e(i) == IF i = 0 THEN n
                     ELSE IF String(paths[i]) \in claimed THEN at[i - 1]
                     ELSE RestoreOrDelete(at[i - 1], paths[i], priors)
  <2>1. at = [i \in 0..k |-> at[i]]
    BY <1>5
  <2>2. ASSUME NEW i \in 0..k
        PROVE  at[i] = e(i)
    <3>1. CASE i = 0
      BY <1>5, <3>1
    <3>2. CASE i # 0
      <4>1. i \in 1..k
        BY <1>1, <3>2
      <4> QED
        BY <1>6, <3>2, <4>1
    <3> QED
      BY <3>1, <3>2
  <2>3. [i \in 0..k |-> at[i]] = [i \in 0..k |-> e(i)]
    <3> HIDE DEF e
    <3> QED
      BY <2>2
  <2>4. at = [i \in 0..k |-> e(i)]
    BY <2>1, <2>3
  <2>5. Eqn(at)
    BY <2>4
  <2> HIDE DEF Eqn
  <2> QED
    BY <2>5
<1>8. PICK f : Eqn(f) /\ Withdraw(n, paths, claimed, priors) = f[k]
  <2> HIDE DEF Eqn
  <2> QED
    BY <1>2, <1>7
<1>9. f[0] = n /\ \A i \in 1..k : f[i] = Step(i, f[i - 1])
  <2>1. \A i \in 0..k : f[i] = IF i = 0 THEN n ELSE Step(i, f[i - 1])
    BY <1>8
  <2>2. 0 \in 0..k /\ \A i \in 1..k : i \in 0..k /\ i # 0
    BY <1>1
  <2> HIDE DEF Step, k
  <2> QED
    BY <2>1, <2>2
<1>10. f[0] \in J[0]
  BY <1>1, <1>9
<1>11. ASSUME NEW i \in 1..k, f[i - 1] \in J[i - 1]
       PROVE  f[i] \in J[i]
  <2> DEFINE m == f[i - 1]
  <2>1. /\ i - 1 \in 0..k /\ m \in Trees
        /\ \A q \in Watched :
            Get(m, q) = IF q \in Done(i - 1) /\ String(q) \notin claimed
                        THEN Withdrawn(priors, q) ELSE Get(n, q)
    BY <1>1, <1>11
  <2>2. f[i] = Step(i, m)
    BY <1>9
  <2>3. Done(i) = Done(i - 1) \cup {paths[i]}
    <3>1. 1..i = (1..(i - 1)) \cup {i}
      OBVIOUS
    <3> QED
      BY <3>1
  <2> HIDE DEF Step, Done, m, J, k, F
  <2>4. f[i] \in Trees
    BY <1>3, <2>1, <2>2
  <2>5. ASSUME NEW q \in Watched
        PROVE  Get(f[i], q) = IF q \in Done(i) /\ String(q) \notin claimed
                              THEN Withdrawn(priors, q) ELSE Get(n, q)
    <3>1. CASE q = paths[i]
      <4>1. CASE String(q) \in claimed
        <5>1. f[i] = m
          BY <1>3, <2>1, <2>2, <3>1, <4>1
        <5> QED
          BY <2>1, <4>1, <5>1
      <4>2. CASE String(q) \notin claimed
        BY <1>3, <2>1, <2>2, <2>3, <3>1, <4>2
      <4> QED
        BY <4>1, <4>2
    <3>2. CASE q # paths[i]
      <4>1. Get(f[i], q) = Get(m, q)
        BY <1>3, <2>1, <2>2, <3>2 DEF SameBut, Watched
      <4> QED
        BY <2>1, <2>3, <3>2, <4>1
    <3> QED
      BY <3>1, <3>2
  <2> QED
    BY <1>1, <2>4, <2>5 DEF J
<1>12. f[k] \in J[k]
  <2> HIDE DEF J, k, Step
  <2> QED
    BY <1>1, <1>10, <1>11, FoldInvariant
<1>13. Claims(h) = Done(k)
  BY <1>1
<1> HIDE DEF Done, k
<1>14. k \in 0..k
  BY <1>1
<1> QED
  BY <1>8, <1>12, <1>13, <1>14 DEF IsWithdrawn

\* What may be set: what a patch wants, and what was there.
LEMMA SettableValues ==
    ASSUME NEW p \in AllClaimable
    PROVE  /\ \A c \in Contributors : \A h \in Patches[c] :
                p \in Claims(h) => Want(h, p) \in Settable(p)
           /\ Has(Original, p) => Get(Original, p) \in Settable(p)
           /\ Mistake \notin Settable(p)
<1>1. p # ForeignPath
  BY PatchesAssumption
<1>2. Settable(p) = {Want(h, p) : h \in {g \in AllPatches : p \in Claims(g)}}
                    \cup ({Get(Original, p)} \ {Mistake})
  BY <1>1 DEF Settable, Want, Claims, AllPatches
<1>3. \A c \in Contributors : \A h \in Patches[c] : h \in AllPatches
  BY DEF AllPatches
<1>4. \A h \in AllPatches : p \in Claims(h) => Want(h, p) # Mistake
  BY PatchesAssumption DEF AllPatches, Claims, Want, Has
<1> QED
  BY <1>2, <1>3, <1>4 DEF Has

\* The claimed paths get what the contribution has there; nothing else changes.
LEMMA SetPathsLaw ==
    ASSUME PathLaws, NEW c \in Contributors, NEW h \in Patches[c], NEW n \in Trees
    PROVE  LET m == SetPaths(n, Rendered[h]) IN
           /\ m \in Trees
           /\ \A q \in Watched :
                Get(m, q) = IF q \in Claims(h) THEN Want(h, q) ELSE Get(n, q)
<1> DEFINE paths == Rendered[h].paths
           k == Len(paths)
           Step(i, m) == SetIn(m, paths[i], Want(h, paths[i]))
           F == [x \in (1..k) \X Trees |-> Step(x[1], x[2])]
           Eqn(f) == f = [i \in 0..k |->
                            IF i = 0 THEN n
                            ELSE SetIn(f[i - 1], paths[i], Get(Rendered[h].object, paths[i]))]
           Done(i) == {paths[j] : j \in 1..i}
           J == [i \in 0..k |-> {m \in Trees : \A q \in Watched :
                    Get(m, q) = IF q \in Done(i) THEN Want(h, q) ELSE Get(n, q)}]
<1>1. k \in Nat /\ Claims(h) = {paths[i] : i \in 1..k} /\ Claims(h) \subseteq AllClaimable
  BY PathsOf
<1>2. SetPaths(n, Rendered[h]) = (CHOOSE f : Eqn(f))[k]
  BY DEF SetPaths
<1>3. ASSUME NEW i \in 1..k, NEW m \in Trees
      PROVE  /\ Step(i, m) \in Trees
             /\ SameBut(m, Step(i, m), paths[i])
             /\ Get(Step(i, m), paths[i]) = Want(h, paths[i])
  <2>1. paths[i] \in Claims(h) /\ paths[i] \in AllClaimable
    BY <1>1
  <2>2. Want(h, paths[i]) \in Settable(paths[i])
    BY <2>1, SettableValues
  <2> QED
    BY <2>1, <2>2 DEF PathLaws, SetLaw
<1>4. F \in [(1..k) \X Trees -> Trees]
  <2> HIDE DEF Step
  <2> QED
    BY <1>3
<1>5. PICK at \in [0..k -> Trees] : at[0] = n /\ \A i \in 1..k : at[i] = F[<<i, at[i - 1]>>]
  <2>1. k \in Nat /\ F \in Steps(Trees, k)
    BY <1>1, <1>4 DEF Steps
  <2> HIDE DEF F, k
  <2>2. \E at : IsFold(at, Trees, k, n, F)
    BY <2>1, FoldExists
  <2> QED
    BY <2>2 DEF IsFold
<1>6. ASSUME NEW i \in 1..k
      PROVE  at[i - 1] \in Trees /\ at[i] = Step(i, at[i - 1])
  <2>1. i - 1 \in 0..k
    BY <1>1
  <2>2. at[i - 1] \in Trees
    BY <1>5, <2>1
  <2>3. at[i] = F[<<i, at[i - 1]>>]
    BY <1>5
  <2> HIDE DEF Step
  <2>4. F[<<i, at[i - 1]>>] = Step(i, at[i - 1])
    BY <2>2
  <2> QED
    BY <2>2, <2>3, <2>4
<1>7. \E f : Eqn(f)
  <2> DEFINE e(i) == IF i = 0 THEN n
                     ELSE SetIn(at[i - 1], paths[i], Get(Rendered[h].object, paths[i]))
  <2>1. at = [i \in 0..k |-> at[i]]
    BY <1>5
  <2>2. ASSUME NEW i \in 0..k
        PROVE  at[i] = e(i)
    <3>1. CASE i = 0
      BY <1>5, <3>1
    <3>2. CASE i # 0
      <4>1. i \in 1..k
        BY <1>1, <3>2
      <4> QED
        BY <1>6, <3>2, <4>1 DEF Want
    <3> QED
      BY <3>1, <3>2
  <2>3. [i \in 0..k |-> at[i]] = [i \in 0..k |-> e(i)]
    <3> HIDE DEF e
    <3> QED
      BY <2>2
  <2>4. at = [i \in 0..k |-> e(i)]
    BY <2>1, <2>3
  <2>5. Eqn(at)
    BY <2>4
  <2> HIDE DEF Eqn
  <2> QED
    BY <2>5
<1>8. PICK f : Eqn(f) /\ SetPaths(n, Rendered[h]) = f[k]
  <2> HIDE DEF Eqn
  <2> QED
    BY <1>2, <1>7
<1>9. f[0] = n /\ \A i \in 1..k : f[i] = Step(i, f[i - 1])
  <2>1. \A i \in 0..k : f[i] = IF i = 0 THEN n ELSE Step(i, f[i - 1])
    BY <1>8 DEF Want
  <2>2. 0 \in 0..k /\ \A i \in 1..k : i \in 0..k /\ i # 0
    BY <1>1
  <2> HIDE DEF Step, k
  <2> QED
    BY <2>1, <2>2
<1>10. f[0] \in J[0]
  BY <1>1, <1>9
<1>11. ASSUME NEW i \in 1..k, f[i - 1] \in J[i - 1]
       PROVE  f[i] \in J[i]
  <2> DEFINE m == f[i - 1]
  <2>1. /\ i - 1 \in 0..k /\ m \in Trees
        /\ \A q \in Watched :
            Get(m, q) = IF q \in Done(i - 1) THEN Want(h, q) ELSE Get(n, q)
    BY <1>1, <1>11
  <2>2. f[i] = Step(i, m)
    BY <1>9
  <2>3. Done(i) = Done(i - 1) \cup {paths[i]}
    <3>1. 1..i = (1..(i - 1)) \cup {i}
      OBVIOUS
    <3> QED
      BY <3>1
  <2> HIDE DEF Step, Done, m, J, k, F
  <2>4. f[i] \in Trees
    BY <1>3, <2>1, <2>2
  <2>5. ASSUME NEW q \in Watched
        PROVE  Get(f[i], q) = IF q \in Done(i) THEN Want(h, q) ELSE Get(n, q)
    <3>1. CASE q = paths[i]
      BY <1>3, <2>1, <2>2, <2>3, <3>1
    <3>2. CASE q # paths[i]
      <4>1. Get(f[i], q) = Get(m, q)
        BY <1>3, <2>1, <2>2, <3>2 DEF SameBut, Watched
      <4> QED
        BY <2>1, <2>3, <3>2, <4>1
    <3> QED
      BY <3>1, <3>2
  <2> QED
    BY <1>1, <2>4, <2>5 DEF J
<1>12. f[k] \in J[k]
  <2> HIDE DEF J, k, Step
  <2> QED
    BY <1>1, <1>10, <1>11, FoldInvariant
<1>13. Claims(h) = Done(k)
  BY <1>1
<1> HIDE DEF Done, k
<1>14. k \in 0..k
  BY <1>1
<1> QED
  BY <1>8, <1>12, <1>13, <1>14

\* Paths that went to the status as text come back.
LEMMA TextsReadBack ==
    ASSUME PathLaws, NEW c \in Contributors, NEW h \in Patches[c]
    PROVE  /\ ParsePaths(Texts(Rendered[h].paths)) = Rendered[h].paths
           /\ Range(Texts(Rendered[h].paths)) = {String(p) : p \in Claims(h)}
           /\ \A p, q \in AllClaimable : String(p) = String(q) => p = q
<1> DEFINE paths == Rendered[h].paths
<1>1. /\ DOMAIN paths = 1..Len(paths) /\ paths \in Seq(AllClaimable)
      /\ Claims(h) = {paths[i] : i \in 1..Len(paths)}
      /\ Claims(h) \subseteq AllClaimable
  BY PathsOf
<1>2. \A p \in AllClaimable : Parse(String(p)) = p
  BY DEF PathLaws, TextLaw
<1>3. paths = [i \in DOMAIN paths |-> paths[i]]
  BY <1>1
<1>4. \A i \in DOMAIN paths : Parse(String(paths[i])) = paths[i]
  BY <1>1, <1>2
<1> HIDE DEF paths
<1>5. DOMAIN Texts(paths) = DOMAIN paths
  BY DEF Texts
<1>6. \A i \in DOMAIN paths : Texts(paths)[i] = String(paths[i])
  BY DEF Texts
<1>7. ParsePaths(Texts(paths)) = [i \in DOMAIN paths |-> Parse(String(paths[i]))]
  BY <1>5, <1>6 DEF ParsePaths
<1>8. ParsePaths(Texts(paths)) = paths
  BY <1>3, <1>4, <1>7
<1>9. Range(Texts(paths)) = {String(p) : p \in Claims(h)}
  BY <1>1, <1>5, <1>6 DEF Range
<1>10. \A p, q \in AllClaimable : String(p) = String(q) => p = q
  BY <1>2
<1> QED
  BY <1>8, <1>9, <1>10 DEF paths


\* Nothing to withdraw.
LEMMA WithdrawNothing ==
    ASSUME NEW n, NEW claimed, NEW priors
    PROVE  Withdraw(n, ParsePaths(<<>>), claimed, priors) = n
<1> DEFINE paths == ParsePaths(<<>>)
           Eqn(f) == f = [i \in 0..Len(paths) |->
                            IF i = 0 THEN n
                            ELSE IF String(paths[i]) \in claimed THEN f[i - 1]
                            ELSE RestoreOrDelete(f[i - 1], paths[i], priors)]
<1>1. Len(paths) = 0
  BY DEF ParsePaths
<1>2. Withdraw(n, paths, claimed, priors) = (CHOOSE f : Eqn(f))[Len(paths)]
  BY DEF Withdraw
<1> HIDE DEF paths
<1>3. \E f : Eqn(f)
  <2> DEFINE g == [i \in 0..0 |-> n]
             e(i) == IF i = 0 THEN n
                     ELSE IF String(paths[i]) \in claimed THEN g[i - 1]
                     ELSE RestoreOrDelete(g[i - 1], paths[i], priors)
  <2>1. \A i \in 0..Len(paths) : i = 0
    BY <1>1
  <2>2. \A i \in 0..Len(paths) : e(i) = n
    BY <2>1
  <2>3. g = [i \in 0..Len(paths) |-> n]
    BY <1>1
  <2>4. [i \in 0..Len(paths) |-> n] = [i \in 0..Len(paths) |-> e(i)]
    <3> HIDE DEF e
    <3> QED
      BY <2>2
  <2>5. g = [i \in 0..Len(paths) |-> e(i)]
    BY <2>3, <2>4
  <2>6. Eqn(g)
    BY <2>5
  <2> HIDE DEF Eqn
  <2> QED
    BY <2>6
<1>4. PICK f : Eqn(f) /\ Withdraw(n, paths, claimed, priors) = f[Len(paths)]
  <2> HIDE DEF Eqn
  <2> QED
    BY <1>2, <1>3
<1>5. f[0] = n
  <2>1. 0 \in 0..Len(paths)
    BY <1>1
  <2> QED
    BY <1>4, <2>1
<1> QED
  BY <1>1, <1>4, <1>5 DEF paths

\* The first apply of a contributor that is not listed.
LEMMA MergedFresh ==
    ASSUME PathLaws, NEW c \in Contributors, NEW h \in Patches[c], NEW n \in Trees
    PROVE  LET m == Merged(n, Rendered[h], FreshRecord) IN
           /\ m \in Trees
           /\ \A q \in Watched :
                Get(m, q) = IF q \in Claims(h) THEN Want(h, q) ELSE Get(n, q)
<1>1. FreshRecord.owned = <<>>
  BY DEF FreshRecord
<1>2. Merged(n, Rendered[h], FreshRecord) = SetPaths(n, Rendered[h])
  BY <1>1, WithdrawNothing DEF Merged
<1> QED
  BY <1>2, SetPathsLaw

\* What was captured before is not captured again.
LEMMA CapturedOnce ==
    ASSUME NEW n, NEW con, NEW r, r.captured
    PROVE  /\ DOMAIN Capture(n, con, r) = DOMAIN r.priors
           /\ \A t \in DOMAIN r.priors : Capture(n, con, r)[t] = r.priors[t]
BY DEF Capture

\* The apply of a contributor that is listed.
LEMMA MergedListed ==
    ASSUME PathLaws, NEW c \in Contributors, NEW h \in Patches[c], NEW n \in Trees,
           NEW r, RecordOK(c, r)
    PROVE  LET m == Merged(n, Rendered[h], r) IN
           /\ m \in Trees
           /\ \A q \in Watched :
                Get(m, q) = IF q \in Claims(h) THEN Want(h, q)
                            ELSE IF q \in Claims(r.hash) THEN Withdrawn(r.priors, q)
                            ELSE Get(n, q)
<1> DEFINE priors == Capture(n, Rendered[h], r)
           texts == Range(Texts(Rendered[h].paths))
           w == Withdraw(n, Rendered[r.hash].paths, texts, priors)
<1>1. r.hash \in Patches[c] /\ r.owned = Texts(Rendered[r.hash].paths) /\ r.captured = TRUE
  BY DEF RecordOK
<1>2. /\ DOMAIN priors = DOMAIN r.priors
      /\ \A t \in DOMAIN r.priors : priors[t] = r.priors[t]
  <2>1. r.captured
    BY <1>1
  <2> QED
    BY <2>1, CapturedOnce
<1>3. ParsePaths(r.owned) = Rendered[r.hash].paths
  BY <1>1, TextsReadBack
<1>4. Merged(n, Rendered[h], r) = SetPaths(w, Rendered[h])
  BY <1>3 DEF Merged
<1> HIDE DEF priors
<1>5. \A p \in Claims(r.hash) : String(p) \in DOMAIN priors =>
            priors[String(p)] \in Settable(p)
  BY <1>2 DEF RecordOK
<1>6. /\ w \in Trees
      /\ \A q \in Watched :
            Get(w, q) = IF q \in Claims(r.hash) /\ String(q) \notin texts
                        THEN Withdrawn(priors, q) ELSE Get(n, q)
  <2>1. PICK g \in Patches[c] : g = r.hash
    BY <1>1
  <2>2. PriorsFit(g, priors)
    BY <1>5, <2>1 DEF PriorsFit
  <2> HIDE DEF texts
  <2>3. IsWithdrawn(Withdraw(n, Rendered[g].paths, texts, priors), n, g, texts, priors)
    BY <2>2, WithdrawLaw
  <2> QED
    BY <2>1, <2>3 DEF IsWithdrawn
<1>7. \A q : Withdrawn(priors, q) = Withdrawn(r.priors, q)
  BY <1>2 DEF Withdrawn
<1>8. texts = {String(p) : p \in Claims(h)} /\ \A p, q \in AllClaimable : String(p) = String(q) => p = q
  BY TextsReadBack
<1>9. Claims(h) \subseteq AllClaimable /\ Claims(r.hash) \subseteq AllClaimable
  BY <1>1, PathsOf
<1>10. \A q \in Claims(r.hash) : String(q) \in texts <=> q \in Claims(h)
  BY <1>8, <1>9
<1> HIDE DEF w, texts
<1>11. LET m == SetPaths(w, Rendered[h]) IN
       /\ m \in Trees
       /\ \A q \in Watched :
            Get(m, q) = IF q \in Claims(h) THEN Want(h, q) ELSE Get(w, q)
  BY <1>6, SetPathsLaw
<1> QED
  BY <1>4, <1>6, <1>7, <1>10, <1>11

\* A record of h.
Owns(s, h) ==
    /\ s.hash = h /\ s.owned = Texts(Rendered[h].paths) /\ s.captured = TRUE
    /\ \A t \in DOMAIN s.priors : \E p \in Claims(h) : t = String(p)

\* Its priors are what n has and h does not write.
TakesPriors(s, h, n) ==
    \A p \in Claims(h) :
        /\ String(p) \in DOMAIN s.priors <=> Has(n, p) /\ Get(n, p) # Want(h, p)
        /\ String(p) \in DOMAIN s.priors => s.priors[String(p)] = Get(n, p)

\* Its priors are those of r.
CarriesPriors(s, h, r) ==
    \A p \in Claims(h) :
        /\ String(p) \in DOMAIN s.priors <=> String(p) \in DOMAIN r.priors
        /\ String(p) \in DOMAIN s.priors => s.priors[String(p)] = r.priors[String(p)]
        /\ String(p) \in DOMAIN s.priors => p \in Claims(r.hash)

\* What a first apply records: what was there and is not what it writes.
LEMMA RecordFresh ==
    ASSUME PathLaws, NEW c \in Contributors, NEW h \in Patches[c], NEW n
    PROVE  /\ Owns(RecordOf(n, Rendered[h], FreshRecord, h), h)
           /\ TakesPriors(RecordOf(n, Rendered[h], FreshRecord, h), h, n)
<1> DEFINE new == {p \in Claims(h) : Has(n, p) /\ Get(n, p) # Want(h, p)}
           priors == Capture(n, Rendered[h], FreshRecord)
           s == RecordOf(n, Rendered[h], FreshRecord, h)
<1>1. FreshRecord.owned = <<>> /\ FreshRecord.captured = FALSE /\ DOMAIN FreshRecord.priors = {}
  BY DEF FreshRecord
<1>2. new = {p \in Range(Rendered[h].paths) : IsPrior(n, p, Rendered[h], FreshRecord)}
  BY <1>1 DEF IsPrior, Claims, Want
<1>3. priors = [t \in {String(p) : p \in new} |-> Get(n, CHOOSE p \in new : String(p) = t)]
  <2> DEFINE e(t) == Get(n, CHOOSE p \in new : String(p) = t)
             texts == {String(p) : p \in new}
  <2>1. priors = [t \in DOMAIN FreshRecord.priors \cup texts |->
                    IF t \in DOMAIN FreshRecord.priors THEN FreshRecord.priors[t] ELSE e(t)]
    <3>1. new = IF FreshRecord.captured THEN {}
                ELSE {p \in Range(Rendered[h].paths) : IsPrior(n, p, Rendered[h], FreshRecord)}
      BY <1>1, <1>2
    <3> HIDE DEF new
    <3> QED
      BY <3>1 DEF Capture
  <2>2. DOMAIN FreshRecord.priors \cup texts = texts
    BY <1>1
  <2>3. \A t \in texts : t \notin DOMAIN FreshRecord.priors
    BY <1>1
  <2> HIDE DEF e, texts, priors
  <2>4. priors = [t \in texts |-> e(t)]
    BY <2>1, <2>2, <2>3
  <2> QED
    BY <2>4 DEF e, texts
<1>4. Claims(h) \subseteq AllClaimable /\ \A p, q \in AllClaimable : String(p) = String(q) => p = q
  BY PathsOf, TextsReadBack
<1> HIDE DEF priors
<1>5. ASSUME NEW p \in new
      PROVE  priors[String(p)] = Get(n, p)
  <2>1. \A q \in new : String(q) = String(p) => q = p
    BY <1>4
  <2>2. (CHOOSE q \in new : String(q) = String(p)) = p
    BY <1>5, <2>1
  <2> QED
    BY <1>3, <1>5, <2>2
<1>6. DOMAIN priors = {String(p) : p \in new}
  BY <1>3
<1>7. Range(Texts(ParsePaths(<<>>))) = {}
  BY DEF ParsePaths, Texts, Range
<1>8. /\ s.hash = h /\ s.owned = Texts(Rendered[h].paths) /\ s.captured = TRUE
      /\ DOMAIN s.priors = DOMAIN priors
      /\ \A t \in DOMAIN priors : s.priors[t] = priors[t]
  BY <1>1, <1>7 DEF RecordOf, priors
<1>9. \A p \in Claims(h) : String(p) \in DOMAIN priors <=> p \in new
  BY <1>4, <1>6
<1> HIDE DEF s
<1>10. \A t \in DOMAIN s.priors : \E p \in Claims(h) : t = String(p)
  BY <1>6, <1>8
<1>11. \A p \in Claims(h) :
        /\ String(p) \in DOMAIN s.priors <=> Has(n, p) /\ Get(n, p) # Want(h, p)
        /\ String(p) \in DOMAIN s.priors => s.priors[String(p)] = Get(n, p)
  BY <1>5, <1>8, <1>9
<1>12. Owns(s, h) /\ TakesPriors(s, h, n)
  BY <1>8, <1>10, <1>11 DEF Owns, TakesPriors
<1> QED
  BY <1>12 DEF s

\* What a later apply records: the priors of the paths that stay.
LEMMA RecordListed ==
    ASSUME PathLaws, NEW c \in Contributors, NEW h \in Patches[c], NEW n,
           NEW r, RecordOK(c, r)
    PROVE  /\ Owns(RecordOf(n, Rendered[h], r, h), h)
           /\ CarriesPriors(RecordOf(n, Rendered[h], r, h), h, r)
<1> DEFINE priors == Capture(n, Rendered[h], r)
           s == RecordOf(n, Rendered[h], r, h)
           old == {String(p) : p \in Claims(r.hash)}
           texts == {String(p) : p \in Claims(h)}
<1>1. /\ r.hash \in Patches[c] /\ r.owned = Texts(Rendered[r.hash].paths) /\ r.captured = TRUE
      /\ \A t \in DOMAIN r.priors : t \in old
  BY DEF RecordOK
<1>2. /\ DOMAIN priors = DOMAIN r.priors
      /\ \A t \in DOMAIN r.priors : priors[t] = r.priors[t]
  <2>1. r.captured
    BY <1>1
  <2> QED
    BY <2>1, CapturedOnce
<1>3. Range(Texts(ParsePaths(r.owned))) = old
  BY <1>1, TextsReadBack
<1>4. /\ Range(Texts(Rendered[h].paths)) = texts
      /\ \A p, q \in AllClaimable : String(p) = String(q) => p = q
  BY TextsReadBack
<1>5. Claims(h) \subseteq AllClaimable /\ Claims(r.hash) \subseteq AllClaimable
  BY <1>1, PathsOf
<1>6. /\ s.hash = h /\ s.owned = Texts(Rendered[h].paths) /\ s.captured = TRUE
      /\ DOMAIN s.priors = DOMAIN priors \ (old \ texts)
      /\ \A t \in DOMAIN s.priors : s.priors[t] = priors[t]
  <2> HIDE DEF old, texts
  <2> QED
    BY <1>3, <1>4 DEF RecordOf
<1> HIDE DEF s, priors
<1>7. DOMAIN s.priors = DOMAIN r.priors \cap texts
  <2> HIDE DEF old, texts
  <2> QED
    BY <1>1, <1>2, <1>6
<1>8. \A t \in DOMAIN s.priors : \E p \in Claims(h) : t = String(p)
  BY <1>7
<1>9. ASSUME NEW p \in Claims(h), String(p) \in DOMAIN s.priors
      PROVE  p \in Claims(r.hash)
  <2>1. PICK q \in Claims(r.hash) : String(p) = String(q)
    BY <1>1, <1>7, <1>9
  <2> QED
    BY <1>4, <1>5, <2>1
<1>10. \A p \in Claims(h) :
        /\ String(p) \in DOMAIN s.priors <=> String(p) \in DOMAIN r.priors
        /\ String(p) \in DOMAIN s.priors => s.priors[String(p)] = r.priors[String(p)]
  BY <1>2, <1>6, <1>7
<1>11. Owns(s, h) /\ CarriesPriors(s, h, r)
  BY <1>6, <1>8, <1>9, <1>10 DEF Owns, CarriesPriors
<1> QED
  BY <1>11 DEF s


-----------------------------------------------------------------------------
(* What a write of the target does *)

\* The paths of others are not those of c.
LEMMA PathsApart ==
    ASSUME NEW c \in Contributors
    PROVE  /\ Claimable(c) \subseteq AllClaimable /\ Claimable(c) \subseteq Watched
           /\ \A d \in Contributors : d # c => Claimable(c) \cap Claimable(d) = {}
           /\ ForeignPath \notin Claimable(c) /\ Others \cap Claimable(c) = {}
           /\ \A h \in Patches[c] : Claims(h) \subseteq Claimable(c)
BY PatchesAssumption DEF AllClaimable, Watched, Claimable, Claims

\* What the target is to become, given what was read.
DesiredAt(c, q, was) ==
    LET h == pass.snap[c].patch
        listed == c \in DOMAIN pass.known
    IN  IF pass.snap[c].phase # "leaving" /\ q \in Claims(h) THEN Want(h, q)
        ELSE IF listed /\ q \in Claims(pass.known[c].hash) THEN Withdrawn(pass.known[c].priors, q)
        ELSE was

LEMMA DesiredLaw ==
    ASSUME PathLaws, ShapeInv, NEW c \in Contributors, pass.pc = "update"
    PROVE  /\ Desired(c) \in Trees
           /\ \A q \in Watched : Get(Desired(c), q) = DesiredAt(c, q, Get(pass.copy, q))
<1>1. PICK n \in Trees : n = pass.copy
  BY DEF ShapeInv, PassOK
<1>2. pass.snap[c].patch \in Patches[c]
  BY DEF ShapeInv, PassOK, SnapshotOK, ObjectsOK
<1>3. PICK h \in Patches[c] : h = pass.snap[c].patch
  BY <1>2
<1>4. CASE c \in DOMAIN pass.known
  <2>1. PICK r : r = pass.known[c]
    OBVIOUS
  <2>2. RecordFor(c) = r /\ RecordOK(c, r)
    BY <1>4, <2>1 DEF RecordFor, ShapeInv, RecordsOK
  <2>3. CASE pass.snap[c].phase = "leaving"
    <3>1. PICK g \in Patches[c] : g = r.hash
      BY <2>2 DEF RecordOK
    <3>2. PriorsFit(g, r.priors) /\ r.owned = Texts(Rendered[g].paths)
      BY <2>2, <3>1 DEF RecordOK, PriorsFit
    <3>3. ParsePaths(r.owned) = Rendered[g].paths
      BY <3>2, TextsReadBack
    <3>4. Desired(c) = Withdraw(n, Rendered[g].paths, {}, r.priors)
      BY <1>1, <2>2, <2>3, <3>3 DEF Desired
    <3>5. PICK priors : priors = r.priors
      OBVIOUS
    <3>6. IsWithdrawn(Withdraw(n, Rendered[g].paths, {}, priors), n, g, {}, priors)
      BY <3>2, <3>5, WithdrawLaw
    <3>7. \A q : DesiredAt(c, q, Get(n, q)) =
                    IF q \in Claims(g) THEN Withdrawn(priors, q) ELSE Get(n, q)
      BY <1>4, <2>1, <2>3, <3>1, <3>5 DEF DesiredAt
    <3> QED
      BY <1>1, <3>4, <3>5, <3>6, <3>7 DEF IsWithdrawn
  <2>4. CASE pass.snap[c].phase # "leaving"
    <3>1. Desired(c) = Merged(n, Rendered[h], r)
      BY <1>1, <1>3, <2>2, <2>4 DEF Desired, Contribution
    <3>2. LET m == Merged(n, Rendered[h], r) IN
           /\ m \in Trees
           /\ \A q \in Watched :
                Get(m, q) = IF q \in Claims(h) THEN Want(h, q)
                            ELSE IF q \in Claims(r.hash) THEN Withdrawn(r.priors, q)
                            ELSE Get(n, q)
      BY <2>2, MergedListed
    <3>3. \A q : DesiredAt(c, q, Get(n, q)) =
                    IF q \in Claims(h) THEN Want(h, q)
                    ELSE IF q \in Claims(r.hash) THEN Withdrawn(r.priors, q)
                    ELSE Get(n, q)
      BY <1>3, <1>4, <2>1, <2>4 DEF DesiredAt
    <3> QED
      BY <1>1, <3>1, <3>2, <3>3
  <2> QED
    BY <2>3, <2>4
<1>5. CASE c \notin DOMAIN pass.known
  <2>1. RecordFor(c) = FreshRecord /\ FreshRecord.owned = <<>>
    BY <1>5 DEF RecordFor, FreshRecord
  <2>2. CASE pass.snap[c].phase = "leaving"
    <3>1. PICK priors : priors = FreshRecord.priors
      OBVIOUS
    <3>2. Desired(c) = Withdraw(n, ParsePaths(<<>>), {}, priors)
      BY <1>1, <2>1, <2>2, <3>1 DEF Desired
    <3>3. Desired(c) = n
      BY <3>2, WithdrawNothing
    <3> QED
      BY <1>1, <1>5, <2>2, <3>3 DEF DesiredAt
  <2>3. CASE pass.snap[c].phase # "leaving"
    <3>1. Desired(c) = Merged(n, Rendered[h], FreshRecord)
      BY <1>1, <1>3, <2>1, <2>3 DEF Desired, Contribution
    <3>2. LET m == Merged(n, Rendered[h], FreshRecord) IN
           /\ m \in Trees
           /\ \A q \in Watched :
                Get(m, q) = IF q \in Claims(h) THEN Want(h, q) ELSE Get(n, q)
      BY MergedFresh
    <3>3. \A q : DesiredAt(c, q, Get(n, q)) =
                    IF q \in Claims(h) THEN Want(h, q) ELSE Get(n, q)
      BY <1>3, <1>5, <2>3 DEF DesiredAt
    <3> QED
      BY <1>1, <3>1, <3>2, <3>3
  <2> QED
    BY <2>2, <2>3
<1> QED
  BY <1>4, <1>5

\* A write changes the paths of the contributor it is for, and no other.
LEMMA UpdateLaw ==
    ASSUME PathLaws, ShapeInv, NEW c \in Contributors, Update(c)
    PROVE  /\ c \in pass.todo /\ pass.pc = "update"
           /\ live' \in Trees
           /\ OthersKept'
           /\ \A p \in Claimable(c) : Get(live', p) = DesiredAt(c, p, Get(live, p))
           /\ \A d \in Contributors : d # c =>
                \A p \in Claimable(d) : Get(live', p) = Get(live, p)
<1>1. pass.pc = "update" /\ c = Turn /\ pass.todo # {} /\ pass.todo \subseteq Contributors
  BY DEF Update, ShapeInv, PassOK
<1>2. c \in pass.todo
  BY <1>1, TurnIn
<1>3. /\ Desired(c) \in Trees
      /\ \A q \in Watched : Get(Desired(c), q) = DesiredAt(c, q, Get(pass.copy, q))
  BY <1>1, DesiredLaw
<1>4. live \in Trees /\ \A p \in AllClaimable \cup Others : Get(pass.copy, p) = Get(live, p)
  BY <1>1 DEF ShapeInv, ValuesOK
<1>5. /\ Desired(c) = pass.copy \/ live = pass.copy
      /\ live' = IF Desired(c) = pass.copy THEN live ELSE Desired(c)
      /\ theirs' = theirs
  BY DEF Update, Accepted
<1>6. pass.snap[c].patch \in Patches[c] /\ (c \in DOMAIN pass.known => pass.known[c].hash \in Patches[c])
  BY <1>1 DEF ShapeInv, PassOK, SnapshotOK, ObjectsOK, RecordsOK, RecordOK
<1>7. \A q : q \notin Claimable(c) => DesiredAt(c, q, Get(pass.copy, q)) = Get(pass.copy, q)
  BY <1>6, PathsApart DEF DesiredAt
<1>8. live' \in Trees
  BY <1>3, <1>4, <1>5
<1>9. \A q \in AllClaimable \cup Others : Get(live', q) = Get(Desired(c), q)
  BY <1>4, <1>5
<1>10. \A q \in AllClaimable \cup Others : q \in Watched
  BY DEF Watched
<1>11. ASSUME NEW p \in Claimable(c)
       PROVE  Get(live', p) = DesiredAt(c, p, Get(live, p))
  <2>1. p \in AllClaimable
    BY <1>11, PathsApart
  <2> QED
    BY <1>3, <1>4, <1>9, <1>10, <2>1
<1>12. ASSUME NEW q \in AllClaimable \cup Others, q \notin Claimable(c)
       PROVE  Get(live', q) = Get(live, q)
  BY <1>3, <1>4, <1>7, <1>9, <1>10, <1>12
<1>13. ASSUME NEW d \in Contributors, d # c, NEW p \in Claimable(d)
       PROVE  Get(live', p) = Get(live, p)
  <2>1. p \in AllClaimable /\ p \notin Claimable(c)
    BY <1>13, PathsApart
  <2> QED
    BY <1>12, <2>1
<1>14. Get(live', ForeignPath) = theirs
  <2>1. Get(live, ForeignPath) = theirs
    BY DEF ShapeInv, OthersKept
  <2>2. CASE Desired(c) = pass.copy
    BY <1>5, <2>1, <2>2
  <2>3. CASE Desired(c) # pass.copy
    <3>1. ForeignPath \in Watched /\ ForeignPath \notin Claimable(c)
      BY PathsApart DEF Watched
    <3>2. Get(Desired(c), ForeignPath) = Get(pass.copy, ForeignPath)
      BY <1>3, <1>7, <3>1
    <3> QED
      BY <1>5, <2>1, <2>3, <3>2
  <2> QED
    BY <2>2, <2>3
<1>15. \A p \in Others : Get(live', p) = Get(Original, p)
  <2>1. \A p \in Others : Get(live, p) = Get(Original, p) /\ p \notin Claimable(c)
    BY PathsApart DEF ShapeInv, OthersKept
  <2> QED
    BY <1>12, <2>1
<1>16. OthersKept'
  BY <1>5, <1>14, <1>15 DEF OthersKept
<1> QED
  BY <1>1, <1>2, <1>8, <1>11, <1>13, <1>16


\* What an apply records.
NewRecord(c) ==
    RecordOf(pass.copy, Contribution(pass.snap[c]), RecordFor(c), pass.snap[c].patch)

LEMMA NewRecordLaw ==
    ASSUME PathLaws, ShapeInv, NEW c \in Contributors, pass.pc = "update"
    PROVE  LET s == NewRecord(c)
               h == obj[c].patch
           IN
           /\ RecordOK(c, s) /\ s.hash = h
           /\ c \in DOMAIN pass.known => \A p \in Claims(h) :
                /\ String(p) \in DOMAIN s.priors <=> String(p) \in DOMAIN pass.known[c].priors
                /\ String(p) \in DOMAIN s.priors =>
                    s.priors[String(p)] = pass.known[c].priors[String(p)] /\ p \in Claims(pass.known[c].hash)
           /\ c \notin DOMAIN pass.known => \A p \in Claims(h) :
                /\ String(p) \in DOMAIN s.priors <=> Has(live, p) /\ Get(live, p) # Want(h, p)
                /\ String(p) \in DOMAIN s.priors => s.priors[String(p)] = Get(live, p)
<1>1. PICK n \in Trees : n = pass.copy
  BY DEF ShapeInv, PassOK
<1>2. obj[c].patch \in Patches[c] /\ pass.snap[c].patch = obj[c].patch
  BY DEF ShapeInv, PassOK, SnapshotOK, ObjectsOK
<1>3. PICK h \in Patches[c] : h = obj[c].patch
  BY <1>2
<1>4. Claims(h) \subseteq AllClaimable
  BY PathsOf
<1>5. \A p \in Claims(h) : Get(n, p) = Get(live, p) /\ Get(live, p) \in Settable(p) \cup {Mistake}
  BY <1>1, <1>4 DEF ShapeInv, ValuesOK
<1>6. CASE c \in DOMAIN pass.known
  <2>1. PICK r : r = pass.known[c]
    OBVIOUS
  <2>2. RecordFor(c) = r /\ RecordOK(c, r)
    BY <1>6, <2>1 DEF RecordFor, ShapeInv, RecordsOK
  <2>3. PICK s : s = RecordOf(n, Rendered[h], r, h)
    OBVIOUS
  <2>4. NewRecord(c) = s
    BY <1>1, <1>2, <1>3, <2>2, <2>3 DEF NewRecord, Contribution
  <2>5. /\ s.hash = h /\ s.owned = Texts(Rendered[h].paths) /\ s.captured = TRUE
        /\ \A t \in DOMAIN s.priors : \E p \in Claims(h) : t = String(p)
        /\ \A p \in Claims(h) :
            /\ String(p) \in DOMAIN s.priors <=> String(p) \in DOMAIN r.priors
            /\ String(p) \in DOMAIN s.priors => s.priors[String(p)] = r.priors[String(p)]
            /\ String(p) \in DOMAIN s.priors => p \in Claims(r.hash)
    <3>1. Owns(s, h) /\ CarriesPriors(s, h, r)
      BY <2>2, <2>3, RecordListed
    <3> QED
      BY <3>1 DEF Owns, CarriesPriors
  <2>6. \A p \in Claims(h) : String(p) \in DOMAIN s.priors => s.priors[String(p)] \in Settable(p)
    BY <2>2, <2>5 DEF RecordOK
  <2>7. RecordOK(c, s)
    BY <2>5, <2>6 DEF RecordOK
  <2> QED
    BY <1>3, <1>6, <2>1, <2>4, <2>5, <2>7
<1>7. CASE c \notin DOMAIN pass.known
  <2>1. RecordFor(c) = FreshRecord
    BY <1>7 DEF RecordFor
  <2>2. PICK s : s = RecordOf(n, Rendered[h], FreshRecord, h)
    OBVIOUS
  <2>3. NewRecord(c) = s
    BY <1>1, <1>2, <1>3, <2>1, <2>2 DEF NewRecord, Contribution
  <2>4. /\ s.hash = h /\ s.owned = Texts(Rendered[h].paths) /\ s.captured = TRUE
        /\ \A t \in DOMAIN s.priors : \E p \in Claims(h) : t = String(p)
        /\ \A p \in Claims(h) :
            /\ String(p) \in DOMAIN s.priors <=> Has(n, p) /\ Get(n, p) # Want(h, p)
            /\ String(p) \in DOMAIN s.priors => s.priors[String(p)] = Get(n, p)
    <3>1. Owns(s, h) /\ TakesPriors(s, h, n)
      BY <2>2, RecordFresh
    <3> QED
      BY <3>1 DEF Owns, TakesPriors
  <2>5. \A p \in Claims(h) : Has(n, p) <=> Has(live, p)
    BY <1>5 DEF Has
  <2>6. \A p \in Claims(h) :
            /\ String(p) \in DOMAIN s.priors <=> Has(live, p) /\ Get(live, p) # Want(h, p)
            /\ String(p) \in DOMAIN s.priors => s.priors[String(p)] = Get(live, p)
    BY <1>5, <2>4, <2>5
  <2>7. \A p \in Claims(h) : String(p) \in DOMAIN s.priors => s.priors[String(p)] \in Settable(p)
    BY <1>5, <2>6 DEF Has
  <2>8. RecordOK(c, s)
    BY <2>4, <2>7 DEF RecordOK
  <2> QED
    BY <1>3, <1>7, <2>3, <2>4, <2>6, <2>8
<1> QED
  BY <1>6, <1>7

\* A value that a write leaves is one that may be set.
LEMMA DesiredSettable ==
    ASSUME PathLaws, ShapeInv, NEW c \in Contributors, pass.pc = "update",
           NEW p \in Claimable(c)
    PROVE  DesiredAt(c, p, Get(live, p)) \in Settable(p) \cup {Mistake}
<1>1. p \in AllClaimable
  BY PathsApart
<1>2. Get(live, p) \in Settable(p) \cup {Mistake}
  BY <1>1 DEF ShapeInv, ValuesOK
<1>3. pass.snap[c].patch \in Patches[c]
  BY DEF ShapeInv, PassOK, SnapshotOK, ObjectsOK
<1>4. p \in Claims(pass.snap[c].patch) => Want(pass.snap[c].patch, p) \in Settable(p)
  BY <1>1, <1>3, SettableValues
<1>5. c \in DOMAIN pass.known /\ p \in Claims(pass.known[c].hash) =>
        Withdrawn(pass.known[c].priors, p) \in Settable(p) \cup {Mistake}
  BY DEF ShapeInv, RecordsOK, RecordOK, Withdrawn
<1> QED
  BY <1>2, <1>4, <1>5 DEF DesiredAt

-----------------------------------------------------------------------------
(* The shapes are kept *)

LEMMA IdleShape ==
    /\ IdlePass.pc = "idle" /\ IdlePass.todo = {} /\ IdlePass.copy = Mistake
    /\ DOMAIN IdlePass.out = {} /\ DOMAIN IdlePass.known = {}
    /\ IdlePass \in [pc : {"idle", "read", "update"}, todo : SUBSET Contributors,
                     copy : Trees \cup {Mistake}, snap : {IdlePass.snap},
                     known : {IdlePass.known}, out : {IdlePass.out}]
BY DEF IdlePass

LEMMA ShapeInit ==
    ASSUME PathLaws, Init
    PROVE  ShapeInv
<1>1. ObjectsOK
  BY DEF Init, ObjectsOK, AllPatches
<1>2. PassOK
  BY IdleShape DEF Init, PassOK, SnapshotOK
<1>3. RecordsOK /\ CacheOK
  <2>1. DOMAIN rec = {} /\ DOMAIN seen = {} /\ DOMAIN pass.out = {} /\ DOMAIN pass.known = {}
    BY IdleShape DEF Init
  <2> QED
    BY <2>1 DEF RecordsOK, CacheOK
<1>4. ValuesOK
  <2>1. live \in Trees /\ live = Original /\ pass.pc = "idle"
    BY IdleShape DEF Init, PathLaws
  <2>2. \A p \in AllClaimable : Has(Original, p) => Get(Original, p) \in Settable(p)
    BY SettableValues
  <2> QED
    BY <2>1, <2>2 DEF ValuesOK, Has
<1>5. OthersKept
  BY DEF Init, OthersKept
<1> QED
  BY <1>1, <1>2, <1>3, <1>4, <1>5 DEF ShapeInv

\* The informer's step.
LEMMA ShapeSync ==
    ASSUME ShapeInv, Sync
    PROVE  ShapeInv'
<1>1. UNCHANGED <<obj, live, theirs, rec, pass>> /\ seen' = rec
  BY DEF Sync
<1>2. ObjectsOK /\ RecordsOK /\ CacheOK /\ ValuesOK /\ OthersKept /\ PassOK
  BY DEF ShapeInv
<1>3. ObjectsOK' /\ ValuesOK' /\ OthersKept'
  BY <1>1, <1>2 DEF ObjectsOK, ValuesOK, OthersKept
<1>4. RecordsOK' /\ CacheOK'
  BY <1>1, <1>2 DEF RecordsOK, CacheOK
<1>5. PassOK'
  BY <1>1, <1>2 DEF PassOK, SnapshotOK
<1> QED
  BY <1>3, <1>4, <1>5 DEF ShapeInv

LEMMA ShapeStartPass ==
    ASSUME ShapeInv, StartPass
    PROVE  /\ ShapeInv'
           /\ pass'.pc = "read" /\ pass'.known = seen /\ DOMAIN pass'.out = {}
           /\ pass'.todo = {c \in Contributors : obj[c].phase \in {"live", "leaving"}}
<1>1. /\ pass'.pc = "read" /\ pass'.snap = obj /\ pass'.out = <<>> /\ pass'.copy = Mistake
      /\ pass'.todo = {c \in Contributors : obj[c].phase \in {"live", "leaving"}}
      /\ pass'.known = seen /\ DOMAIN pass'.out = {}
      /\ pass' \in [pc : {"idle", "read", "update"}, todo : SUBSET Contributors,
                    copy : Trees \cup {Mistake}, snap : {pass'.snap},
                    known : {pass'.known}, out : {pass'.out}]
  <2> DEFINE todo == {c \in Contributors : obj[c].phase \in {"live", "leaving"}}
             q == [pc |-> "read", todo |-> todo, copy |-> Mistake, snap |-> obj,
                   known |-> seen, out |-> <<>>]
  <2>1. pass' = q
    BY DEF StartPass, IdlePass
  <2>2. /\ q.pc = "read" /\ q.snap = obj /\ q.out = <<>> /\ q.copy = Mistake /\ q.todo = todo
        /\ q.known = seen
        /\ q \in [pc : {"idle", "read", "update"}, todo : SUBSET Contributors,
                   copy : Trees \cup {Mistake}, snap : {q.snap}, known : {q.known},
                   out : {q.out}]
    <3>1. todo \in SUBSET Contributors
      OBVIOUS
    <3> HIDE DEF todo
    <3> QED
      BY <3>1
  <2>3. DOMAIN <<>> = {}
    OBVIOUS
  <2> HIDE DEF q
  <2> QED
    BY <2>1, <2>2, <2>3
<1>2. UNCHANGED <<obj, live, theirs, rec, seen>>
  BY DEF StartPass
<1>3. pass.pc = "idle" /\ ObjectsOK /\ RecordsOK /\ CacheOK /\ ValuesOK /\ OthersKept
  BY DEF StartPass, ShapeInv
<1>4. ObjectsOK' /\ OthersKept' /\ CacheOK'
  BY <1>2, <1>3 DEF ObjectsOK, OthersKept, CacheOK
<1>5. RecordsOK' /\ ValuesOK'
  BY <1>1, <1>2, <1>3 DEF RecordsOK, ValuesOK
<1>6. SnapshotOK'
  <2>1. \A c \in Contributors :
            /\ obj[c].phase = "absent" => c \notin DOMAIN rec \cup DOMAIN seen
            /\ c \in DOMAIN seen => obj[c].phase \in {"live", "leaving"}
            /\ obj[c].phase = "leaving" =>
                /\ c \in DOMAIN rec => c \in DOMAIN seen
                /\ c \in DOMAIN seen => seen[c].hash = obj[c].patch
    BY <1>3 DEF RecordsOK, CacheOK
  <2> QED
    BY <1>1, <1>2, <1>3, <2>1 DEF SnapshotOK, ObjectsOK
<1>7. PassOK'
  BY <1>1, <1>6 DEF PassOK
<1> QED
  BY <1>1, <1>4, <1>5, <1>7 DEF ShapeInv


LEMMA ShapeRead ==
    ASSUME ShapeInv, Read
    PROVE  ShapeInv'
<1>1. /\ pass'.pc = "update" /\ pass'.snap = pass.snap /\ pass'.out = pass.out
      /\ pass'.known = pass.known
      /\ pass'.copy = live /\ pass'.todo = pass.todo
      /\ pass' \in [pc : {"idle", "read", "update"}, todo : SUBSET Contributors,
                    copy : Trees \cup {Mistake}, snap : {pass'.snap},
                    known : {pass'.known}, out : {pass'.out}]
  BY DEF Read, ShapeInv, PassOK, ValuesOK
<1>2. UNCHANGED <<obj, live, theirs, rec, seen>> /\ pass.pc = "read" /\ pass.todo # {}
  BY DEF Read
<1>3. ObjectsOK /\ RecordsOK /\ CacheOK /\ ValuesOK /\ OthersKept /\ PassOK
  BY DEF ShapeInv
<1>4. ObjectsOK' /\ OthersKept' /\ CacheOK'
  BY <1>2, <1>3 DEF ObjectsOK, OthersKept, CacheOK
<1>5. RecordsOK' /\ ValuesOK'
  BY <1>1, <1>2, <1>3 DEF RecordsOK, ValuesOK
<1>6. SnapshotOK'
  BY <1>1, <1>2, <1>3 DEF SnapshotOK, PassOK
<1>7. PassOK'
  BY <1>1, <1>2, <1>3, <1>6 DEF PassOK, ValuesOK
<1> QED
  BY <1>4, <1>5, <1>7 DEF ShapeInv

\* A pass that ends keeps the shapes if the status it leaves has them.
LEMMA ShapePassEnds ==
    ASSUME ShapeInv, pass' = IdlePass, UNCHANGED <<obj, live, theirs, seen>>,
           rec' = rec \/ (rec' = pass.out /\ pass.pc # "idle" /\ pass.todo = {})
    PROVE  ShapeInv'
<1>1. ObjectsOK /\ RecordsOK /\ CacheOK /\ ValuesOK /\ OthersKept /\ PassOK
  BY DEF ShapeInv
<1>2. ObjectsOK' /\ OthersKept'
  BY <1>1 DEF ObjectsOK, OthersKept
<1>3. PassOK'
  BY IdleShape DEF PassOK, SnapshotOK
<1>4. ValuesOK'
  BY <1>1, IdleShape DEF ValuesOK
<1>5. DOMAIN pass'.out = {} /\ DOMAIN pass'.known = {}
  BY IdleShape
<1>6. ASSUME rec' = rec
      PROVE  RecordsOK' /\ CacheOK'
  BY <1>1, <1>5, <1>6 DEF RecordsOK, CacheOK
<1>7. ASSUME rec' = pass.out, pass.pc # "idle", pass.todo = {}
      PROVE  RecordsOK' /\ CacheOK'
  <2>1. \A c \in DOMAIN pass.out : c \in Contributors /\ obj[c].phase = "live"
    BY <1>1, <1>7 DEF PassOK, SnapshotOK
  <2>2. RecordsOK'
    BY <1>1, <1>5, <1>7, <2>1 DEF RecordsOK, PassOK
  <2>3. ASSUME NEW c \in Contributors
        PROVE  /\ obj[c].phase = "live" /\ c \in DOMAIN seen =>
                    c \in DOMAIN pass.out /\ pass.out[c].hash = obj[c].patch
               /\ obj[c].phase = "leaving" => c \notin DOMAIN pass.out
    <3>1. obj[c].phase = "live" /\ c \in DOMAIN seen => c \in DOMAIN pass.out
      BY <1>1, <1>7 DEF PassOK, SnapshotOK
    <3> QED
      BY <1>1, <2>1, <3>1 DEF RecordsOK
  <2>4. CacheOK'
    BY <1>1, <1>7, <2>3 DEF CacheOK
  <2> QED
    BY <2>2, <2>4
<1> QED
  BY <1>2, <1>3, <1>4, <1>6, <1>7 DEF ShapeInv

LEMMA ShapeRelease ==
    ASSUME PathLaws, ShapeInv, NEW c \in Contributors, Release(c)
    PROVE  ShapeInv'
<1>1. Update(c) /\ pass.snap[c].phase = "leaving" /\ UNCHANGED <<obj, theirs, rec, seen>>
  BY DEF Release, Update
<1>2. /\ c \in pass.todo /\ pass.pc = "update" /\ live' \in Trees /\ OthersKept'
      /\ \A p \in Claimable(c) : Get(live', p) = DesiredAt(c, p, Get(live, p))
      /\ \A d \in Contributors : d # c =>
            \A p \in Claimable(d) : Get(live', p) = Get(live, p)
  BY <1>1, UpdateLaw
<1>3. /\ pass'.pc = "read" /\ pass'.snap = pass.snap /\ pass'.known = pass.known
      /\ pass'.out = pass.out
      /\ pass'.copy = Mistake /\ pass'.todo = pass.todo \ {c}
      /\ pass' \in [pc : {"idle", "read", "update"}, todo : SUBSET Contributors,
                    copy : Trees \cup {Mistake}, snap : {pass'.snap},
                    known : {pass'.known}, out : {pass'.out}]
  BY DEF Release, ShapeInv, PassOK
<1>4. ObjectsOK /\ RecordsOK /\ CacheOK /\ ValuesOK /\ OthersKept /\ PassOK
  BY DEF ShapeInv
<1>5. ObjectsOK' /\ CacheOK'
  BY <1>1, <1>4 DEF ObjectsOK, CacheOK
<1>6. RecordsOK'
  BY <1>1, <1>3, <1>4 DEF RecordsOK
<1>7. SnapshotOK'
  BY <1>1, <1>2, <1>3, <1>4 DEF SnapshotOK, PassOK
<1>8. PassOK'
  BY <1>3, <1>4, <1>7 DEF PassOK
<1>9. ASSUME NEW p \in AllClaimable
      PROVE  Get(live', p) \in Settable(p) \cup {Mistake}
  <2>1. PICK d \in Contributors : p \in Claimable(d)
    BY DEF AllClaimable
  <2>2. CASE d = c
    BY <1>2, <2>1, <2>2, DesiredSettable
  <2>3. CASE d # c
    BY <1>2, <1>4, <2>1, <2>3 DEF ValuesOK
  <2> QED
    BY <2>2, <2>3
<1>10. ValuesOK'
  BY <1>2, <1>3, <1>9 DEF ValuesOK
<1> QED
  BY <1>2, <1>5, <1>6, <1>8, <1>10 DEF ShapeInv

\* What an apply does to the pass.
LEMMA ApplyPass ==
    ASSUME ShapeInv, NEW c \in Contributors, Apply(c)
    PROVE  /\ Update(c) /\ pass.snap[c].phase = "live" /\ obj[c].phase = "live"
           /\ UNCHANGED <<obj, theirs, rec, seen>>
           /\ pass'.pc = "read" /\ pass'.snap = pass.snap /\ pass'.known = pass.known
           /\ pass'.copy = Mistake /\ pass'.todo = pass.todo \ {c}
           /\ DOMAIN pass'.out = DOMAIN pass.out \cup {c}
           /\ pass'.out[c] = NewRecord(c)
           /\ \A d \in DOMAIN pass.out : d # c => pass'.out[d] = pass.out[d]
           /\ pass' \in [pc : {"idle", "read", "update"}, todo : SUBSET Contributors,
                         copy : Trees \cup {Mistake}, snap : {pass'.snap},
                         known : {pass'.known}, out : {pass'.out}]
<1> DEFINE out == [d \in DOMAIN pass.out \cup {c} |->
                        IF d = c THEN NewRecord(c) ELSE pass.out[d]]
<1>1. pass' = [pass EXCEPT !.pc = "read", !.todo = @ \ {c}, !.copy = Mistake, !.out = out]
  BY DEF Apply, NewRecord
<1>2. Update(c) /\ pass.snap[c].phase = "live" /\ UNCHANGED <<obj, theirs, rec, seen>>
  BY DEF Apply, Update
<1>3. obj[c].phase = "live"
  BY <1>2 DEF Update, ShapeInv, PassOK, SnapshotOK
<1>4. /\ DOMAIN out = DOMAIN pass.out \cup {c}
      /\ out[c] = NewRecord(c)
      /\ \A d \in DOMAIN pass.out : d # c => out[d] = pass.out[d]
  OBVIOUS
<1> HIDE DEF out
<1>5. /\ pass'.pc = "read" /\ pass'.snap = pass.snap /\ pass'.out = out
      /\ pass'.known = pass.known
      /\ pass'.copy = Mistake /\ pass'.todo = pass.todo \ {c}
      /\ pass' \in [pc : {"idle", "read", "update"}, todo : SUBSET Contributors,
                    copy : Trees \cup {Mistake}, snap : {pass'.snap},
                    known : {pass'.known}, out : {pass'.out}]
  BY <1>1 DEF ShapeInv, PassOK
<1> QED
  BY <1>2, <1>3, <1>4, <1>5

LEMMA ShapeApply ==
    ASSUME PathLaws, ShapeInv, NEW c \in Contributors, Apply(c)
    PROVE  ShapeInv'
<1>1. /\ Update(c) /\ pass.snap[c].phase = "live" /\ UNCHANGED <<obj, theirs, rec, seen>>
      /\ pass'.pc = "read" /\ pass'.snap = pass.snap /\ pass'.known = pass.known
      /\ pass'.copy = Mistake /\ pass'.todo = pass.todo \ {c}
      /\ DOMAIN pass'.out = DOMAIN pass.out \cup {c}
      /\ pass'.out[c] = NewRecord(c)
      /\ \A d \in DOMAIN pass.out : d # c => pass'.out[d] = pass.out[d]
      /\ pass' \in [pc : {"idle", "read", "update"}, todo : SUBSET Contributors,
                    copy : Trees \cup {Mistake}, snap : {pass'.snap},
                    known : {pass'.known}, out : {pass'.out}]
  BY ApplyPass
<1>2. /\ c \in pass.todo /\ pass.pc = "update" /\ live' \in Trees /\ OthersKept'
      /\ \A p \in Claimable(c) : Get(live', p) = DesiredAt(c, p, Get(live, p))
      /\ \A d \in Contributors : d # c =>
            \A p \in Claimable(d) : Get(live', p) = Get(live, p)
  BY <1>1, UpdateLaw
<1>3. RecordOK(c, NewRecord(c)) /\ NewRecord(c).hash = obj[c].patch
  BY <1>2, NewRecordLaw
<1>4. ObjectsOK /\ RecordsOK /\ CacheOK /\ ValuesOK /\ OthersKept /\ PassOK
  BY DEF ShapeInv
<1>5. ObjectsOK' /\ CacheOK'
  BY <1>1, <1>4 DEF ObjectsOK, CacheOK
<1>6. RecordsOK'
  <2>1. ASSUME NEW d \in DOMAIN pass'.out
        PROVE  RecordOK(d, pass'.out[d]) /\ pass'.out[d].hash = obj[d].patch
    <3>1. CASE d = c
      BY <1>1, <1>3, <3>1
    <3>2. CASE d # c
      BY <1>1, <1>4, <3>2 DEF RecordsOK
    <3> QED
      BY <3>1, <3>2
  <2> QED
    BY <1>1, <1>4, <2>1 DEF RecordsOK
<1>7. SnapshotOK'
  BY <1>1, <1>2, <1>4 DEF SnapshotOK, PassOK
<1>8. PassOK'
  BY <1>1, <1>4, <1>7 DEF PassOK
<1>9. ASSUME NEW p \in AllClaimable
      PROVE  Get(live', p) \in Settable(p) \cup {Mistake}
  <2>1. PICK d \in Contributors : p \in Claimable(d)
    BY DEF AllClaimable
  <2>2. CASE d = c
    BY <1>2, <2>1, <2>2, DesiredSettable
  <2>3. CASE d # c
    BY <1>2, <1>4, <2>1, <2>3 DEF ValuesOK
  <2> QED
    BY <2>2, <2>3
<1>10. ValuesOK'
  BY <1>1, <1>2, <1>9 DEF ValuesOK
<1> QED
  BY <1>2, <1>5, <1>6, <1>8, <1>10 DEF ShapeInv

\* What users and the finalizer do to the contributors keeps the shapes.
LEMMA ShapeObjects ==
    ASSUME ShapeInv, NEW c \in Contributors,
           Create(c) \/ Change(c) \/ Leave(c) \/ Go(c)
    PROVE  ShapeInv'
<1>1. UNCHANGED <<live, theirs, rec, seen, pass>>
  BY DEF Create, Change, Leave, Go
<1>2. ObjectsOK /\ RecordsOK /\ CacheOK /\ ValuesOK /\ OthersKept /\ PassOK
  BY DEF ShapeInv
<1>3. ValuesOK' /\ OthersKept'
  BY <1>1, <1>2 DEF ValuesOK, OthersKept
<1>4. /\ ObjectsOK'
      /\ \A d \in Contributors : d # c => obj'[d] = obj[d]
      /\ \/ obj[c].phase = "absent" /\ obj'[c].phase = "live" /\ obj'[c].patch = obj[c].patch
         \/ /\ obj[c].phase = "live" /\ obj'[c].phase = "live" /\ pass.pc = "idle"
            /\ c \in DOMAIN seen /\ seen[c].hash = obj[c].patch /\ obj'[c].patch # obj[c].patch
         \/ /\ obj[c].phase = "live" /\ obj'[c].phase = "leaving" /\ pass.pc = "idle"
            /\ c \in DOMAIN seen /\ seen[c].hash = obj[c].patch /\ obj'[c].patch = obj[c].patch
         \/ /\ obj[c].phase = "leaving" /\ obj'[c].phase = "gone"
            /\ c \notin DOMAIN seen /\ c \notin DOMAIN rec
            /\ obj'[c].patch = obj[c].patch
  <2>1. CASE Create(c)
    BY <1>2, <2>1 DEF Create, ObjectsOK
  <2>2. CASE Change(c)
    <3>1. PICK p \in Patches[c] \ {obj[c].patch} : obj' = [obj EXCEPT ![c].patch = p]
      BY <2>2 DEF Change
    <3>2. p \in AllPatches
      BY DEF AllPatches
    <3> QED
      BY <1>2, <2>2, <3>1, <3>2 DEF Change, Settled, ObjectsOK
  <2>3. CASE Leave(c)
    BY <1>2, <2>3 DEF Leave, Settled, ObjectsOK
  <2>4. CASE Go(c)
    BY <1>2, <2>4 DEF Go, ObjectsOK, CacheOK
  <2> QED
    BY <2>1, <2>2, <2>3, <2>4
<1>5. pass.pc = "idle" => DOMAIN pass.out = {}
  BY <1>2 DEF PassOK
<1>6. c \in DOMAIN pass.out => obj[c].phase = "live" /\ obj'[c] = obj[c]
  <2>1. c \in DOMAIN pass.out => pass.pc # "idle" /\ obj[c].phase = "live"
    BY <1>2, <1>5 DEF PassOK, SnapshotOK
  <2> QED
    BY <1>4, <2>1
<1>7. RecordsOK'
  BY <1>1, <1>2, <1>4, <1>6 DEF RecordsOK, PassOK
<1>c. CacheOK'
  BY <1>1, <1>2, <1>4 DEF CacheOK, RecordsOK
<1>8. SnapshotOK'
  BY <1>1, <1>2, <1>4 DEF SnapshotOK, PassOK
<1>9. PassOK'
  BY <1>1, <1>2, <1>8 DEF PassOK
<1> QED
  BY <1>3, <1>4, <1>7, <1>c, <1>9 DEF ShapeInv

\* A write of somebody else leaves all paths but its own as they are.
LEMMA ForeignWriteLaw ==
    ASSUME PathLaws, ShapeInv, NEW v \in ForeignValues, ForeignWrite(v)
    PROVE  /\ live' \in Trees /\ OthersKept'
           /\ \A p \in AllClaimable \cup Others : Get(live', p) = Get(live, p)
           /\ UNCHANGED <<obj, rec, seen, pass, missed>>
<1>1. live' = SetIn(live, ForeignPath, v) /\ theirs' = v /\ UNCHANGED <<obj, rec, seen, pass, missed>>
  BY DEF ForeignWrite
<1>2. PICK n \in Trees : n = live
  BY DEF ShapeInv, ValuesOK
<1>3. v \in Settable(ForeignPath)
  BY DEF Settable
<1>4. PICK m : m = SetIn(n, ForeignPath, v)
  OBVIOUS
<1>5. m \in Trees /\ Get(m, ForeignPath) = v /\ SameBut(n, m, ForeignPath)
  BY <1>3, <1>4 DEF PathLaws, SetLaw
<1>6. live' = m
  BY <1>1, <1>2, <1>4
<1>7. \A p \in AllClaimable \cup Others : p # ForeignPath
  BY PatchesAssumption
<1>8. \A p \in AllClaimable \cup Others : Get(live', p) = Get(live, p)
  BY <1>2, <1>5, <1>6, <1>7 DEF SameBut
<1>9. OthersKept'
  BY <1>1, <1>5, <1>6, <1>8 DEF ShapeInv, OthersKept
<1> QED
  BY <1>1, <1>5, <1>6, <1>8, <1>9

LEMMA ShapeForeignWrite ==
    ASSUME PathLaws, ShapeInv, NEW v \in ForeignValues, ForeignWrite(v)
    PROVE  ShapeInv'
<1>1. /\ live' \in Trees /\ OthersKept'
      /\ \A p \in AllClaimable \cup Others : Get(live', p) = Get(live, p)
      /\ UNCHANGED <<obj, rec, seen, pass>>
  BY ForeignWriteLaw
<1>2. ObjectsOK /\ RecordsOK /\ CacheOK /\ ValuesOK /\ PassOK
  BY DEF ShapeInv
<1>3. ObjectsOK' /\ RecordsOK' /\ CacheOK'
  BY <1>1, <1>2 DEF ObjectsOK, RecordsOK, CacheOK
<1>4. PassOK'
  BY <1>1, <1>2 DEF PassOK, SnapshotOK
<1>5. ValuesOK'
  BY <1>1, <1>2 DEF ValuesOK
<1> QED
  BY <1>1, <1>3, <1>4, <1>5 DEF ShapeInv

LEMMA ShapeStep ==
    ASSUME PathLaws, ShapeInv, [Next]_vars
    PROVE  ShapeInv'
<1>1. CASE StartPass
  BY <1>1, ShapeStartPass
<1>2. CASE Read
  BY <1>2, ShapeRead
<1>3. CASE Refused
  BY <1>3, ShapePassEnds DEF Refused
<1>4. CASE WriteStatus
  BY <1>4, ShapePassEnds DEF WriteStatus
<1>5. CASE LoseStatus
  BY <1>5, ShapePassEnds DEF LoseStatus
<1>6. CASE \E v \in ForeignValues : ForeignWrite(v)
  BY <1>6, ShapeForeignWrite
<1>7. ASSUME NEW c \in Contributors,
             Release(c) \/ Apply(c) \/ Create(c) \/ Change(c) \/ Leave(c) \/ Go(c)
      PROVE  ShapeInv'
  BY <1>7, ShapeRelease, ShapeApply, ShapeObjects
<1>8. CASE UNCHANGED vars
  BY <1>8 DEF vars, ShapeInv, ObjectsOK, RecordsOK, CacheOK, ValuesOK, PassOK, SnapshotOK, OthersKept
<1>9. CASE Sync
  BY <1>9, ShapeSync
<1> QED
  BY <1>1, <1>2, <1>3, <1>4, <1>5, <1>6, <1>7, <1>8, <1>9 DEF Next

\* What nobody claims is never touched: no apply, revert or pruning of the operator
\* loses a write of somebody else or disturbs what others own (csa.go and
\* fieldpath.go).
THEOREM OthersAreKept ==
    ASSUME PathLaws
    PROVE  Spec => []OthersKept
<1>1. Init => ShapeInv
  BY ShapeInit
<1>2. ShapeInv /\ [Next]_vars => ShapeInv'
  BY ShapeStep
<1>3. ShapeInv => OthersKept
  BY DEF ShapeInv
<1> QED
  BY <1>1, <1>2, <1>3, PTL DEF Spec


-----------------------------------------------------------------------------
(* The values are kept *)

\* Where there was a value before, every patch of the contributor claims the path.
LEMMA AlwaysClaimed ==
    ASSUME GrowsOverNothing, NEW c \in Contributors, NEW h \in Patches[c],
           NEW p \in Claimable(c), p \notin Claims(h)
    PROVE  ~Has(Original, p)
<1>1. PICK g \in Patches[c] : p \in Claims(g)
  BY DEF Claimable, Claims
<1> QED
  BY <1>1 DEF GrowsOverNothing, Claims

\* What is said of a contributor's fields stays true while they stay as they are.
LEMMA FieldsSame ==
    ASSUME NEW c \in Contributors, obj'[c].patch = obj[c].patch,
           \A p \in Claimable(c) : Get(live', p) = Get(live, p),
           missed => missed'
    PROVE  /\ \A p \in Claimable(c) : Back(p) => Back(p)'
           /\ \A h : \A p \in Claimable(c) : Set(h, p) <=> Set(h, p)'
           /\ \A h : AtHash(c, h) => AtHash(c, h)'
<1>1. \A p \in Claimable(c) : Back(p) => Back(p)'
  BY DEF Back, Has
<1>2. \A h : \A p \in Claimable(c) : Set(h, p) <=> Set(h, p)'
  BY DEF Set
<1>3. ASSUME NEW h, AtHash(c, h)
      PROVE  AtHash(c, h)'
  BY <1>2, <1>3 DEF AtHash, Has
<1> QED
  BY <1>1, <1>2, <1>3

\* A step that changes nothing of c, but may lose a pass.
LEMMA ValuesSame ==
    ASSUME NEW c \in Contributors, ValuesOf(c),
           obj'[c] = obj[c], rec' = rec, seen' = seen,
           \A p \in Claimable(c) : Get(live', p) = Get(live, p),
           missed => missed',
           \/ pass'.known = pass.known /\ (pass'.pc = "idle" <=> pass.pc = "idle")
           \/ DOMAIN pass'.known = {} /\ pass'.pc = "idle",
           c \in DOMAIN pass'.out => c \in DOMAIN pass.out,
           c \in DOMAIN pass.out => c \in DOMAIN pass'.out \/ missed',
           obj[c].phase = "leaving" /\ (pass.pc = "idle" \/ c \in pass.todo) =>
                pass'.pc = "idle" \/ c \in pass'.todo
    PROVE  ValuesOf(c)'
<1>1. /\ \A p \in Claimable(c) : Back(p) => Back(p)'
      /\ \A h : \A p \in Claimable(c) : Set(h, p) <=> Set(h, p)'
      /\ \A h : AtHash(c, h) => AtHash(c, h)'
  BY FieldsSame
<1>2. ASSUME obj[c].phase = "live", c \notin DOMAIN seen
      PROVE  Untold(c, c \in DOMAIN pass.out \cup DOMAIN rec)'
  <2>1. Untold(c, c \in DOMAIN pass.out \cup DOMAIN rec)
    BY <1>2 DEF ValuesOf
  <2> QED
    BY <1>1, <2>1 DEF Untold
<1>3. ASSUME obj[c].phase = "live", pass'.pc # "idle", c \notin DOMAIN pass'.known
      PROVE  Untold(c, c \in DOMAIN pass.out)'
  <2>1. Untold(c, c \in DOMAIN pass.out)
    BY <1>3 DEF ValuesOf
  <2> QED
    BY <1>1, <2>1 DEF Untold
<1>4. ASSUME obj[c].phase = "live"
      PROVE  /\ c \in DOMAIN rec => AtHash(c, rec[c].hash)'
             /\ c \in DOMAIN seen => AtHash(c, seen[c].hash)'
             /\ c \in DOMAIN pass'.known => AtHash(c, pass.known[c].hash)'
  <2>1. /\ c \in DOMAIN rec => AtHash(c, rec[c].hash)
        /\ c \in DOMAIN seen => AtHash(c, seen[c].hash)
        /\ c \in DOMAIN pass'.known =>
                AtHash(c, pass.known[c].hash) /\ pass'.known[c] = pass.known[c]
    BY <1>4 DEF ValuesOf
  <2> QED
    BY <1>1, <2>1 DEF AtHash
<1>5. /\ obj[c].phase = "absent" => \A p \in Claimable(c) : Get(live', p) = Get(Original, p)
      /\ obj[c].phase = "leaving" /\ c \in DOMAIN rec => \A p \in Claimable(c) :
            Back(p)' \/ (Set(obj[c].patch, p)' /\ (pass'.pc = "idle" \/ c \in pass'.todo))
      /\ obj[c].phase \in {"leaving", "gone"} /\ c \notin DOMAIN rec =>
            \A p \in Claimable(c) : Back(p)'
      /\ c \in DOMAIN pass'.out => \A p \in Claimable(c) :
            IF p \in Claims(obj[c].patch) THEN Get(live', p) = Want(obj[c].patch, p)
            ELSE Get(live', p) = Get(Original, p)
  BY <1>1 DEF ValuesOf
<1> QED
  BY <1>2, <1>3, <1>4, <1>5 DEF ValuesOf

\* The priors that are recorded stay true.
LEMMA PriorsSame ==
    ASSUME AllPriorsTrue, missed => missed',
           \A c \in DOMAIN rec' : \/ c \in DOMAIN rec /\ rec'[c] = rec[c]
                                  \/ c \in DOMAIN pass.out /\ rec'[c] = pass.out[c],
           \A c \in DOMAIN seen' : \/ c \in DOMAIN seen /\ seen'[c] = seen[c]
                                   \/ c \in DOMAIN rec /\ seen'[c] = rec[c],
           \A c \in DOMAIN pass'.known :
                \/ c \in DOMAIN pass.known /\ pass'.known[c] = pass.known[c]
                \/ c \in DOMAIN seen /\ pass'.known[c] = seen[c],
           \A c \in DOMAIN pass'.out :
                \/ c \in DOMAIN pass.out /\ pass'.out[c] = pass.out[c]
                \/ PriorsTrue(pass'.out[c])
    PROVE  AllPriorsTrue'
<1>1. ASSUME NEW s, PriorsTrue(s)
      PROVE  \A p \in Claims(s.hash) :
                IF String(p) \in DOMAIN s.priors
                THEN s.priors[String(p)] = Get(Original, p) /\ Has(Original, p)
                ELSE Has(Original, p) => missed'
  BY <1>1 DEF PriorsTrue
<1>2. /\ \A c \in DOMAIN rec' : PriorsTrue(rec'[c])
      /\ \A c \in DOMAIN seen' : PriorsTrue(seen'[c])
      /\ \A c \in DOMAIN pass'.known : PriorsTrue(pass'.known[c])
      /\ \A c \in DOMAIN pass'.out : PriorsTrue(pass'.out[c])
  BY DEF AllPriorsTrue
<1> QED
  BY <1>1, <1>2 DEF AllPriorsTrue, PriorsTrue

LEMMA ValueInit ==
    ASSUME PathLaws, Init
    PROVE  ValueInv
<1>1. /\ DOMAIN rec = {} /\ DOMAIN seen = {} /\ live = Original
      /\ DOMAIN pass.out = {} /\ DOMAIN pass.known = {}
  BY IdleShape DEF Init
<1>2. \A c \in Contributors : obj[c].phase = "absent"
  BY DEF Init
<1> QED
  BY <1>1, <1>2 DEF ValueInv, ValuesOf, AllPriorsTrue

\* The informer's step: what the cache shows now is what is recorded.
LEMMA ValueSync ==
    ASSUME ShapeInv, ValueInv, Sync
    PROVE  ValueInv'
<1>1. UNCHANGED <<obj, live, rec, pass, missed>> /\ seen' = rec
  BY DEF Sync
<1>2. ASSUME NEW c \in Contributors
      PROVE  ValuesOf(c)'
  <2>1. ValuesOf(c)
    BY DEF ValueInv
  <2>2. obj[c].phase = "live" /\ c \in DOMAIN seen => c \in DOMAIN rec
    BY DEF ShapeInv, CacheOK
  <2> QED
    BY <1>1, <2>1, <2>2 DEF ValuesOf, Untold, AtHash, Set, Back
<1>3. AllPriorsTrue'
  BY <1>1, PriorsSame DEF ValueInv
<1> QED
  BY <1>2, <1>3 DEF ValueInv

\* A pass begins: what it does not know of, though it is recorded, it has missed.
LEMMA ValueStartPass ==
    ASSUME ShapeInv, ValueInv, StartPass
    PROVE  ValueInv'
<1>1. /\ pass.pc = "idle" /\ UNCHANGED <<obj, live, rec, seen>>
      /\ pass'.pc = "read" /\ pass'.known = seen /\ DOMAIN pass'.out = {}
      /\ pass'.todo = {c \in Contributors : obj[c].phase \in {"live", "leaving"}}
      /\ DOMAIN pass.out = {}
  <2>1. pass.pc = "idle" /\ UNCHANGED <<obj, live, rec, seen>>
    BY DEF StartPass
  <2>2. DOMAIN pass.out = {}
    BY <2>1 DEF ShapeInv, PassOK
  <2> QED
    BY <2>1, <2>2, ShapeStartPass
<1>2. (missed => missed') /\ (seen # rec => missed')
  <2>1. missed' = (missed \/ seen # rec)
    BY DEF StartPass
  <2> QED
    BY <2>1, Zenon
<1>3. ASSUME NEW c \in Contributors
      PROVE  ValuesOf(c)'
  <2>1. ValuesOf(c)
    BY DEF ValueInv
  <2>2. /\ \A p \in Claimable(c) : Back(p) => Back(p)'
        /\ \A h : \A p \in Claimable(c) : Set(h, p) <=> Set(h, p)'
        /\ \A h : AtHash(c, h) => AtHash(c, h)'
    BY <1>1, <1>2, FieldsSame
  <2>3. ASSUME obj[c].phase = "live", c \notin DOMAIN seen
        PROVE  Untold(c, FALSE)'
    <3>1. Untold(c, c \in DOMAIN rec)
      BY <1>1, <2>1, <2>3 DEF ValuesOf, Untold
    <3>2. c \in DOMAIN rec => missed'
      BY <1>2, <2>3
    <3> QED
      BY <1>1, <1>2, <2>2, <3>1, <3>2 DEF Untold
  <2>4. ASSUME obj[c].phase = "live"
        PROVE  /\ c \in DOMAIN rec => AtHash(c, rec[c].hash)'
               /\ c \in DOMAIN seen => AtHash(c, seen[c].hash)'
    <3>1. /\ c \in DOMAIN rec => AtHash(c, rec[c].hash)
          /\ c \in DOMAIN seen => AtHash(c, seen[c].hash)
      BY <2>1, <2>4 DEF ValuesOf
    <3> QED
      BY <1>1, <2>2, <3>1 DEF AtHash
  <2> QED
    BY <1>1, <2>1, <2>2, <2>3, <2>4 DEF ValuesOf, Untold, AtHash
<1>4. AllPriorsTrue'
  BY <1>1, <1>2, PriorsSame DEF ValueInv
<1> QED
  BY <1>3, <1>4 DEF ValueInv

\* Steps of a pass that leave the target and the status alone, and its loss.
LEMMA ValuePass ==
    ASSUME ShapeInv, ValueInv, Read \/ Refused \/ LoseStatus
    PROVE  ValueInv'
<1>1. UNCHANGED <<obj, live, rec, seen>> /\ (missed => missed')
  <2>1. CASE Read
    BY <2>1 DEF Read
  <2>2. CASE Refused \/ LoseStatus
    <3>1. missed' = (missed \/ pass.out # <<>>) /\ UNCHANGED <<obj, live, rec, seen>>
      BY <2>2 DEF Refused, LoseStatus
    <3> QED
      BY <3>1, Zenon
  <2> QED
    BY <2>1, <2>2
<1>2. PassOK /\ pass.pc \in {"idle", "read", "update"}
  BY DEF ShapeInv, PassOK
<1>3. \/ /\ Read /\ pass'.out = pass.out /\ pass'.todo = pass.todo /\ pass'.known = pass.known
         /\ pass.pc = "read" /\ pass'.pc = "update"
      \/ /\ Refused \/ LoseStatus
         /\ DOMAIN pass'.out = {} /\ pass'.pc = "idle" /\ DOMAIN pass'.known = {}
         /\ DOMAIN pass.out # {} => missed'
  <2>1. CASE Read
    BY <1>2, <2>1 DEF Read, PassOK
  <2>2. CASE Refused \/ LoseStatus
    <3>1. pass' = IdlePass /\ missed' = (missed \/ pass.out # <<>>)
      BY <2>2 DEF Refused, LoseStatus
    <3>2. DOMAIN pass.out # {} => pass.out # <<>>
      OBVIOUS
    <3>3. DOMAIN pass.out # {} => missed'
      BY <3>1, <3>2, Zenon
    <3> QED
      BY <2>2, <3>1, <3>3, IdleShape
  <2> QED
    BY <2>1, <2>2
<1>4. ASSUME NEW c \in Contributors
      PROVE  ValuesOf(c)'
  <2>1. ValuesOf(c)
    BY DEF ValueInv
  <2>2. /\ c \in DOMAIN pass'.out => c \in DOMAIN pass.out
        /\ c \in DOMAIN pass.out => c \in DOMAIN pass'.out \/ missed'
        /\ obj[c].phase = "leaving" /\ (pass.pc = "idle" \/ c \in pass.todo) =>
                pass'.pc = "idle" \/ c \in pass'.todo
        /\ \/ pass'.known = pass.known /\ (pass'.pc = "idle" <=> pass.pc = "idle")
           \/ DOMAIN pass'.known = {} /\ pass'.pc = "idle"
    BY <1>3
  <2> QED
    BY <1>1, <2>1, <2>2, ValuesSame
<1>5. AllPriorsTrue'
  BY <1>1, <1>3, PriorsSame DEF ValueInv
<1> QED
  BY <1>4, <1>5 DEF ValueInv

\* The status that a pass writes is true.
LEMMA ValueWriteStatus ==
    ASSUME GrowsOverNothing, ShapeInv, ValueInv, WriteStatus
    PROVE  ValueInv'
<1>1. /\ UNCHANGED <<obj, live, seen, missed>> /\ rec' = pass.out /\ pass' = IdlePass
      /\ pass.pc = "read" /\ pass.todo = {}
  BY DEF WriteStatus
<1>2. DOMAIN pass'.out = {} /\ DOMAIN pass'.known = {} /\ pass'.pc = "idle"
  BY <1>1, IdleShape
<1>3. SnapshotOK /\ RecordsOK /\ ObjectsOK /\ pass.pc # "idle"
  BY <1>1 DEF ShapeInv, PassOK
<1>4. ASSUME NEW c \in Contributors
      PROVE  ValuesOf(c)'
  <2>1. ValuesOf(c)
    BY DEF ValueInv
  <2>2. /\ \A p \in Claimable(c) : Back(p) => Back(p)'
        /\ \A h : \A p \in Claimable(c) : Set(h, p) <=> Set(h, p)'
    BY <1>1, FieldsSame
  <2>4. CASE c \in DOMAIN pass.out
    <3>1. obj[c].phase = "live" /\ obj[c].patch \in Patches[c]
      BY <1>1, <1>3, <2>4 DEF SnapshotOK, ObjectsOK
    <3>2. PICK h \in Patches[c] : h = obj[c].patch
      BY <3>1
    <3>3. ASSUME NEW p \in Claimable(c)
          PROVE  \/ Set(h, p)'
                 \/ ~Has(Original, p) /\ ~Has(live', p) /\ p \notin Claims(h)
      <4>1. CASE p \in Claims(h)
        <5>1. Set(h, p)
          BY <2>1, <2>4, <3>2, <4>1 DEF ValuesOf, Set
        <5> QED
          BY <2>2, <5>1
      <4>2. CASE p \notin Claims(h)
        <5>1. ~Has(Original, p)
          BY <4>2, AlwaysClaimed
        <5>2. Get(live, p) = Get(Original, p)
          BY <2>1, <2>4, <3>2, <4>2 DEF ValuesOf
        <5> QED
          BY <1>1, <4>2, <5>1, <5>2 DEF Has
      <4> QED
        BY <4>1, <4>2
    <3>4. c \in DOMAIN rec' /\ obj'[c].patch = h /\ obj'[c].phase = "live"
      BY <1>1, <2>4, <3>1, <3>2
    <3>5. \A g : AtHash(c, g)'
      BY <3>3, <3>4 DEF AtHash
    <3>6. Untold(c, TRUE)'
      BY <3>3, <3>4 DEF Untold, Has
    <3>7. AtHash(c, rec[c].hash)' /\ AtHash(c, seen[c].hash)'
      BY <3>5 DEF AtHash
    <3> QED
      BY <1>2, <3>4, <3>6, <3>7 DEF ValuesOf, Untold
  <2>5. CASE c \notin DOMAIN pass.out
    <3>1. pass.snap[c].phase # "live"
      BY <1>1, <1>3, <2>5 DEF SnapshotOK
    <3>2. c \notin DOMAIN rec' /\ obj'[c] = obj[c]
      BY <1>1, <2>5
    <3>3. obj[c].phase = "live" => c \notin DOMAIN rec /\ c \notin DOMAIN seen
      BY <1>3, <3>1 DEF SnapshotOK
    <3>4. obj[c].phase = "absent" => \A p \in Claimable(c) : Get(live', p) = Get(Original, p)
      BY <1>1, <2>1 DEF ValuesOf
    <3>5. obj[c].phase = "live" => Untold(c, FALSE)'
      <4>1. obj[c].phase = "live" => Untold(c, FALSE)
        BY <2>1, <2>5, <3>3 DEF ValuesOf, Untold
      <4> QED
        BY <1>1, <2>2, <4>1 DEF Untold
    <3>6. obj[c].phase \in {"leaving", "gone"} => \A p \in Claimable(c) : Back(p)'
      <4>1. obj[c].phase \in {"leaving", "gone"} => \A p \in Claimable(c) : Back(p)
        BY <1>1, <1>3, <2>1 DEF ValuesOf, RecordsOK
      <4> QED
        BY <2>2, <4>1
    <3> QED
      BY <1>1, <1>2, <3>2, <3>3, <3>4, <3>5, <3>6 DEF ValuesOf, Untold
  <2> QED
    BY <2>4, <2>5
<1>5. AllPriorsTrue'
  BY <1>1, <1>2, PriorsSame DEF ValueInv
<1> QED
  BY <1>4, <1>5 DEF ValueInv


\* A withdrawal puts back what the record knows, and a path it knows nothing of had
\* no value, or a pass was lost.
LEMMA ValueRelease ==
    ASSUME PathLaws, ShapeInv, ValueInv, NEW c \in Contributors, Release(c)
    PROVE  ValueInv'
<1>1. /\ Update(c) /\ pass.snap[c].phase = "leaving" /\ UNCHANGED <<obj, rec, seen, missed>>
      /\ pass'.pc = "read" /\ pass'.out = pass.out /\ pass'.todo = pass.todo \ {c}
      /\ pass'.known = pass.known
  BY DEF Release, Update, ShapeInv, PassOK
<1>2. /\ c \in pass.todo /\ pass.pc = "update"
      /\ \A p \in Claimable(c) : Get(live', p) = DesiredAt(c, p, Get(live, p))
      /\ \A d \in Contributors : d # c =>
            \A p \in Claimable(d) : Get(live', p) = Get(live, p)
  BY <1>1, UpdateLaw
<1>3. /\ obj[c].phase \in {"leaving", "gone"} /\ c \notin DOMAIN pass.out
      /\ c \in DOMAIN rec => c \in DOMAIN pass.known
      /\ c \in DOMAIN pass.known => pass.known[c].hash = obj[c].patch
  BY <1>1, <1>2 DEF ShapeInv, PassOK, SnapshotOK
<1>4. ASSUME NEW p \in Claimable(c)
      PROVE  Back(p)'
  <2>1. CASE c \in DOMAIN pass.known /\ p \in Claims(pass.known[c].hash)
    <3>1. Get(live', p) = Withdrawn(pass.known[c].priors, p)
      BY <1>1, <1>2, <2>1 DEF DesiredAt
    <3>2. PriorsTrue(pass.known[c])
      BY <2>1 DEF ValueInv, AllPriorsTrue
    <3> QED
      BY <1>1, <2>1, <3>1, <3>2 DEF Withdrawn, PriorsTrue, Back, Has
  <2>2. CASE ~(c \in DOMAIN pass.known /\ p \in Claims(pass.known[c].hash))
    <3>1. Get(live', p) = Get(live, p)
      BY <1>1, <1>2, <2>2 DEF DesiredAt
    <3>2. c \in DOMAIN rec => obj[c].phase = "leaving" /\ p \notin Claims(obj[c].patch)
      BY <1>3, <2>2 DEF ShapeInv, RecordsOK
    <3>3. Back(p)
      BY <1>3, <3>2 DEF ValueInv, ValuesOf, Set
    <3> QED
      BY <1>1, <3>1, <3>3 DEF Back, Has
  <2> QED
    BY <2>1, <2>2
<1>5. ASSUME NEW d \in Contributors
      PROVE  ValuesOf(d)'
  <2>1. CASE d = c
    <3>1. obj'[c].phase \in {"leaving", "gone"} /\ c \notin DOMAIN pass'.out
      BY <1>1, <1>3
    <3> QED
      BY <1>4, <2>1, <3>1 DEF ValuesOf
  <2>2. CASE d # c
    <3>1. ValuesOf(d)
      BY DEF ValueInv
    <3>2. d \in pass.todo => d \in pass'.todo
      BY <1>1, <2>2
    <3> QED
      BY <1>1, <1>2, <2>2, <3>1, <3>2, ValuesSame
  <2> QED
    BY <2>1, <2>2
<1>6. AllPriorsTrue'
  BY <1>1, PriorsSame DEF ValueInv
<1> QED
  BY <1>5, <1>6 DEF ValueInv

\* What an apply captures is what was there before, never the contributor's own
\* value; what it does not know a pass has missed.
LEMMA AppliedPriors ==
    ASSUME PathLaws, GrowsOverNothing, NothingEchoed, ShapeInv, ValueInv,
           NEW c \in Contributors, Apply(c)
    PROVE  PriorsTrue(NewRecord(c))
<1>1. Update(c) /\ obj[c].phase = "live"
  BY ApplyPass
<1>2. c \in pass.todo /\ pass.pc = "update"
  BY <1>1, UpdateLaw
<1>3. c \notin DOMAIN pass.out /\ obj[c].patch \in Patches[c]
  BY <1>2 DEF ShapeInv, PassOK, SnapshotOK, ObjectsOK
<1>4. PICK h \in Patches[c] : h = obj[c].patch
  BY <1>3
<1>5. PICK s : s = NewRecord(c)
  OBVIOUS
<1>6. /\ s.hash = h
      /\ c \in DOMAIN pass.known => \A p \in Claims(h) :
            /\ String(p) \in DOMAIN s.priors <=> String(p) \in DOMAIN pass.known[c].priors
            /\ String(p) \in DOMAIN s.priors =>
                /\ s.priors[String(p)] = pass.known[c].priors[String(p)]
                /\ p \in Claims(pass.known[c].hash)
      /\ c \notin DOMAIN pass.known => \A p \in Claims(h) :
            /\ String(p) \in DOMAIN s.priors <=> Has(live, p) /\ Get(live, p) # Want(h, p)
            /\ String(p) \in DOMAIN s.priors => s.priors[String(p)] = Get(live, p)
  BY <1>2, <1>4, <1>5, NewRecordLaw
<1>7. ASSUME NEW p \in Claims(h)
      PROVE  IF String(p) \in DOMAIN s.priors
             THEN s.priors[String(p)] = Get(Original, p) /\ Has(Original, p)
             ELSE Has(Original, p) => missed
  <2>1. p \in Claimable(c)
    BY PathsApart
  <2>2. CASE c \in DOMAIN pass.known
    <3>1. PriorsTrue(pass.known[c]) /\ pass.known[c].hash \in Patches[c]
      BY <2>2 DEF ValueInv, AllPriorsTrue, ShapeInv, RecordsOK, RecordOK
    <3>2. CASE String(p) \in DOMAIN s.priors
      BY <1>6, <2>2, <3>1, <3>2 DEF PriorsTrue
    <3>3. CASE String(p) \notin DOMAIN s.priors
      <4>1. Has(Original, p) => p \in Claims(pass.known[c].hash)
        BY <2>1, <3>1, AlwaysClaimed
      <4> QED
        BY <1>6, <2>2, <3>1, <3>3, <4>1 DEF PriorsTrue
    <3> QED
      BY <3>2, <3>3
  <2>3. CASE c \notin DOMAIN pass.known
    <3>1. Get(live, p) = Get(Original, p) \/ (Get(live, p) = Want(h, p) /\ missed)
      BY <1>1, <1>2, <1>3, <1>4, <2>1, <2>3 DEF ValueInv, ValuesOf, Untold, Set
    <3>2. Want(h, p) # Mistake /\ Want(h, p) # Get(Original, p)
      BY PatchesAssumption DEF NothingEchoed, Claims, Want, Has
    <3> QED
      BY <1>6, <2>3, <3>1, <3>2 DEF Has
  <2> QED
    BY <2>2, <2>3
<1> QED
  BY <1>5, <1>6, <1>7 DEF PriorsTrue

\* An apply leaves what its patch wants, and at the other paths of the contributor
\* what was there before.
LEMMA AppliedValues ==
    ASSUME PathLaws, GrowsOverNothing, ShapeInv, ValueInv, NEW c \in Contributors, Apply(c),
           NEW p \in Claimable(c)
    PROVE  IF p \in Claims(obj[c].patch) THEN Get(live', p) = Want(obj[c].patch, p)
           ELSE Get(live', p) = Mistake /\ ~Has(Original, p)
<1>1. Update(c) /\ obj[c].phase = "live" /\ pass.snap[c].phase = "live"
  BY ApplyPass
<1>2. /\ c \in pass.todo /\ pass.pc = "update"
      /\ Get(live', p) = DesiredAt(c, p, Get(live, p))
  BY <1>1, UpdateLaw
<1>3. pass.snap[c].patch = obj[c].patch /\ obj[c].patch \in Patches[c] /\ ValuesOf(c)
  BY <1>2 DEF ShapeInv, PassOK, SnapshotOK, ObjectsOK, ValueInv
<1>4. CASE p \in Claims(obj[c].patch)
  BY <1>1, <1>2, <1>3, <1>4 DEF DesiredAt
<1>5. CASE p \notin Claims(obj[c].patch)
  <2>1. ~Has(Original, p)
    BY <1>3, <1>5, AlwaysClaimed
  <2>2. CASE c \in DOMAIN pass.known /\ p \in Claims(pass.known[c].hash)
    <3>1. Get(live', p) = Withdrawn(pass.known[c].priors, p)
      BY <1>2, <1>3, <1>5, <2>2 DEF DesiredAt
    <3>2. PriorsTrue(pass.known[c])
      BY <2>2 DEF ValueInv, AllPriorsTrue
    <3>3. String(p) \notin DOMAIN pass.known[c].priors
      BY <2>1, <2>2, <3>2 DEF PriorsTrue
    <3> QED
      BY <1>5, <2>1, <3>1, <3>3 DEF Withdrawn
  <2>3. CASE c \in DOMAIN pass.known /\ p \notin Claims(pass.known[c].hash)
    <3>1. Get(live', p) = Get(live, p)
      BY <1>2, <1>3, <1>5, <2>3 DEF DesiredAt
    <3>2. ~Has(live, p)
      BY <1>1, <1>3, <1>5, <2>3 DEF ValuesOf, AtHash, Set
    <3> QED
      BY <1>5, <2>1, <3>1, <3>2 DEF Has
  <2>4. CASE c \notin DOMAIN pass.known
    <3>1. Get(live', p) = Get(live, p)
      BY <1>2, <1>3, <1>5, <2>4 DEF DesiredAt
    <3>2. Get(live, p) = Get(Original, p)
      BY <1>1, <1>2, <1>3, <1>5, <2>4 DEF ValuesOf, Untold, Set
    <3> QED
      BY <1>5, <2>1, <3>1, <3>2 DEF Has
  <2> QED
    BY <2>2, <2>3, <2>4
<1> QED
  BY <1>4, <1>5

LEMMA ValueApply ==
    ASSUME PathLaws, GrowsOverNothing, NothingEchoed, ShapeInv, ValueInv,
           NEW c \in Contributors, Apply(c)
    PROVE  ValueInv'
<1>1. /\ Update(c) /\ obj[c].phase = "live" /\ UNCHANGED <<obj, rec, seen>>
      /\ pass'.pc = "read" /\ pass'.todo = pass.todo \ {c} /\ pass'.known = pass.known
      /\ DOMAIN pass'.out = DOMAIN pass.out \cup {c}
      /\ pass'.out[c] = NewRecord(c)
      /\ \A d \in DOMAIN pass.out : d # c => pass'.out[d] = pass.out[d]
  BY ApplyPass
<1>2. missed' = missed
  BY <1>1 DEF Update
<1>3. /\ c \in pass.todo /\ pass.pc = "update"
      /\ \A d \in Contributors : d # c =>
            \A p \in Claimable(d) : Get(live', p) = Get(live, p)
  BY <1>1, UpdateLaw
<1>4. obj[c].patch \in Patches[c]
  BY DEF ShapeInv, ObjectsOK
<1>5. ASSUME NEW d \in Contributors
      PROVE  ValuesOf(d)'
  <2>1. CASE d = c
    <3>1. PICK h \in Patches[c] : h = obj[c].patch
      BY <1>4
    <3>2. \A p \in Claimable(c) :
            IF p \in Claims(h) THEN Get(live', p) = Want(h, p)
            ELSE Get(live', p) = Mistake /\ ~Has(Original, p)
      BY <3>1, AppliedValues
    <3>3. obj'[c].phase = "live" /\ obj'[c].patch = h /\ c \in DOMAIN pass'.out
      BY <1>1, <3>1
    <3>4. \A p \in Claimable(c) : p \in Claims(h) => Set(h, p)'
      BY <3>2 DEF Set
    <3>5. \A p \in Claimable(c) : p \notin Claims(h) =>
            ~Has(Original, p) /\ ~Has(live', p) /\ Get(live', p) = Get(Original, p)
      BY <3>2 DEF Has
    <3>6. \A g : AtHash(c, g)'
      BY <3>3, <3>4, <3>5 DEF AtHash
    <3>7. Untold(c, TRUE)'
      BY <3>3, <3>4, <3>5 DEF Untold
    <3>8. AtHash(c, rec[c].hash)' /\ AtHash(c, seen[c].hash)' /\ AtHash(c, pass.known[c].hash)'
      BY <3>6 DEF AtHash
    <3> QED
      BY <2>1, <3>2, <3>3, <3>5, <3>7, <3>8 DEF ValuesOf, Untold
  <2>2. CASE d # c
    <3>1. ValuesOf(d)
      BY DEF ValueInv
    <3>2. /\ d \in pass.todo => d \in pass'.todo
          /\ d \in DOMAIN pass.out <=> d \in DOMAIN pass'.out
      BY <1>1, <2>2
    <3> QED
      BY <1>1, <1>2, <1>3, <2>2, <3>1, <3>2, ValuesSame
  <2> QED
    BY <2>1, <2>2
<1>6. PriorsTrue(pass'.out[c])
  <2>1. PICK s : s = NewRecord(c)
    OBVIOUS
  <2>2. PriorsTrue(s)
    BY <2>1, AppliedPriors
  <2> QED
    BY <1>1, <2>1, <2>2
<1>7. AllPriorsTrue'
  <2>1. \A d \in DOMAIN pass'.out :
            \/ d \in DOMAIN pass.out /\ pass'.out[d] = pass.out[d]
            \/ PriorsTrue(pass'.out[d])
    BY <1>1, <1>6
  <2> QED
    BY <1>1, <1>2, <2>1, PriorsSame DEF ValueInv
<1> QED
  BY <1>5, <1>7 DEF ValueInv


\* A contributor comes, changes, leaves and goes.
LEMMA ValueObjects ==
    ASSUME ShapeInv, ValueInv, NEW c \in Contributors,
           Create(c) \/ Change(c) \/ Leave(c) \/ Go(c)
    PROVE  ValueInv'
<1>1. UNCHANGED <<live, rec, seen, pass, missed>>
  BY DEF Create, Change, Leave, Go
<1>2. ObjectsOK /\ RecordsOK /\ CacheOK /\ PassOK /\ ValuesOf(c)
  BY DEF ShapeInv, ValueInv
<1>3. /\ \A p : Back(p) <=> Back(p)'
      /\ \A h, p : Set(h, p) <=> Set(h, p)'
      /\ \A p : Has(live, p) <=> Has(live', p)
  BY <1>1 DEF Back, Set
<1>4. \A d \in Contributors : d # c => obj'[d] = obj[d]
  BY <1>2 DEF Create, Change, Leave, Go, ObjectsOK
<1>5. pass.pc = "idle" => DOMAIN pass.out = {} /\ DOMAIN pass.known = {}
  BY <1>2 DEF PassOK
<1>6. c \in DOMAIN pass.out => obj[c].phase = "live"
  BY <1>2, <1>5 DEF PassOK, SnapshotOK
\* A contributor whose spec shows as applied has the fields of its spec.
<1>s. ASSUME Settled(c)
      PROVE  /\ c \in DOMAIN seen /\ c \in DOMAIN rec /\ obj[c].phase = "live"
             /\ seen[c].hash = obj[c].patch /\ rec[c].hash = obj[c].patch
             /\ pass.pc = "idle" /\ DOMAIN pass.out = {} /\ DOMAIN pass.known = {}
             /\ \A p \in Claimable(c) :
                    \/ Set(obj[c].patch, p)
                    \/ ~Has(Original, p) /\ ~Has(live, p) /\ p \notin Claims(obj[c].patch)
  <2>1. /\ c \in DOMAIN seen /\ c \in DOMAIN rec /\ obj[c].phase = "live"
        /\ seen[c].hash = obj[c].patch /\ rec[c].hash = obj[c].patch /\ pass.pc = "idle"
    BY <1>2, <1>s DEF Settled, CacheOK
  <2>2. AtHash(c, rec[c].hash)
    BY <1>2, <2>1 DEF ValuesOf
  <2> QED
    BY <1>5, <2>1, <2>2 DEF AtHash
<1>7. ValuesOf(c)'
  <2>1. CASE Create(c)
    <3>1. obj'[c].phase = "live" /\ obj[c].phase = "absent"
      BY <1>2, <2>1 DEF Create, ObjectsOK
    <3>2. c \notin DOMAIN rec' /\ c \notin DOMAIN seen' /\ c \notin DOMAIN pass'.out
      BY <1>1, <1>2, <1>6, <3>1 DEF RecordsOK
    <3>3. c \notin DOMAIN pass'.known
      BY <1>1, <1>2, <1>5, <3>1 DEF PassOK, SnapshotOK
    <3>4. \A p \in Claimable(c) : Get(live', p) = Get(Original, p)
      BY <1>1, <1>2, <3>1 DEF ValuesOf
    <3> QED
      BY <3>1, <3>2, <3>3, <3>4 DEF ValuesOf, Untold
  <2>2. CASE Change(c)
    <3>1. PICK h \in Patches[c] : obj' = [obj EXCEPT ![c].patch = h]
      BY <2>2 DEF Change
    <3>2. Settled(c)
      BY <2>2 DEF Change
    <3>3. PICK g : g = obj[c].patch
      OBVIOUS
    <3>4. /\ obj'[c].phase = "live" /\ obj'[c].patch = h
          /\ c \in DOMAIN rec' /\ c \in DOMAIN seen' /\ rec'[c].hash = g /\ seen'[c].hash = g
          /\ DOMAIN pass'.out = {} /\ DOMAIN pass'.known = {} /\ pass'.pc = "idle"
      BY <1>1, <1>2, <1>s, <3>1, <3>2, <3>3 DEF ObjectsOK
    <3>5. \A p \in Claimable(c) :
            Set(g, p)' \/ (~Has(Original, p) /\ ~Has(live', p) /\ p \notin Claims(g))
      BY <1>3, <1>s, <3>2, <3>3
    <3>6. AtHash(c, g)'
      BY <3>5 DEF AtHash
    <3>7. AtHash(c, rec[c].hash)' /\ AtHash(c, seen[c].hash)'
      BY <3>4, <3>6 DEF AtHash
    <3> QED
      BY <3>4, <3>7 DEF ValuesOf
  <2>3. CASE Leave(c)
    <3>1. Settled(c) /\ obj' = [obj EXCEPT ![c].phase = "leaving"]
      BY <2>3 DEF Leave
    <3>2. PICK g : g = obj[c].patch
      OBVIOUS
    <3>3. /\ obj'[c].phase = "leaving" /\ obj'[c].patch = g
          /\ c \in DOMAIN rec' /\ DOMAIN pass'.out = {} /\ pass'.pc = "idle"
      BY <1>1, <1>2, <1>s, <3>1, <3>2 DEF ObjectsOK
    <3>4. \A p \in Claimable(c) : Set(g, p) \/ (~Has(Original, p) /\ ~Has(live, p))
      BY <1>s, <3>1, <3>2
    <3>5. \A p \in Claimable(c) : Set(g, p)' \/ Back(p)'
      BY <1>3, <3>4 DEF Back, Has
    <3> QED
      BY <3>3, <3>5 DEF ValuesOf
  <2>4. CASE Go(c)
    <3>1. /\ obj[c].phase = "leaving" /\ obj'[c].phase = "gone"
          /\ c \notin DOMAIN rec /\ c \notin DOMAIN rec' /\ c \notin DOMAIN pass'.out
      BY <1>1, <1>2, <1>6, <2>4 DEF Go, ObjectsOK, CacheOK
    <3>2. \A p \in Claimable(c) : Back(p)
      BY <1>2, <3>1 DEF ValuesOf
    <3>3. \A p \in Claimable(c) : Back(p)'
      BY <1>3, <3>2
    <3> QED
      BY <3>1, <3>3 DEF ValuesOf
  <2> QED
    BY <2>1, <2>2, <2>3, <2>4
<1>8. ASSUME NEW d \in Contributors, d # c
      PROVE  ValuesOf(d)'
  <2>1. ValuesOf(d)
    BY DEF ValueInv
  <2> QED
    BY <1>1, <1>4, <1>8, <2>1, ValuesSame
<1>9. AllPriorsTrue'
  BY <1>1, PriorsSame DEF ValueInv
<1> QED
  BY <1>7, <1>8, <1>9 DEF ValueInv

LEMMA ValueForeignWrite ==
    ASSUME PathLaws, ShapeInv, ValueInv, NEW v \in ForeignValues, ForeignWrite(v)
    PROVE  ValueInv'
<1>1. /\ \A p \in AllClaimable : Get(live', p) = Get(live, p)
      /\ UNCHANGED <<obj, rec, seen, pass, missed>>
  BY ForeignWriteLaw
<1>2. ASSUME NEW d \in Contributors
      PROVE  ValuesOf(d)'
  <2>1. ValuesOf(d)
    BY DEF ValueInv
  <2>2. \A p \in Claimable(d) : Get(live', p) = Get(live, p)
    BY <1>1, PathsApart
  <2> QED
    BY <1>1, <2>1, <2>2, ValuesSame
<1>3. AllPriorsTrue'
  BY <1>1, PriorsSame DEF ValueInv
<1> QED
  BY <1>2, <1>3 DEF ValueInv

LEMMA ValueStep ==
    ASSUME PathLaws, GrowsOverNothing, NothingEchoed, ShapeInv, ValueInv, [Next]_vars
    PROVE  ValueInv'
<1>1. CASE Read \/ Refused \/ LoseStatus
  BY <1>1, ValuePass
<1>2. CASE WriteStatus
  BY <1>2, ValueWriteStatus
<1>3. CASE \E v \in ForeignValues : ForeignWrite(v)
  BY <1>3, ValueForeignWrite
<1>4. ASSUME NEW c \in Contributors,
             Release(c) \/ Apply(c) \/ Create(c) \/ Change(c) \/ Leave(c) \/ Go(c)
      PROVE  ValueInv'
  BY <1>4, ValueRelease, ValueApply, ValueObjects
<1>5. CASE UNCHANGED vars
  BY <1>5 DEF vars, ValueInv, ValuesOf, AllPriorsTrue, PriorsTrue, AtHash, Untold,
              Back, Set
<1>6. CASE StartPass
  BY <1>6, ValueStartPass
<1>7. CASE Sync
  BY <1>7, ValueSync
<1> QED
  BY <1>1, <1>2, <1>3, <1>4, <1>5, <1>6, <1>7 DEF Next

LEMMA FieldsFromValues ==
    ASSUME GrowsOverNothing, ShapeInv, ValueInv
    PROVE  FieldsAsRecorded
<1> SUFFICES ASSUME NEW c \in Contributors, Settled(c) \/ obj[c].phase = "gone"
             PROVE  LET con == Contribution(obj[c])
                        claimed == IF Settled(c) THEN Range(con.paths) ELSE {}
                    IN  /\ \A p \in claimed : Get(live, p) = Get(con.object, p)
                        /\ \A p \in Claimable(c) \ claimed :
                            \/ Get(live, p) = Get(Original, p)
                            \/ missed /\ ~Has(live, p)
  BY DEF FieldsAsRecorded
<1>1. PICK h \in Patches[c] : h = obj[c].patch
  BY DEF ShapeInv, ObjectsOK
<1>2. Contribution(obj[c]) = Rendered[h] /\ Claims(h) \subseteq Claimable(c)
  BY <1>1, PathsApart DEF Contribution
<1>3. CASE Settled(c)
  <2>1. \A p \in Claimable(c) :
            Set(h, p) \/ (~Has(Original, p) /\ ~Has(live, p) /\ p \notin Claims(h))
    <3>1. c \in DOMAIN rec /\ obj[c].phase = "live" /\ rec[c].hash = h
      BY <1>1, <1>3 DEF Settled, ShapeInv, CacheOK
    <3> QED
      BY <1>1, <3>1 DEF ValueInv, ValuesOf, AtHash
  <2>2. \A p \in Claims(h) : Get(live, p) = Want(h, p)
    BY <1>2, <2>1 DEF Set
  <2>3. \A p \in Claimable(c) \ Claims(h) : Get(live, p) = Get(Original, p)
    BY <2>1 DEF Set, Has
  <2> QED
    BY <1>2, <1>3, <2>2, <2>3 DEF Claims, Want
<1>4. CASE ~Settled(c) /\ obj[c].phase = "gone"
  <2>1. c \notin DOMAIN rec
    BY <1>4 DEF ShapeInv, RecordsOK
  <2>2. \A p \in Claimable(c) : Back(p)
    BY <1>4, <2>1 DEF ValueInv, ValuesOf
  <2> QED
    BY <1>4, <2>2 DEF Back
<1> QED
  BY <1>3, <1>4

\* A contributor whose spec shows as applied has its fields in the target, what it
\* gave up is back to what it was, and so is everything a contributor that has gone
\* ever set; where a pass was lost, or began with an old tracker, a field may be
\* missing, but a contributor's own value is never taken for a prior one (csa.go,
\* update, Revert and restoreOrDelete; tracker_controller.go, recordFor).
THEOREM FieldsAreAsRecorded ==
    ASSUME PathLaws, GrowsOverNothing, NothingEchoed
    PROVE  Spec => []FieldsAsRecorded
<1>1. Init => ShapeInv /\ ValueInv
  BY ShapeInit, ValueInit
<1>2. ShapeInv /\ ValueInv /\ [Next]_vars => (ShapeInv /\ ValueInv)'
  BY ShapeStep, ValueStep
<1>3. ShapeInv /\ ValueInv => FieldsAsRecorded
  BY FieldsFromValues
<1> QED
  BY <1>1, <1>2, <1>3, PTL DEF Spec

LEMMA RestoredFromValues ==
    ASSUME PathLaws, ShapeInv, ValueInv
    PROVE  Restored
<1>1. SUFFICES ASSUME AllGone, ~missed PROVE AsBefore
  BY DEF Restored
<1>2. PICK n \in Trees : n = live
  BY DEF ShapeInv, ValuesOK
<1>3. ASSUME NEW p \in AllClaimable
      PROVE  Get(n, p) = Get(Original, p)
  <2>1. PICK c \in Contributors : p \in Claimable(c)
    BY DEF AllClaimable
  <2>2. obj[c].phase \in {"absent", "gone"} /\ c \notin DOMAIN rec
    BY <1>1 DEF AllGone, ShapeInv, RecordsOK
  <2>3. CASE obj[c].phase = "absent"
    BY <1>2, <2>1, <2>3 DEF ValueInv, ValuesOf
  <2>4. CASE obj[c].phase = "gone"
    BY <1>1, <1>2, <2>1, <2>2, <2>4 DEF ValueInv, ValuesOf, Back
  <2> QED
    BY <2>2, <2>3, <2>4
<1>4. n = SetIn(Original, ForeignPath, Get(n, ForeignPath))
  BY <1>3 DEF PathLaws, NoLitter
<1>5. Get(n, ForeignPath) = theirs
  BY <1>2 DEF ShapeInv, OthersKept
<1> QED
  BY <1>2, <1>4, <1>5 DEF AsBefore

\* Once every contributor has gone, and every pass that applied something wrote its
\* status and was known to the next, the target is what it was but for what somebody
\* else wrote (csa.go, Revert: "must put the original back, not remove the field").
THEOREM TargetIsRestored ==
    ASSUME PathLaws, GrowsOverNothing, NothingEchoed
    PROVE  Spec => []Restored
<1>1. Init => ShapeInv /\ ValueInv
  BY ShapeInit, ValueInit
<1>2. ShapeInv /\ ValueInv /\ [Next]_vars => (ShapeInv /\ ValueInv)'
  BY ShapeStep, ValueStep
<1>3. ShapeInv /\ ValueInv => Restored
  BY RestoredFromValues
<1> QED
  BY <1>1, <1>2, <1>3, PTL DEF Spec

-----------------------------------------------------------------------------
(* Where the laws come from *)

\* Trees is closed under what may be set and withdrawn, a list never holds two
\* elements with the key of a claimed one, and no empty parent stays behind.
TreesFit(Nodes) ==
    /\ Original \in Trees /\ Mistake \notin Trees
    /\ AreNodes(Nodes) /\ Trees \subseteq Nodes
    /\ \A n \in Trees :
        /\ \A p \in AllClaimable \cup {ForeignPath} : \A v \in Settable(p) : SetIn(n, p, v) \in Trees
        /\ \A p \in AllClaimable : Delete(n, p) \in Trees /\ EndsInOne(n, p)
    /\ NoLitter

\* Paths are claims as the operator makes them, their names have no dot in them, and
\* two different ones part somewhere.
PathsFit(Segments) ==
    /\ \A p \in AllClaimable :
        /\ p \in Seq(Segments) /\ IsPlain(p)
        /\ \A i \in 1..Len(p) : IsPlainText(p[i])
    /\ \A p \in AllClaimable \cup {ForeignPath} :
        /\ \A v \in Settable(p) : IsClaim(p, v)
        /\ \A q \in Watched \ {p} : \E k \in 1..Len(p) : PartAt(p, q, k)
    /\ \A q \in Watched : Len(q) \in Nat /\ \A i \in 1..Len(q) : IsSegment(q[i])

\* The laws the theorems above assume follow from the form of paths and trees: none
\* of what Get, Set, Delete and Parse do has to be assumed (fieldpath.go).
THEOREM PathsAreLawful ==
    ASSUME NEW Nodes, NEW Segments, TreesFit(Nodes), PathsFit(Segments)
    PROVE  PathLaws
<1>1. AreNodes(Nodes) /\ Trees \subseteq Nodes /\ Mistake \notin Trees
  BY DEF TreesFit
<1>2. ASSUME NEW n \in Trees, NEW p \in AllClaimable \cup {ForeignPath}, NEW v \in Settable(p)
      PROVE  LET m == SetIn(n, p, v) IN m \in Trees /\ Get(m, p) = v /\ SameBut(n, m, p)
  <2>1. SetIn(n, p, v) \in Trees
    BY <1>2 DEF TreesFit
  <2>2. n \in Nodes /\ IsClaim(p, v) /\ SetIn(n, p, v) # Mistake
    BY <1>1, <1>2, <2>1 DEF PathsFit
  <2>3. Get(SetIn(n, p, v), p) = v
    BY <1>1, <2>2, SetThenGet
  <2>4. ASSUME NEW q \in Watched \ {p}
        PROVE  Get(SetIn(n, p, v), q) = Get(n, q)
    <3>1. PICK k : PartAt(p, q, k)
      BY <1>2, <2>4 DEF PathsFit
    <3>2. Len(q) \in Nat /\ \A i \in 1..Len(q) : IsSegment(q[i])
      BY <2>4 DEF PathsFit
    <3> QED
      BY <1>1, <2>2, <3>1, <3>2, SetKeepsOthers
  <2> QED
    BY <2>1, <2>3, <2>4 DEF SameBut, Watched
<1>3. ASSUME NEW n \in Trees, NEW p \in AllClaimable
      PROVE  LET m == Delete(n, p) IN m \in Trees /\ ~Has(m, p) /\ SameBut(n, m, p)
  <2>1. Delete(n, p) \in Trees /\ EndsInOne(n, p)
    BY <1>3 DEF TreesFit
  <2>2. p \in Seq(Segments) /\ IsPlain(p)
    BY <1>3 DEF PathsFit
  <2>3. ~Has(Delete(n, p), p)
    BY <2>1, <2>2, DeleteLeavesNothing
  <2>4. ASSUME NEW q \in Watched \ {p}
        PROVE  Get(Delete(n, p), q) = Get(n, q)
    <3>1. PICK k : PartAt(p, q, k)
      BY <1>3, <2>4 DEF PathsFit
    <3>2. Len(q) \in Nat /\ \A i \in 1..Len(q) : IsSegment(q[i])
      BY <2>4 DEF PathsFit
    <3> QED
      BY <2>1, <2>2, <3>1, <3>2, DeleteKeepsOthers
  <2> QED
    BY <2>1, <2>3, <2>4 DEF SameBut, Watched
<1>4. ASSUME NEW p \in AllClaimable
      PROVE  Parse(String(p)) = p
  <2>1. p \in Seq(Segments) /\ \A i \in 1..Len(p) : IsPlainText(p[i])
    BY <1>4 DEF PathsFit
  <2> QED
    BY <2>1, TextIsReadBack
<1>5. SetLaw
  BY <1>2 DEF SetLaw
<1>6. DeleteLaw
  BY <1>3 DEF DeleteLaw
<1>7. TextLaw
  BY <1>4 DEF TextLaw
<1>8. Original \in Trees /\ NoLitter
  BY DEF TreesFit
<1> QED
  BY <1>1, <1>5, <1>6, <1>7, <1>8 DEF PathLaws

\* Whatever the passes, their losses and the writes of somebody else make of the
\* target, its paths are lawful: Set puts its value where Get finds it, Delete leaves
\* nothing there, neither disturbs another path, and text is read back (fieldpath.go).
THEOREM PathsStayLawful ==
    ASSUME NEW Nodes, NEW Segments, TreesFit(Nodes), PathsFit(Segments)
    PROVE  Spec => []PathsLawful
<1>1. PathLaws
  BY PathsAreLawful
<1>2. Init => ShapeInv
  BY <1>1, ShapeInit
<1>3. ShapeInv /\ [Next]_vars => ShapeInv'
  BY <1>1, ShapeStep
<1>4. ShapeInv => PathsLawful
  BY <1>1 DEF ShapeInv, ValuesOK, PathsLawful
<1> QED
  BY <1>2, <1>3, <1>4, PTL DEF Spec

=============================================================================
