# A TLA+ model of the patch operator

The patch operator lets several independent objects (*contributors*) each patch
part of one Kubernetes object (the *target*), withdraws each part when its
contributor goes, and creates or deletes the target when a contributor asks for
it. This directory models the controllers that do so, what they compute, and the
admission in front of them; checks the models with TLC on small instances; and
proves every safety property the passing runs check of these models with TLAPS,
for any number of contributors.

Line numbers refer to `src/`. `PROJECT.json` maps every definition to the lines
it models and lists runs, mutants, hazards, findings and theorems.

## 1. Inventory

### Parts, their state, their operations

| part | source | state it keeps | operations | module |
|---|---|---|---|---|
| contributor controllers (ResourcePatch, ClusterResourcePatch) | `internal/controller/contributor_controller.go` | finalizer, registration (`sharedResourceRefs`), Ready, Authorized | Reconcile, reconcileDelete, ensureTracker, syncStatus, resolveTargets, resolveSelector, reauthorize | `ContributorController`, `Admission` |
| tracker controllers (SharedResource, ClusterSharedResource) | `internal/controller/tracker_controller.go` | the tracker's status: contributor records with owned paths and prior values, recorded creator, phase; the target itself | Reconcile, reconcileContributions, releaseContributor, maybeDeleteTarget, recordProvenance, writeStatus, reconcileEmpty, reconcileDelete | `TrackerController` |
| promotion | `internal/controller/promotion.go` | the fence `status.promotedTo`, its `adopted` flag | promoteIfNeeded, createSuccessor, adoptStatus, finishPromotion | `Promotion` |
| event wiring | `internal/controller/helpers.go`, the `SetupWithManager`s | the work queues | predicates, mapping functions, requeues, timer | `WorkQueues` |
| conflict detection | `tracker_controller.go`, `internal/apply/conflict.go` | none | detectPathConflicts, isSupersededOn, classification of managers | `Arbitration` |
| appliers | `internal/apply/ssa.go`, `csa.go` | none | Apply and Revert, both modes | `TrackerController`, `Arbitration`, `ClientSide` |
| rendering | `internal/render/` | none | contributions, field paths, get/set/delete | `FieldPaths`, `Rendering` |
| target watch manager | `internal/targetcache/` | registrations, a cap | Ensure | `TargetCache` |
| scope rules | `internal/scope/` | none | validation, target namespace, tracker kind | `Admission` |
| admission webhooks | `internal/webhook/` | the identity recorded in a contributor | mutate, validate, access reviews | `Admission` |
| impersonation, indexes, RBAC markers, start-up, generated code | `internal/impersonate/`, `index.go`, `rbac.go`, `cmd/main.go` | none | wiring | — |

### How they interact

Nothing is called across controllers. They meet in the API server: a
contributor's worker creates the tracker and records the registration in the
contributor; the tracker's pass *lists* contributors from its informer cache,
writes the target, and writes its own status; the contributor's worker mirrors
that status into Ready, and holds the finalizer until the tracker's list no
longer shows the contributor. The fence is written by a ClusterResourcePatch's
worker into a SharedResource's status, next to what that tracker's own pass
writes there. The two tracker controllers share one watch manager, under a
mutex. Every write of a contributor, the operator's own finalizer updates
included, passes the webhooks.

### What is hard

* Reads come from caches that lag; only promotion and the lookup of the cluster
  tracker read uncached. Decisions are taken on stale copies; only a write with a
  resourceVersion precondition notices.
* A reconcile is several API calls. Each may fail, the process may die between
  any two, and two controllers may be anywhere in between.
* During a promotion two trackers know the same target.
* The reference count is a list of records in a status: an undercount deletes an
  object that is in use, an overcount never lets a contributor go.
* Existence of the target is checked in a call of its own before the write, and
  so is the conflict that decides whether a server-side apply is forced.
* What a contributor overwrote is known only from a status that may not get
  written, or may not have reached the cache when the next pass begins.
* Every write of the target is an event that starts the next pass.
* Progress depends on which events the predicates let through, and on a watch
  that may have been refused.
* Rights change after admission asked about them; specs may be older than
  admission, and kinds younger. Requests carry annotations of their own.

### What makes each part correct

* contributor controller: a contributor goes only when its fields are off the
  target, and it does go; one that stays ends up applied and Ready.
* tracker controller: the target is deleted only when nobody uses it, and only
  on behalf of whoever created it; the recorded creator is not lost.
* promotion: the fence is durable; the predecessor goes only after its state was
  adopted; the promotion completes and leaves one tracker.
* event wiring: no step of these protocols waits for an event that is filtered.
* conflict detection: at rest the status says what is so; the operator comes to
  rest.
* client-side applier: what is withdrawn leaves the target as it was, and what
  others own is not touched.
* target watch manager: the cap holds, an answer of Ensure stays true, drift is
  repaired.
* admission: the recorded identity is the author's and there always is one, a
  ResourcePatch stays in its namespace, what was asked covers what is written, a
  revocation shows.

## 2. Modules

```
SharedObject              the promise, without machinery
   ^ refined by
OperatorState             objects, caches, resourceVersions, reconciles
   |
Promotion
   |            \
ContributorController   TrackerController
   |            /
Operator                  composition with users, informers, failures; safety
   |            \
WorkQueues   OperatorProofs       events, queues, liveness | types, locking, fence,
   |            |                                            creator, promotion's end
   |      ReleaseProofs           deletion; withdrawal before the finalizer goes
   |            |
SharedObjectProofs                the refinements

Arbitration  - ArbitrationProofs  contested fields under server-side apply
TargetCache  - TargetCacheProofs  the watch manager and drift
FieldPaths   - Rendering          trees and paths; what a patch claims of them
FieldPaths   - FieldPathsProofs   the laws of Get, Set, Delete and Parse
FieldPaths   - ClientSide - ClientSideProofs   client-side apply and revert
Admission    - AdmissionProofs    webhooks, scope, re-authorization
```

Each `MC*` module gives the constants of its component values for TLC.

The components below the line are models of their own, on purpose. The core is
about *who is on the target and who counts*: there a contribution is a token
and contributions are disjoint. The others look inside what the core treats as
one step: which of several values wins (`Arbitration`), what value comes back
(`ClientSide`), whether a pass starts at all (`TargetCache`), whether the spec may
exist (`Admission`). Each re-states the little it needs of the pass (release,
apply, status; a contributor goes when it is not listed).

### The core: OperatorState, Promotion, ContributorController, TrackerController, Operator

**One target.** Targets do not interact: tracker names are a function of the
target, and no state but the watch manager's is shared between them. The model
follows one namespaced target, its ResourcePatches (`RPs`), its
ClusterResourcePatches (`CRPs`) and its two possible trackers `"SR"` and `"CSR"`.

**State.** `contrib` and `trk` are the objects in the API server,
`contribCache` and `trkCache` the informers' view, `target` the target,
`worker[k]` the reconcile in progress of contributor kind `k`, `pass[t]` that of
tracker `t` (`pc` and what the code holds in local variables at that point).
`outOfBand` and `failures` count bounded environment steps.

**resourceVersions without counters.** `freshT[t]` and `freshC[c]` are the
holders (`"cache"`, `"pass"`, `"worker"`) whose copy is at the object's current
resourceVersion. A write empties the set unless it changes nothing; an Update is
accepted from a holder in the set and is an error otherwise. This keeps the
state finite and makes the conflict rule exact.

**Steps.** An action is one call to the API server with the local computation
around it:

| action | code |
|---|---|
| `StartReconcile`, `AddFinalizer`, `SetInvalid`, `DropFinalizer` | contributor Reconcile, reconcileDelete |
| `LookupClusterTracker`, `LookupOwnTracker`, `CreateTrackerFor`, `SyncStatus` | ensureTracker, syncStatus |
| `FenceTracker`, `ReadPredecessor`, `CreateSuccessor`, `AdoptPredecessor`, `FlagAdopted` | promoteIfNeeded, createSuccessor, adoptStatus |
| `Unfence`, `DropTrackerFinalizer`, `DeleteSelf` | finishPromotion, reconcileEmpty, reconcileDelete of a tracker |
| `StartPass` (with `Dispatch`) | tracker Reconcile up to its first call |
| `ReleaseContributor`, `DeleteTarget` | releaseContributor, maybeDeleteTarget |
| `CheckTarget`, `ApplyContribution` | the two calls of `Apply`, server side and client side |
| `RecordProvenance`, `WriteStatus`, `ReportFailure` | recordProvenance, writeStatus, through patchStatus and its retry |
| `SyncTracker`, `SyncContributor` | a watch event reaching an informer (external) |
| `AbortWorker`, `AbortPass` | a failed call, a conflict that outlasts its retries, or a crash |

**Decisions worth knowing.**

* A crash is the abort of reconciles: all durable state is in the API server,
  and a restarted informer lists current objects, which is a sync.
* A sync moves the cache to the current version. Skipping intermediate versions
  is what watch compression and relists do; a cache that has not moved yet is
  the stale case.
* The worker keeps no copy of its contributor: it is only written back, and that
  is accepted only while it equals the stored one. The cached read of
  `syncStatus` is taken with the write; a lagging cache stands for an earlier
  read.
* `fields` of the target are the contributors whose contribution it carries.
  A client-side apply that finds the contribution in place writes nothing; its
  Update conflicts when the object is no longer the one its Get returned
  (`seen`); success of Get and Update together is atomic. A client-side Revert is
  therefore one step, a conflict in it an abort.
* Server-side Revert of an absent object creates it (an apply of the bare
  identity), unless the API server rejects such an object (`BareObjectValid`).
* `maker` of the target is an observation: who created this incarnation.
* `releasing` is phase Releasing, the only phase that is ever tested; other
  phases, conditions and messages are left out. `createdByOperator` is written in
  the same places as `creatorPatchRef` and is `creator # NoOne`. `owned` keeps
  the paths of client-side contributors only: no one reads those of the others.
* A contributor identity is used once: deleting and re-creating a contributor
  under the same name is not modelled. Specs do not change here.
* `Prompt` is a bound on lag: events of these objects are delivered before
  anything else happens. Objects outside it lag without limit.

### SharedObject

What users are promised, in three variables and seven actions: contributors
join, are applied, are told so, leave, are withdrawn and go; the object is
deleted when unused. `Operator` maps `phase` and `ready` to the contributors'
objects and `object` to the target; trackers, caches, fences, finalizers and
reconciles are invisible, so nearly every step of the operator is a stutter and
each write of the target must be one of `Apply`, `Withdraw`, `Delete`, allowed by
what users see. `Acknowledge` requires the fields to be on the object *when* Ready
is written; no step takes fields of a live contributor away; `Delete` requires a
maker that leaves and asked for it (or an empty object a withdrawal made).

The refinement holds without promotion, where every contribution renders, nobody
else touches the target or the trackers, and whoever asks for deletion applies
server-side: `Lifecycle` checks it on an instance, `SharedObjectProofs` proves it
for all of them. Sections 4 and 6 name instances where each of these hypotheses
is dropped and something breaks.

### WorkQueues

Adds `queue` and lets a reconcile begin only for a queued object.
`ContributorChanged` and `TrackerChanged` are the predicates
(generationOrFinalizerChanged, trackerChanged), `TrackersOfContributor` and
`ContributorsOfTracker` the mapping functions, `WorkerRequeues` and
`PassRequeues` the results and errors that queue again, and `Reauthorize` the
timer of `reauthorize`, which is on by default and is the one thing that brings
back a contributor nobody else knows about.

### Arbitration

One tracker's pass over contributors whose claims overlap. The target is a
function from paths to a value and its field managers; `AppliedField` is the API
server's merge (an agreeing manager is joined, a disagreeing one is forced out, a
field without managers goes). `Apply` and `ForceApply` are the two calls of
`patch`: between them a foreign manager may arrive. `IsSuperseded` and `MayForce`
are isSupersededOn and the policies. A change of the target sets `due`, as the
target watch does, and a status write does not; specs change and passes fail up
to `MaxDisturbed` times; a foreign controller writes its value back as often as
it likes. The target exists throughout.

### TargetCache

`Lock`, `Check`, `Watch` are the steps of Ensure under `mu`; a registration is a
pair of controller and kind, the cap counts kinds. `Drift` changes a target and
queues what `MapFn` finds; `Repair` is the rest of the pass; `Reauthorized` is the
timer's status write, an event for the tracker, for the trackers in `Timed`;
`Restart` loses all registrations.

### FieldPaths, Rendering and ClientSide

`FieldPaths` has trees, paths, `String` and `Parse`, `Get`, `SetIn` and `Delete`
with its pruning of empty parents. The code's recursion down a path is a pair of
recursive functions over the positions of the path, one for the way down (`Below`:
the child, made when it is missing) and one for the way up (`Put`, `Cut`).
`Rendering` has `Render`: leaf paths, merge keys, JSON6902 additions. A name is a
sequence of its dot-separated words, so that the text of a path loses the boundary
where the code's text does.

`ClientSide` runs a tracker's pass over them. `rec` is the tracker's status in the API
server and `seen` the informer's copy of it, which `Sync` brings up to date;
`StartPass` takes the tracker from `seen` and keeps it in `pass.known`, where
`RecordFor` finds the records to carry forward (`tracker_controller.go:79`,
`344-351`). Then come `Read` and `Update` of the target for one contributor after the
other (refused when the target changed in between), `RecordOf` with `Capture` (prior
values, captured once), `Withdraw` and `RestoreOrDelete` for paths that are given up
and for a revert, `SetPaths` for the paths that are claimed. `WriteStatus` replaces
the list by what the pass computed, whatever the tracker lists by then: patchStatus
repeats a conflicting write, with the same records, on what the cache has meanwhile
(`tracker_controller.go:755-775`).
`LoseStatus` is a pass that dies, or whose status write fails for another reason or
conflicts until the retries are used up. The contributor controller's view
(`Settled`, `Go`) is the cache too. `missed` is a history variable: a pass that had
applied something was lost, or one began while `seen # rec`.
What a patch renders to is the constant `Rendered`, which `MCClientSide` computes
with `Render`; so `ClientSide` depends on paths only, and can be proved about.
`Trees` is what may become of the target; the laws of paths (`PathLaws`) are stated
over it and no action uses it. A user changes or deletes a contributor when its
spec shows as applied (`Settled`); section 5 says what happens otherwise.

### Admission

A request runs `Admitted` (Validate, then the access reviews of `ChecksFor`) and
`Recorded` (mutator). An `Update` replaces the object by the one that is sent: its spec
may be the old one, and its annotations may carry any identity, or none (`sent`), which
is what `ShouldRecord` looks at (`mutator.go:122`). The event of an update that leaves
the spec alone does not pass the predicate. `AddFinalizer` and `DropFinalizer` are
requests by the operator, which sends the annotations it has read. `Register` is the rest of a contributor's reconcile: `Verdict`
(reauthorize, with the TTL as the flag `recent`), `Targets` (resolveTargets,
resolveSelector). `InstallKind` teaches the RESTMapper a kind, `ChangeRights`
grants or revokes. `WrittenIn` is the namespace a write of a key reaches: the client
leaves it out for a cluster-scoped kind, whatever the key says. History variables are
`author` and `kept`: every update since the author's sent the recorded identity along.

## 3. Passing runs

| run | instance | states | checks |
|---|---|---|---|
| `Lifecycle` | two ResourcePatches, one creating and deleting the target; target absent or present; the caches of the tracker and of the creating contributor lag without limit; unlimited failures | 1.3M | `FreshCopiesAgree`, `CreatorKept`, `ImplementsSharedObject` |
| `Policies` | client-side creator, orphaning ResourcePatch, invalid ClusterResourcePatch, one out-of-band creation or deletion of the target; unlimited failures | 2.2M | `TypeOK`, `ReadyLeavesNothing`, `DeletedOnlyUnused` |
| `Handover` | a ResourcePatch that creates the target and a ClusterResourcePatch that forces promotion; unlimited failures | 2.6M | `FenceDurable`, `CreatorKept`, `RetiredOnlyAdopted` |
| `Progress` | work queues; a ResourcePatch creates the target and stays, one joins and leaves; a failure; somebody may delete the tracker | 0.30M | `ReleaseCompletes`, `Converges` |
| `PromotionProgress` | work queues; promotion of an existing target | 0.47M | `PromotionCompletes` |
| `Arbitration` | two contributors of different priority, two paths, Fail, Priority or (the higher one) Force; a foreign controller insists on one path; one changed spec or failed pass | 0.97M | `TypeOK`, `StatusIsTrue`, `Settles` |
| `Watches` | four trackers of two controllers on three kinds, room for one, one disabled; one failed registration or restart; one drift at a time, any number in all | 32,000 | `TypeOK`, `CapHolds`, `EnsureKeptItsWord`, `DriftRepaired` |
| `ClientSide` | two contributors, three patches each (merge, merge keys, JSON6902); three changes of spec, a foreign write, a lost status write, a pass that begins with an old tracker | 0.58M | `FieldsAsRecorded`, `Restored`, `OthersKept`, `PathsLawful` |
| `Admission` | a ResourcePatch with six specs, invalid ones among them, that may be older than the webhooks; a ClusterResourcePatch with three; two users; two requests with any identity or none in them, one change of rights | 81,000 | `RecordedIsAuthor`, `AlwaysRecheckable`, `Contained`, `AuthorMayWrite`, `VerdictFollowsRights`, `DeletionCompletes` |

What they say:

* `FreshCopiesAgree`: a pass whose Update would be accepted holds the stored
  status, and a cache that counts as current shows it. It is the reason the
  other status properties hold.
* `FenceDurable`: whatever a pass of the fenced tracker still writes, only the
  unfencing of finishPromotion removes the fence. The retry of patchStatus must
  mutate a re-read object; the mutant that re-sends the whole status clears it.
* `CreatorKept`: the recorded creator is neither replaced nor forgotten while
  the tracker lives, through conflicts, re-reads and adoption.
* `RetiredOnlyAdopted`: a fenced tracker with contributors on record goes only
  once adoption is flagged, wherever the promoting worker crashes.
* `ImplementsSharedObject`: the refinement above. On a target that was there
  before, it says among others that whoever asks, the object is not deleted.
* `ReadyLeavesNothing`, `DeletedOnlyUnused`: the two promises that survive
  out-of-band changes of the target, where the refinement does not apply. Ready is
  the condition because the finalizer protocol only covers a contributor whose
  tracker had listed it (section 5).
* `ReleaseCompletes`, `Converges`, `PromotionCompletes`: progress with only the
  events the predicates let through.
* `StatusIsTrue`: at rest a contributor called Applied has all its fields with
  its values, one called Superseded is outranked on a field, one called
  Conflicted is kept out by a manager it may not force, and nobody is missing.
* `Settles`: the operator comes to rest, however often the foreign controller
  writes its field back.
* `EnsureKeptItsWord`: "watching" means the *own* controller's registration;
  "refused" means nobody watches the kind.
* `DriftRepaired`: through the watch, or else through the timer.
* `FieldsAsRecorded`: whatever status writes are lost, or replace records they do
  not know of, a contributor's own value is never taken for the prior value; the
  worst is that a field goes.
* `Restored`: when no pass missed what an earlier one applied, the target ends up as
  it was, structure included. `OthersKept`: a racing write of somebody else is not
  lost, and nothing unclaimed is touched, also by a pass with an old tracker.
* `PathsLawful`: the target stays one of 192 trees, and over all of these Set puts
  its value where Get finds it, Delete leaves nothing there, neither disturbs
  another path, no parent made for a value stays behind without it, and a path
  stored as text is read back as itself (`PathLaws`).
* `RecordedIsAuthor`: the identity on record is the author's, as long as updates
  that leave the spec alone send the identity they found. That the condition is
  needed is `Believed` in section 4. `AlwaysRecheckable` needs none: whatever requests
  carry, a contributor that admission saw, or that is registered, has an identity on
  record.
* `Contained`: what a ResourcePatch is registered for is in its namespace once its
  kind is there to be written, also for specs that never passed admission. The run's
  late kind is namespaced; for a cluster-scoped one see `LateKind` in section 4.
* `AuthorMayWrite`: see section 1; a write is judged in the namespace it reaches.
* `VerdictFollowsRights`: the Authorized condition ends up true of the recorded
  identity. `DeletionCompletes`: the finalizer's removal is not refused although
  the author lost its rights.

Deadlock is checked in `Watches` and `ClientSide`; elsewhere the system may have
nothing left to do.

**Bounds.** Two contributors are what the protocols tell apart: one that leaves
and one that stays, one that creates and one that does not, one of each kind for
a promotion, one of higher and one of lower priority. Loops over contributors
are position-independent except for their order, which `Rank` fixes. One
out-of-band change puts the change in any window of any reconcile.
`MaxFailures` bounds failures only where a run asks what eventually happens.
`Handover`, `Policies` and the queue runs keep caches prompt to stay in reach;
in `Lifecycle` all but one contributor's lag freely, and the proofs cover lag for the
properties they are about. In `Watches`, room for one of two kinds is the cap
reached. In `ClientSide`, three changes let a contributor leave a patch, come back
and leave it again. In
`Admission`, two requests are a creation and a change or deletion, or two changes
of an older object; `sent` ranges over all users and none. In `ClientSide` one pass
with an old tracker may come at any point, before or after the lost one; the same
instance with two foreign writes and two lost status writes has about 1.6M states and
passes too.

**Fairness.**

* `WorkQueues`: weak fairness of event delivery (informers deliver), of every
  step of a reconcile that has begun (the code does not block between calls), of
  serving a queued tracker; strong fairness of serving a queued contributor,
  because the one worker of its kind is busy time and again while the queue is
  FIFO. After an abort the object is queued again, which is what a returned
  error does; a crash queues everything on restart, which would help more. The
  re-authorization is a requeue of a reconcile that runs to its end
  (`reauthorizeAfter`, ten minutes by default), and is needed: see `Stranded`
  below. The watch on target kinds and the informers' resync are left out, so
  that nothing depends on them.
* `Arbitration`: weak fairness of the pass's steps and of events. None of the
  foreign controller, users or failures.
* `TargetCache`: weak fairness of the steps of a pass and of the timer, strong
  fairness of obtaining the mutex (a Go mutex does not starve a waiter) and of
  being served from a queue while the worker is busy with others.
* `Admission`: weak fairness of a queued reconcile and of the TTL running out.

**Mutants.** Every property of a passing run has a mutant: an operator defined
next to the one it changes the way a plausible mistake would.

## 4. Where the code and what is said of it differ

Runs that end in a violation:

| run | property | what happens |
|---|---|---|
| `Undercount` | `DeletedOnlyUnused` | A pass of the SharedResource that began before the fence sees only its namespace and deletes the target the ClusterResourcePatch is applied to (`tracker_controller.go:388`; `DESIGN.md:605-607`). |
| `Flap` | `Settles` | Two contributors of equal priority (the default) that disagree under policy Priority force each other out for ever: only a strictly higher priority supersedes (`tracker_controller.go:1016`; `DESIGN.md:551`). |
| `StalePrior` | `AlwaysRestored` | A second pass begins before the cache has the first one's status; its record is fresh, it finds its own value and captures nothing, and its status write replaces the recorded prior. No write was lost and nobody else wrote; the revert deletes the field (`tracker_controller.go:344`; `:329-330`, `csa.go:212-213`). |

Other instances of the same specifications are not kept as runs; most show a variation
of a property the runs already check. To reproduce one, change
the cfg named first as stated ("a plain existing target": nobody creates or
deletes it, `Creators = Deleters = {}`, `Preexisting = {TRUE}`; "prompt": `Prompt`
holds every contributor and `"SR"`):

* `StalledPatch` (Handover on a plain existing target): `trk["SR"].exists /\
  trk["CSR"].exists => IsFenced(trk["SR"].st)` fails. A ResourcePatch finds no
  ClusterSharedResource and goes on to create a SharedResource after the
  promotion had nothing to fence (`contributor_controller.go:343`), so for a
  while two unfenced trackers own the target, against `DESIGN.md:355`.
  `PromotionProgress` shows that it heals.
* `TruncatedList` (Lifecycle, `Unrenderable = {r2}`, `Preexisting = {FALSE}`,
  prompt): `ReadyLeavesNothing` fails. One contribution that cannot be
  rendered makes the pass write an empty list (`tracker_controller.go:405`),
  after which another contributor that leaves is let go with its fields on the
  target, against the comment at `tracker_controller.go:785-787`.
* `ClaimedTarget` (Lifecycle with `r1` only, `Preexisting = {FALSE}`, prompt,
  `OutOfBand = {"createTarget"}`, `MaxOutOfBand = 1`): a target somebody creates between the existence check and
  the apply is recorded as created by the operator (`ssa.go:56-89`) and deleted
  later, against `DESIGN.md:598-600`.
* `RevertWedge` (Progress with `r1` only, which leaves, on a plain existing
  target, `BareObjectValid = FALSE`, `OutOfBand = {"deleteTarget"}`,
  `MaxFailures = 0`): `ReleaseCompletes`
  fails. Withdrawing from an absent target of a kind with required fields fails
  for ever (`ssa.go:180`).
* `Stranded` (Progress on a plain existing target, `OutOfBand = {}`,
  `MaxFailures = 0`, `Reauthorize = FALSE`):
  `Converges` fails. A ResourcePatch that registers with a tracker about to be
  deleted is in no list, so nothing wakes it (`tracker_controller.go:642`); with
  the timer on it recovers, which `Progress` checks.
* `DottedKey` (ClientSide with one contributor, `Patches <- DottedPatches`, all
  bounds 0): `Restored` fails. A key with a dot in it is written to the status as
  two segments and not found again when withdrawn (`fieldpath.go:59-81` against
  the comments at `fieldpath.go:58` and `:113`). `TextLaw` is what it breaks.
* `LostPrior` (StalePrior with `MaxForeign = 1`, `MaxStale = 0`): `AlwaysRestored`
  fails although every pass begins with the current tracker. A foreign write makes the
  second contributor's Update fail; the pass ends without a status and what the first
  one captured is lost; its next apply finds its own value, and its revert deletes a
  field that had a value before (`tracker_controller.go:486`; `csa.go:212-213`).
* `Believed` (Admission with `Contributors = {rp}`, `Predating = {}`,
  `MaxRightChanges = 0`): `NeverBelieved` fails in two requests. An update that leaves
  the spec alone and carries another identity in its annotations is stored as it is,
  and the re-check asks about that identity from then on (`mutator.go:122`), while
  `docs/security.md:116-117` says that the annotation "is **always overwritten with
  the authenticated identity**, so a principal a submitter writes into their own
  manifest is never believed".
* `LateKind` (Admission with `ClusterKinds = {"node", "widget"}`): `Contained` fails. A
  ResourcePatch for a kind the RESTMapper does not know is admitted and registered
  (`scope.go:278`); the kind is installed and is cluster-scoped; the tracker does not
  look at the scope again, and its writes reach an object outside every namespace,
  against `scope.go:20-22`: "a ResourcePatch can only ever touch objects in its own
  namespace. That is structural rather than a policy check". `AuthorMayWrite` fails
  too: admission asked about the namespace. And so does
  `DeletionCompletes`: the spec is invalid by then, and the removal of the finalizer is
  an UPDATE that is validated (`contributor_controller.go:197`).

## 5. Behaviours the models show that no run isolates

Core:

* From the fence on the namespaced tracker "writes nothing" (`promotion.go:44-45`),
  but a pass looks at the fence once, at its start (`tracker_controller.go:86-91`).
  `Undercount` is the harm this does.
* finishPromotion may lift the fence between steps 1 and 2 of promotion, which
  does not look at it again (`promotion.go:97`); the successor is then created
  beside an unfenced tracker.
* A creator that an in-flight pass records on the predecessor after the copy was
  read (`promotion.go:97-100`) is retired with it.
* A ResourcePatch deleted while its tracker retires asks the recorded tracker
  only, finds it gone, and drops its finalizer unreverted
  (`contributor_controller.go:175-188`).
* The recorded creator outlives the object: a target deleted and made again by
  another contributor is still attributed to the first
  (`tracker_controller.go:518`).
* Server-side Revert of an absent target creates an empty one (`ssa.go:164`).
* A tracker whose last contributor went before it was released rewrites phase
  Releasing for ever and is never deleted (`tracker_controller.go:648`).
* A contributor that never reported Ready may go and leave fields: the pass
  applied them and had not yet listed it.
* `DESIGN.md:677-678` counts on resync to repair what was missed; the predicates
  drop a kind's own resync (`helpers.go:124-189`). `docs/guides/troubleshooting.md:182` speaks
  of a requeue interval; a pass in which everything applied does not requeue.

Arbitration:

* A contributor that becomes superseded is skipped, not withdrawn: it keeps the
  fields it had, and a winner under policy Fail stays Conflicted with it. In a
  chain where each supersedes the next on a different path, a path of the last
  one may belong to nobody that is applied.
* A foreign manager that arrives between the rejected call and the forced one is
  forced out with the others (`ssa.go:127-133`).
* Under Fail the first to apply writes; "nobody writes"
  (`tracker_controller.go:978-979`) is not so.
* Policy Force against somebody who insists flaps; this is documented.

TargetCache:

* With `--reauthorize-after=0` a drifted target of a kind beyond the cap is not
  repaired until something else happens, although `tracker_controller.go:125-126`
  and `cmd/main.go:90-92` speak of a requeue interval. A re-authorization that is
  denied again writes nothing new and wakes no tracker.

ClientSide:

* How a pass gets to begin with an old tracker: the tracker's queue is fed by
  contributors and by the target's events too, so that a pass that wrote the target
  wakes the next one; the cached Get at `tracker_controller.go:79` has no floor.
  The core models this lag for its own properties; there only the list matters.
* `Sync` brings the newest version, and there is never one in between: a status write
  is accepted at the current version only, and the copy it changes is the cache's
  (`seen = rec` in `WriteStatus`).
* A pass takes contributors as they are when it begins, and users act between passes
  (`Settled`). A change or deletion of a settled contributor during a pass, or one the
  contributors' cache does not show yet, makes no difference: the rest of the pass
  works on what it listed, and the change may as well come after it.
* Beyond the captures that are lost in `StalePrior` and `LostPrior`: a patch that grows
  over a value that was there, after the contributor's one capture, deletes it when reverted. That is
  why the instance's patches only grow over absent fields.
* A contributor that is changed or deleted right after a pass whose status was
  lost leaves what that pass applied: the record does not own it. `Settled`
  excludes this.
* `csa.go:148-152` says that comparing values closes the gap "regardless of write
  ordering"; it does not when the contributor's value changed in between.
* A value that was there before and equals what the contributor writes is not a
  prior (`csa.go:145-154`): it is deleted when the contributor goes.
* Lists that become empty are not pruned (`fieldpath.go:390`): an element added to a
  list that was absent leaves an empty list behind. An addition at `-` is recorded
  as index 0.

Admission:

* An update without the identity that leaves the spec alone records its sender, who
  need not be the author. This keeps the re-check possible (`AlwaysRecheckable`), and
  asks it about somebody else.
* A lookup in the RESTMapper that fails is treated by the code like an unknown kind
  (`scope.go:278`); so is it in the model, where not knowing is the only failure.
* Nothing on the write path reads the Authorized condition, although
  `contributor_controller.go:481-483` speaks of the operator ceasing to write.
* A contributor that is retargeted is not withdrawn from its old target, although
  `sar.go:118-119` gives that as the reason for asking about it.
* An object older than the webhooks has the operator recorded with the update
  that adds its finalizer, which is the first update that finds no identity.
* A contributor whose selector matches more than `maxTargets` objects has no
  timer, so its Authorized condition stays as it was.
* A ClusterResourcePatch in Selector mode selects in all namespaces its namespace
  selector admits and does not look at `target.namespace`, which admission uses;
  the instance gives such specs no namespace.

## 6. Proofs

| theorem | statement | strengthening |
|---|---|---|
| `OperatorProofs!TypeCorrectness`, `OptimisticLocking` | `Spec => []TypeOK`, `Spec => []FreshCopiesAgree` | `TypeOK /\ FreshCopiesAgree /\ ReconcilesEquipped` |
| `OperatorProofs!FenceIsDurable`, `CreatorIsKept` | `Spec => FenceDurable`, `Spec => CreatorKept` | the same |
| `ReleaseProofs!DeletionIsSafe` | `NoPromotion, TrackersLeftAlone`: `Spec => DeletedOnlyUnused` | `ReleaseInv`: the above with `Solo`, `ContributorsInv`, `FieldInv` |
| `ReleaseProofs!ReadyLeavesNothingProved` | with `EverythingRenders, PathsAreKept` too: `Spec => []ReadyLeavesNothing` | `ReleaseInv /\ ReadyInv` |
| `SharedObjectProofs!OperatorImplementsSharedObject` | `NoPromotion, EverythingRenders, Quiet, DeletersApplyServerSide`: `Spec => ImplementsSharedObject` | `ShareInv`: `ReleaseInv`, `ReadyInv`, `MadeInv`, `ToldInvalid` |
| `SharedObjectProofs!QueuesImplementOperator` | `QueuedSpec => Spec` | none needed |
| `OperatorProofs!RetirementHasSeenAdoption` | `TrackersLeftAlone`: `Spec => RetiredHavingSeen` | `RetireInv`: the first row with `MayRetire` |
| `OperatorProofs!RetirementIsAdopted` | with `"SR" \in Prompt` too: `Spec => RetiredOnlyAdopted` | the same |
| `ArbitrationProofs!ArbitrationTypes` | `Spec => []TypeOK` | none needed |
| `ArbitrationProofs!StatusTruth` | `Spec => []StatusIsTrue` | `TypeOK /\ PassSound /\ RestSound` |
| `TargetCacheProofs!WatchTypes`, `CapIsKept`, `EnsureIsHonest` | `Spec => []TypeOK`, `Spec => []CapHolds`, `Spec => []EnsureKeptItsWord` | `TypeOK`, `Exclusive`, `Occupied`, `Checked`, `FullOnceRefused` with the two |
| `AdmissionProofs!IdentityIsKept`, `RecheckIsPossible` | `Spec => []RecordedIsAuthor`, `Spec => []AlwaysRecheckable` | `TypeOK` and `Good`: per contributor, what the record, the finalizer and the keys have to do with each other |
| `AdmissionProofs!ContainmentHolds` | `ClusterKindsKnown`: `Spec => []Contained` | the same |
| `AdmissionProofs!AuthorsMayWrite` | `SelectorsNameNoNamespace, ClusterKindsKnown`: `Spec => []AuthorMayWrite` | the above with `Granted` |
| `ClientSideProofs!OthersAreKept` | `PathLaws`: `Spec => []OthersKept` | `ShapeInv`: the shapes of objects, pass, records, the cache and the pass's snapshot, with it |
| `ClientSideProofs!FieldsAreAsRecorded`, `TargetIsRestored` | with `GrowsOverNothing, NothingEchoed` too: `Spec => []FieldsAsRecorded`, `Spec => []Restored` | `ShapeInv /\ ValueInv` |
| `ClientSideProofs!PathsStayLawful` | `TreesFit, PathsFit`: `Spec => []PathsLawful` | `ShapeInv`, and `PathsAreLawful`: the two give `PathLaws` |
| `FieldPathsProofs!SetThenGet`, `SetKeepsOthers` | what `SetIn` puts at a path is found there, and what other paths find stays | constant facts: inductions on the position in a path |
| `FieldPathsProofs!DeleteLeavesNothing`, `DeleteKeepsOthers` | `Delete` with its pruning leaves nothing at its path, and what other paths find stays | the same |
| `FieldPathsProofs!TextIsReadBack` | `Parse(String(p)) = p` | the same |

They hold for every set of contributors, trackers, kinds, paths, values, patches,
users and rights, every bound, and every environment the assumptions allow.

**Assumptions** are the named ASSUMEs of the modules. In the core: the two
contributor kinds are disjoint, policies are subsets of the contributors with
Delete implying Create (which validation enforces), and ranks are distinct
naturals. Elsewhere: the foreign manager is not a contributor and ranks differ;
trackers are finitely many; the operator is a user and None is not, every spec has
one of the two modes; a client-side patch claims paths that are in its object, and
nobody's paths are the same (`PatchesAssumption`; overlapping claims are the subject
of `Arbitration`).

**Hypotheses** are what a theorem takes beyond that, as its own ASSUME. None is
there for the prover's sake: without it the specification has a behaviour that
violates the property, found by TLC.

| hypothesis | says | without it |
|---|---|---|
| `NoPromotion` | no valid ClusterResourcePatch | run `Undercount` |
| `TrackersLeftAlone` | users do not delete trackers | the teardown of a deleted tracker withdraws from, and may delete, a target in use (`Policies` with `OutOfBand = {"deleteTracker"}`) |
| `EverythingRenders` | no contribution fails to render | `TruncatedList` in section 4 |
| `Quiet` | nobody else touches target or trackers | `ClaimedTarget` in section 4 |
| `PathsAreKept` | `Quiet`, or nobody applies client-side | Others delete and remake the target; a pass that read the tracker before the owned paths were recorded writes a waiting record without them (`tracker_controller.go:347`); the next one applies client-side and dies before its status write; the contributor is deleted and nothing says what to withdraw. It takes three changes by others and a tracker cache that lags (`Policies` with `r1` only and no creator, `Preexisting = {TRUE}`, `MaxOutOfBand = 3`, `Prompt = {r1}`) |
| `DeletersApplyServerSide` | `ClientSide \cap Deleters = {}` | The target is deleted with its creator and the status write is lost; a second creator makes it again; the released creator is still recorded and its object deleted again, now somebody else's (`tracker_controller.go:518`). With server-side apply the withdrawal leaves a shell, and the second creator does not create (`Lifecycle` with `Creators = {r1, r2}`, `ClientSide = {r1}`) |
| `"SR" \in Prompt` | the SharedResource's events reach its controller before its next pass | A pass drops the finalizer and dies before its Delete; the successor goes and the fence is lifted; a second ClusterResourcePatch fences again; a pass that reads "adopted, no finalizer" from its cache issues the Delete, which has no precondition (`promotion.go:335`) |
| `PathLaws` | the laws of paths over `Trees` (section 3), a statement about constants that the run `ClientSide` checks as part of `PathsLawful` | `DottedKey` in section 4 (`TextLaw`); a rule added to an object that has no `rules` leaves an empty list (`NoLitter`): `Restored` fails |
| `TreesFit` | `Trees` is closed under what the patches set and withdraw, a list in it has at most one element with a claimed key, and `NoLitter` | two rules with one host: Delete removes the first, `Get` finds the second, `DeleteLaw` fails |
| `PathsFit` | claimed paths are names, with a name or a merge key at the end; an element claimed by its key carries it; names have no dot; two paths part somewhere | `DottedKey` in section 4; a value put under `rules[host=a]` that changes `host` is not found there again (`SetLaw`) |
| `GrowsOverNothing` | where there was a value before, a contributor claims the path with all of its patches or with none | a patch that grows to a label that was there, after the one capture, deletes it when withdrawn: `FieldsAsRecorded` and `Restored` fail (`csa.go:133`) |
| `NothingEchoed` | no patch sets a path to the value it had before | that value is not captured and is deleted with the contributor: `FieldsAsRecorded` and `Restored` fail (`csa.go:145-154`) |
| `ClusterKindsKnown` | a cluster-scoped kind that a spec names is known to the RESTMapper from the start | `LateKind` in section 4; and admission asks for rights in the namespace where the write needs them cluster-wide: `AuthorMayWrite` fails in the same instance |
| `SelectorsNameNoNamespace` | a ClusterResourcePatch that selects names no `target.namespace` | admission asks about that namespace (`sar.go:227-230`), resolution ignores it (`contributor_controller.go:282-308`) |

`Lifecycle`, `Handover`, `Admission` and `ClientSide` satisfy the hypotheses of the theorems
about their properties, and `Policies` those of `DeletionIsSafe`. For
`ReadyLeavesNothing` the two complement each other: the run has a client-side
contributor and one change by others, the theorem either a quiet target or
server-side contributors only, with any number of changes.

**OperatorProofs.** `TypeOK` alone is not inductive: a pass takes `First` of its
`todo` set, which is a contributor only if the set is not empty
(`ReconcilesEquipped`). `FreshCopiesAgree` is what makes a status write harmless:
patchStatus writes the mutation of the pass's copy only while that copy is
current, and otherwise the mutation of a cached object that is. So the action
properties reduce to the mutations: each keeps the fence and a known creator
(`Keeps`), and what a write stores carries over what was stored (`Carries`).
For the end of a promotion, `MayRetire` follows the pass from the copy it read to its
Delete: a teardown is never of a fenced tracker, a finalizer is dropped only from a
settled one (adopted or listing nobody), and a settled one stays settled while others
write it. `RetiredHavingSeen` is what remains with unlimited lag. That a nonempty set
of contributors has one of lowest rank is derived from the well-ordering of the
naturals (`LeastNatural`).

**ReleaseProofs.** Neither of the two safety promises rests on a lock. Every
step of a pass is first brought into one of twelve shapes (`PassShape`: starts,
releases, deletes, applies, records, ...) and every other step into one
(`Aside`), so that later proofs do not look at the code's branches again.
`Solo` is the world without promotion: one tracker, unfenced, that deletes itself
only when it lists nobody. `ContributorsInv` relates a contributor, its cached
copies and the reconcile working on it: caches only move forward (`Later`).
`FieldInv` is the count: whoever has fields on the target has been seen by the
cache and is on the pass's list or has been seen leaving. A pass that starts
later has seen at least as much, so an empty list is not an undercount.

For the second promise: the finalizer goes when the *cached* tracker no longer lists the
contributor. Three views of one list have to agree about everybody who is bound
to it (`ViewsInv`): Ready implies listed in the cache, listed in the cache implies
listed in the API server, each unless withdrawn for good (`Clean`: no fields, not
in the running pass's list, known to leave). `ListInv` and `WithdrawnInv` say that
a pass takes nobody off the list it has not withdrawn; `AppliedInv` that with the
target left alone an applied record has its fields on it.

**SharedObjectProofs.** Init maps to Init, and each shape of a pass and each write
of a contributor to one action of `SharedObject` or a stutter. What the abstract
`Delete` needs beyond the above is provenance (`MadeInv`): the record of the
creator outlives the object in the tracker, the cache and the pass. It stays true
because an object deleted with its creator comes back, while that creator is
being released, only as the shell its own withdrawal leaves. The module also shows
that the specification with work queues implements the one without
(`QueuesImplementOperator`), so that what is proved of the core holds of the systems
whose progress the queue runs check.

**ArbitrationProofs.** `StatusIsTrue` speaks of rest only. `PassSound` says what a
pass that nothing has overtaken (no event due) has established: it works on what
the cache holds, and its judgement of everybody visited is true of the target as
it is now. The step that matters is an apply: either it changes the target, and
then an event is due and nothing is claimed, or it changes nothing, and then
everybody's judgement stands.

**TargetCacheProofs.** Whoever is between check and record holds the mutex
(`Exclusive`), so that the room it found is still there (`Checked`); a tracker that
was refused found the manager full, from where no new kind comes in
(`FullOnceRefused`). Cardinalities are handled with the finite-set theorems.

**AdmissionProofs.** The invariant is split contributor by contributor (`Good`);
each action changes one contributor (`OneChanges`), so one fact per action about
that contributor suffices. Who is registered has a finalizer, which only an update that went through the recorder
puts there, and the recorder never leaves a blank: that is `RecheckIsPossible`.
Containment needs both halves of the scope rules: the forced namespace
(ResolveTargetNamespace, the selector's namespace) and, because the client leaves the
namespace out for a kind that has none, the refusal of cluster-scoped kinds, which the
reconcile repeats before it registers. `AuthorMayWrite`
is inductive with the bounds on changes of rights (`Granted`); its proof shows, mode
by mode, for kinds of either scope and for namespaced kinds nobody knew at admission,
that what a spec
resolves to is among what targetChecks asked.

**ClientSideProofs.** Two inductions, over behaviours and over the paths of a
contribution. The second is not available as a rule, so each is an argument about a
least counterexample: the function a LET defines over `0..n` exists (`FoldExists`),
and what its steps preserve holds at its end (`FoldInvariant`). With them `WithdrawLaw`
and `SetPathsLaw` lift `PathLaws` from one path to the loops of `Revert` and `update`,
and `DesiredLaw` says, path by path, what an Update makes of the target. `ShapeInv`
then says what records look like and that the copy of a running pass agrees with the
target on every path nobody but the operator writes. `ValueInv` follows a
contributor's paths through its life: before it is listed a path has its old value or
the value of the one patch that was applied; while it is listed, the value of the patch
on record or of the patch that is to replace it; and its recorded priors are the
original values (`PriorsTrue`), none missing unless something was `missed`. Records
exist in four places, the status, the cache, the snapshot of the running pass and what
it is about to write; `AllPriorsTrue` says this of all of them, whichever is the older,
and `CacheOK` says how far the cache may lie behind the status. That a contributor's own value is never captured rests on `IsPrior`:
as long as there is no record, the patch that was applied is the one the spec still
holds.

**FieldPathsProofs.** The code recurses down a path; the proofs walk along it. A
`Get` is a sequence of nodes, each the child of the one before (`IsWalk`), a `SetIn`
a way down that makes what is missing and a way up that puts it in (`IsSetWalk`), a
`DeleteIn` the same with a cut at the end. One step of each is a lemma about maps and
lists (`GrownLaw`, `ReplacedLaw`, `ChildPut`, `PutApart`, `CutOwn`, `CutApart`:
the first element with a key is the same one after another has been put, moved or
removed), and `CarriedOn` carries a step along the positions of the path. So nothing
is said by induction on objects, and objects are of any depth and size. Pruning is a
third walk, upwards: a parent that goes is an empty map, so no other path finds
anything below it (`NothingBeyond`, `PruneStep`). `PathsAreLawful` puts the five
theorems together. What it still takes as `TreesFit`, the closure of `Trees` and
`NoLitter`, is a statement about a given set of trees: TLC evaluates both in every
state of the run `ClientSide`, as part of `PathLaws`.

**Only model-checked.** Liveness (fairness and ENABLED are beyond the prover):
`ReleaseCompletes`, `Converges`, `PromotionCompletes`, `Settles`, `DriftRepaired`,
`VerdictFollowsRights`, `DeletionCompletes`. All other properties of the passing runs
are stated by a theorem.

## 7. Not modelled

* A contributor registered with several trackers at once (Selector mode across
  trackers) in the core; `Admission` models what a selector resolves to.
  Cluster-scoped targets, which have one tracker kind and no promotion.
* Client-side bookkeeping through a promotion (`promotion.go:268`): it would need
  `ClientSide` and `Promotion` in one state space.
* A contributor whose applier or base cannot be resolved (an unreadable ServiceAccount
  or manifest, `tracker_controller.go:416-421` and `446-451`): it is listed as Conflicted
  and skipped, and the pass goes on.
* Client-side contributors whose paths overlap; JSON6902 remove and replace,
  numeric pointer tokens, hashes. Rendering beyond what paths need.
* TrackerName (a hash), the parsing of manager names out of error messages, the
  pluralisation of unknown kinds, groups and extra attributes of a user.
* Impersonation (chooses a client; a refused call is a failed call), indexes and
  start-up (configuration), generated code, metrics and logging.

## 8. Plan

1. `NoLitter` from conditions on patches and object (no lists to be created, no empty
   maps to begin with): it compares whole objects, and needs induction over them.
2. `DeletionIsSafe` with promotion, for targets nobody asks to delete through a
   ResourcePatch, which is where `Undercount` stops.
3. The hypotheses of `OperatorImplementsSharedObject` one by one: `Quiet` for the
   deletion of the target by others, with an abstract action for it.
