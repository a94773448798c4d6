# A verification development for cellule

This directory holds TLA+ models of the cellule runtime, the TLC configurations
that check them on small instances, and machine-checked TLAPS proofs about the
node log. Paths below are relative to `crates/cellule-runtime/src/` unless they
start with `crates/` or `docs/`. `PROJECT.json` lists the components, the runs,
the lines every definition stands for, the mutants, the hazards, the findings and
the theorems.

The repository has TLA+ models of its own under `crates/cellule-runtime/model/`.
Nothing here is derived from them: every definition here is translated from the
Rust source.

## 1. The system and its parts

A *Cell* is a small SQLite database with one owner at a time. A *node* is a
process with a *session*, and it owns Cells under a lease. A command runs as one
SQL transaction and its capture (the changed pages) becomes durable in one of
three ways: as a new root in the object store, as a record in the node log held
by follower nodes ("Fleet" durability), or as part of a bundle shared by Cells of
the node. The client is answered once one of them is proved.

| Part | State | Operations that change it | What makes it hard |
| --- | --- | --- | --- |
| node log (`node/log`, `node/log_shipper`, `follower`) | the gate's sequences and marks, rounds, member lanes, append grants | issue, batch, send, append, prune, seal, acknowledge, flush coverage, activate, rotate, close | members answer in any order, requests time out and land late, coverage overtakes pruning |
| log recovery (`node/log_recovery`, `recovery/manifest`, `node/directory`) | directory record, recovery claim, witnesses, overlays | claim, seal members, plan, attach, seal, retire, take over | competing workers, stale claims, members that do not answer, an old leader that still runs |
| control record (`control`, `publication`, `cell/actor/acquire*.rs`) | one record per Cell, owner history, acquisitions | create, claim, attach, materialize, activate, publish, renew, migrate, release, roll back | conditional updates whose reply is lost or that land late; crashes between two objects |
| Cell actor (`cell/actor`, `coordination`) | lifecycle, queue, publication line, publisher token, counters, tasks | about 40 message and completion handlers | tasks finish in any order, a fence may come inside any handler, shutdown and drains |
| effects (`primitives/effects`, `fleet/scheduler.rs`, `peer`) | outbox rows, inbox receipts, leases | emit, claim, deliver, resolve, settle, extend, maintenance Tick | duplicate and late delivery, three notions of time, supervisors that stop |
| queue, cron, workflow (`primitives`) | messages and dead letters, schedules, runs with timers and activities | send, claim, settle, dead-letter, redrive, purge; upsert, fire; start, signal, decide, complete | leases that end under their holder, retries, rows that expire between two Ticks |
| maintenance (`fleet/scheduler.rs`, `primitives/maintenance.rs`) | due rows per class | observe, Tick | one budget for all classes, a Cell that commits meanwhile |
| sessions (`node/lease.rs`, `node/directory`) | the session's record, the local guard | create, heartbeat, change the log, withdraw, fence | a monotonic deadline made from wall-clock times, heartbeats that land late |
| Cell catalog (`cell/catalog`) | a head and immutable pages per shard | provision, scan | splits and repacking under competing updates, a scan over many objects |
| fleet movement (`fleet/operations`, `crates/cellule-host/src/fleet`) | the journal's head, acceptances, the receiver's credit | plan, prepare, release, activate, cancel, retire, maintain | controllers that overtake each other, actions repeated or late, deadlines on three clocks |
| releases, backup, retention (`recovery`) | release record, pins, objects | prepare, activate, pin, mark, sweep, restore | deletion beside readers of the same objects, restores that stop half-way |
| bundles (`node/bundle`, `node/durability`) | catalog, bindings, pins, checkpoints | bind, stage, select, checkpoint, close, drain | one catalog shared by hot Cells, binding and closure in several writes over two objects |
| admission, placement (`fleet`) | resource ledger | reserve, release | limits shared by all Cells |
| object store (`crates/cellule-store`) | objects and tokens | update, exact put, multipart upload | ambiguous failures, retries |
| LTX engine (`crates/cellule-ltx`) | WAL, pages, positions | capture, replay, resume | byte formats and positions |
| host, HTTP, app, axum, types, cookbook | wiring | none of their own | none of their own |

How they interact: the actor executes a command, captures it, and hands the
capture to the node log and to its publisher. The publisher updates the control
record; its proof lets the gate advance the covered frontier in the directory and
followers prune. When a node dies, a recovery worker seals the lanes, attaches an
overlay to the control record of each Cell with an unpublished tail, and seals the
log; only then may another session take a Cell over. Effects run as ordinary
transactions of two Cells, with a supervisor between them. Queues, schedules and
workflows are tables of a Cell that emit effects and rely on a maintenance Tick,
which the scheduler sends when the Cell's next due time has come. Sessions own the
node logs; the catalog names the Cells that a backup pins and a collection marks;
controllers move Cells between nodes by actions that the nodes accept in the fleet
journal before they act.

The properties that matter are: nothing acknowledged is lost, by a fence, a
release, a takeover or a collection; one owner serves a Cell; every accepted
request is answered; drains and shutdowns end; an effect's handler commits once;
a lease is ended by its holder; what a Cell owes settles with no worker's help; a
moved Cell always has somewhere to go, and nothing stays charged for it.

## 2. Status

| Module | Part | Status |
| --- | --- | --- |
| `NodeLog` | log, followers, directory record, recovery | checked, safety proved |
| `CellAuthority` | control record, implementing `CellLedger` | checked |
| `CellActor` | actor and coordination kernel | checked |
| `Effects` | outbox, inbox and supervisor, implementing `EffectContract` | checked |
| `Queue` | messages, with dead letters over `EffectContract` | checked |
| `Cron`, `Workflow`, `Maintenance` | schedules; runs and activities; the Tick's budget | checked |
| `Catalog`, `Session`, `Retention`, `Restore` | catalog; session record and guard; release record, pins, collection; restore | checked |
| `Movement` | fleet journal, reconciler and executor for one Cell | checked |
| `Bundles` | bundle catalog of one boot, its publisher, bindings and drain | checked |

Candidates for further work: the routes of readers and followers and failed boots in
`Movement`, `Bundles` as the publisher that `CellActor` relies on, a proof that `CellAuthority` implements
`CellLedger`, and a proof of `HandledOnce` for any number of supervisors.

## 3. Modules

### NodeLog

One epoch of one session's log. Variables are grouped as in the code: the
durability gate (`gateVars`, `GateState`), the leader (lease guard, captures,
acknowledgements, roots), `ObjectCoverage` and activation, the shipper and its
member lanes, the lanes on the followers' disks, the directory record, the control
records as recovery sees them, and one recovery attempt per worker. A frame is its
sequence number; `cellOf` gives its Cell; a root is the last published sequence of
a Cell. Time is abstract: leases, directory records and recovery claims may be
found expired at any moment, so nothing depends on clocks agreeing.

Leader: `Issue`, `Batch`, `Send`, `RequestFails`, `CompleteRound`,
`StartActivation`, `PersistActivation`, `FinishActivation`, `Prove`,
`PublishRoot`, `Stage`, `StartFlush`, `AdvanceCoverage`, `ConfirmFlush`.
Follower: `Authorize`, `OpenGrant`, `AppendFrames`, `AppendBreaks` (an append that
fails part-way), and seal and retire of a lane. Closing: `BeginShutdown`,
`DrainShipper`, `BeginRotation`, `RetireMember`, `CloseLog`
(both `rotate_log` and `close_log`). Recovery: `Claim`, `ExpireClaim`,
`SealMember`, `SealUnanswered`, `CollectWitness`, `PlanRecovery`,
`AttachRecovery`, `RetryRecovery`, `SealRecovery`, retirement of the recovered log
and `Takeover`. The renewal of a claim is a stutter.

### CellAuthority and CellLedger

One control record and the sessions that compete for it. An update is split in
three: the proposal is checked and sent, it lands in the store or does not, and the
sender hears of it or does not; `LateUpdate` lets a request its sender gave up
on land later. The store compares tokens; here the token is the record itself, so
the case of equal contents with equal tokens is kept. A root is a sequence of
commits. `setup` fixes, per behaviour, which sessions run under a node lease guard
and the bounds. `CellLedger` is what a Cell's authority promises: one holder,
a ledger that only grows, and a change of hands only when the ledger holds all that
was acknowledged. `ImplementsLedger` is the refinement: the holder is the recorded
owner, the term its epoch, the ledger the root with the pinned overlay.
`Transition::Tombstone` and `activate_restored` have no production caller and are
left out.

### CellActor

One Cell of the actor loop with its coordination kernel. A handler is one action
and runs whole, with the scheduling (`Continue`) it ends in. A task that changes
the outside world has one step for that and one for its completion; any other task
is its completion. The lease may end between two checks of one handler. Simplifications:
an effect identity is its task; requests that are refused at once leave no trace;
`Resolve` is treated like a query; a submission to the node log that breaks leaves
nothing logged; the
Shutdown message and `start_shutdown_drain` are one step; the publication-bytes
mark is folded into the pending and debt limits; the reservation for a
materialization succeeds once nothing else runs; blob-role refusals and the
movement budget are omitted. The bundle publisher is an external step.

### Effects

The outbox of a source Cell, the inbox of a destination and the supervisors.
Each transaction reads a wall clock that may be up to `Skew` ahead of true time;
a Cell's logical time is the latest clock it committed under. The source's
claims, leases and expiry use its logical time; the destination accepts by the wall
clock and cleans its inbox by its logical time. `ClockAssumption` (`Skew <=
Retention`) is what makes `HandledOnce` true: a receipt is kept for seven days after
the effect expires, so clocks must agree to within a week. A claim's token is its attempt. The row
limit of a Tick and identity conflicts (an id fixes its operation here) are left
out; `effect_extend` is modelled although no supervisor calls it.

### EffectContract and Queue

`EffectContract` is what an effect promises the primitive that emits it: it is
emitted once, its handler commits at most one outcome, perhaps late, and its
source settles it for good, as delivered only after the handler committed, before
it removes the row. `Effects` implements it (`ImplementsContract`): a row that is
ready or leased is pending, and the verdict is what the handler committed. `Queue`
uses it for dead letters instead of the whole delivery protocol.

`Queue` is one shard. A producer has one message at a time (`message_id` is a hash
of the producer), a message that is sent or redriven begins a *life*, and a claim's
random token is its life and attempt. Actions: `QueueSend`, `QueueClaim`,
`QueueAck`, `QueueRetry`, `QueueExtend`, `QueuePause`, `QueuePurge`,
`QueueRedrive`, `QueueDueTick` (every queue class of `scheduler_tick_at`, in its
order, when `scheduler_next_due_with_schema` finds the Cell due), and what the
dead-letter queue and the effect do with a letter (`LetterLands`,
`LetterAcknowledged`, `LetterGivenUp`, `LetterboxForgets`). Batches, priorities and
delays are left out.

### Cron

The schedules of one Cell: `CronUpsert`, `CronPause`, `CronResume`, `CronDelete` and
`CronDueTick`, which fires at most `CronTickLimit` occurrences.
`fired` is the history of invocations; `anchor` remembers where a
generation began.

### Workflow

One workflow with its activity supervisors: `FlowStart`, `FlowRestart`, `FlowSignal`,
`FlowCancel`, `FlowPause`, `FlowResume`, the supervisor's `FlowClaim`,
`FlowValidate`, `Heartbeat`, `HandlerReturns`, `FlowComplete` and `WorkerStops`, and
`FlowTick`. The definition is arbitrary: each event may lead to any decision. The
Cell's limit on events is a bound of the model, so that a full history is reached.

### Maintenance

`MaintenanceBudget` alone: every class gets a share, then the classes that may be
filled get the rest, a class that fails rolls the whole Tick back, and a Tick whose
Cell committed after it was observed does nothing (`TickStale`). Classes are counts
of due rows; what an expiry class ends becomes work of a cleanup class.

### Catalog, Session, Retention, Restore

`Catalog`: provisioners read a head, insert an entry (with a split or
one repacking) and compare-and-set the head, with lost and late requests; a scan
captures all heads, reads pages and rechecks the heads. A head's revision stands
for its token. `Session`: one boot session's record, its heartbeats and withdrawal,
and the guard, against fencers whose clocks are ahead or behind by a constant. The
process has a monotonic clock (`time`) and a wall clock (`Wall`), which may be set
forward or back (`StepClock`). It reads the wall clock (`ReadClock`), and only in a
later step is what then remained of the lease added to the monotonic clock (`Install`,
`RenewGuard`). `guard.lag` remembers how far the two readings are apart, and
`GuardEndsFirst` bounds what it costs: after a fence the process admits work for less
than the fencer's lead plus that lag. `Retention`: operators move the
release record by compare-and-set, hosts publish roots, a backup is pinned, and a
collection marks and sweeps; objects are none, fresh or old, since a collection may
delete only what was old when it began. That the fleet has drained is the caller's
duty (`recovery/retention/mod.rs:133`) and a guard of `Mark`, which is therefore one
step; an incomplete drain is not explored. `Restore`: two restores of the same or of
different pins into one destination, each of which may stop and start over.

### Movement

The movement of one Cell, as the fleet journal, the reconciler and the action
executor of `crates/cellule-host` perform it. A controller's pass (`Claim`,
`BeginPhase`, `BeginCleanup`, `Inspect`, `Inspected`, `LookupAcceptance`,
`ResolveUnaccepted`, `Dispatch`, `Reply`, `Consume`, `Refused`, `Retire`) is split
wherever it reads or writes the journal or a node. A node first accepts an action
(`Accept`), performs it, and publishes its result (`PublishResult`, `Settle`); an
action delivered again only looks, or activates what is still unused. What is read
before an await and used after it are two steps: a preparation reads the authority
(`PrepareNew`) and then installs the credit (`PrepareInstalls`); a release looks at the
deadline (`ReleaseNew`) and takes effect however late (`ReleaseRuns`); an activation
observes the control (`ActivateChecks`), takes the credit (`ActivateTakes`), claims the
Cell (`ActivateAcquires`), and restores and serves it, or fails with the claim rolled
back or not (`ActivateServes`). Revisions are only ever compared
with the current one, so a snapshot or an action is fresh or stale. The deadline
passes on the clocks of controllers, source and receiver in any order, and a
controller may be replaced at any moment. Beside it, maintenance of an endpoint
advances (`SettleRoles`, `AdvanceMaintenance`; a cordon takes effect at the node with
its commit, which is the later of the two moments) and the Cell changes hands for other
reasons.

### Bundles

One boot's bundle catalog. The node record names one catalog (`catalog`: how far the
log is selected, and a row per Cell and ownership epoch), and every change stages a
successor of the catalog that was observed and replaces exactly that one
(`Selectable`). Binding, checkpoint, close and publication rounds exclude each other:
the trait `NodeBundlePublicationAuthority` asks this of its implementation, and the
fleet example does it with a mutex; `lane` is the operation that holds it. The lane may
fail at any point (`LaneFails`), and its last write may still be applied (`StrayLands`).

* *Binding* (`bind_bundle_cell`): `Reserve` and `Reserved` select a provisional row,
  `SendPin` and `PinLands` write the pin into the Cell's control record, however late,
  and `PinConfirmed` and `Opened` open the row.
* *Publication*: `StageFirst` appends captures and joins checkpoints, `StageSecond`
  stages a successor on the unselected proposal, and `SelectRound` selects one of
  them. `Materialize` and `RootLands` write a Cell's root; `StageCheckpoint`, or the
  next round, then releases the locators it covers.
* *Departure*: `StopCell`, `CloseCell`, `Frozen`, `CloseBegun`, `CloseFinished`
  (checkpoint, freeze the issued endpoint, close), then `Release` under
  `ensure_departure`; `Acquire` brings the Cell back in a later epoch.
* *End of the boot*: `Withdraw` of a drained session, or `FenceBoot`, `SealLanes`, and
  `BundleRecoveryDrain` (`OpenDrain`, `Attach`, `PublishRecovery`, `Complete`) before
  `SealBoot` and `Takeover`. Recovery lists only a boot whose log was activated
  (`ActivateLog`, after the first proof of the followers); without that a takeover
  needs no seal, but the Cell must still be allowed to depart.

A capture is one step of the log, since its frames are assigned, staged and selected
together, and its locator is its place in the log; a control record's renewals are left
out. Sealed lanes hold at least what the followers keep and what was selected, which is
what `NodeLog` shows of them. `SelectionReconstructs` says that the roots and locators of
the catalog rebuild every selected capture and that no close cuts an issued one off;
`DepartsWhole` that a Cell which left, by close, recovery or before its pin, took every
acknowledged capture along; `FencedBootDrains` that recovery of an active log is never
refused for ever and every Cell may leave a sealed boot, also one whose pin landed after
its row was closed.

## 4. Runs

| Run | Instance | Checks |
| --- | --- | --- |
| `nodelog_takeover` | 1 member, 2 Cells, 2 workers, 2 frames, in three scopes | `AckedSurvivesTakeover`, `LaneKeepsUncovered`, `OverlayContinuesRoot`, and the inductive invariant `IInv` of the proofs |
| `nodelog_live` | 2 members, 1 pipeline slot, 2 frames | `EveryCaptureSettles`: every captured frame is acknowledged unless the lease or the shipping ends |
| `authority_fleet` | 2 sessions, 2 commits, 1 lost reply, 5 or 6 revisions | `AckedIsHeld`, `LiveServerOwns`, `DepartureIsRetained`, and that the record implements `CellLedger` |
| `authority_migration` | 2 leased sessions, 2 schemas | **violation** of `RecoveredRootOpens` |
| `actor_safety` | four setups | `ReleasedHoldsAcked`, `NoneStranded`, `ServesAcked`, `PublicationsAccounted`, `MigrationAlone`, `EffectsBelong` |
| `actor_live` | four setups | `Answered`, `DrainsEnd` |
| `actor_probe` | one setup | **violation** of `Answered` |
| `primitives` | effects, a queue, cron, a workflow or a Tick | `HandledOnce`, `ImplementsContract`, `LeasesEndByHolder`, `OneValidClaim`, `MessageKeepsItsTies`, `WorkIsDue`, `OccurrencesAreExact`, `HistoryExplainsWork`, `BudgetIsFair` |
| `primitives_live` | the same with one supervisor and fairness | `WorkSettles` |
| `queue_redrive` | 1 producer, 1 consumer | **violation** of `DeliveredLetterArrives` |
| `fleet` | catalog, session, retention or restore | `ProvedIsFound`, `ReceiptIsOneInstant`, `GuardEndsFirst`, `LateHeartbeatIsHarmless`, `NamedIsStored`, `RestoredIsOnePin` |
| `movement` | 2 controllers, or 1 beside maintenance or other owners; or a bundle catalog with one Cell that comes back, or two Cells | `AttemptEndsWhole`, `EvidenceIsTrue`, `ClosingIsQuiet`, `ReleaseHasReceiver`, `SelectionReconstructs`, `DepartsWhole`, `FencedBootDrains` |

*Scopes and setups.* `MCNodeLogTakeover` explores three next-state relations in one
run, chosen in the initial state: all actions on one frame; roots, coverage, grants
and pruning of two frames of two Cells against one recovery; and two recovery
workers against each other and the old leader. Their union fires every action, and
the proofs cover all of `Next` at any size. Two frames of two Cells are the least
that let completions overtake each other, two workers the least that let a claim
be stolen, and one member is the worst case for redundancy; `nodelog_live` has two
members. `AnyFleet` has fleets where all sessions have a lease guard and fleets
where one renews the record itself and may migrate. Five revisions are enough to
create, publish, release or die, and be claimed and published again; one lost reply
is enough for a request to be adopted or to land late. The actor's setups are
foreground work over two activations, shared bundles at the debt limit, background
jobs with a migration, and transfer with maintenance release; for liveness they are
writes that wait for publications, a migration that does, a lease that ends, and
transfers and maintenance releases that a drain or a shutdown interrupts.

`MCPrimitives`, `MCFleet` and `MCMovement` explore modules that share no state, or
loads of one module, side by side: a variable fixed in the initial state (`scope`,
`load`) says which a behaviour is of.

* *Primitives.* Lifetimes are small numbers in the order the code has them in: a
  lease shorter than a lifetime, a margin before its end, and expiries within the
  horizon, so that every timer can run out while someone still acts on it. One
  effect with two supervisors and clocks 1 apart; a message with two lives and two
  consumers, or with a dead-letter queue and one; two schedules and two mutations;
  one workflow run with two supervisors whose leases differ, or two runs with one
  supervisor, with room for three events; three classes sharing a Tick of four
  items, so that shares and filling both matter.
* *Fleet.* Six Cells in two shards, pages of two, two pages per head, so that
  provisioners split, repack and fill a shard, or change two shards under a scan; one
  fencer whose clock is ahead, exact or behind by 1 with a lease of 2 (the longest
  admitted is 3), and one late write, or a fencer with the exact clock while the
  process's own is set twice to anything within 1; two operators, or one beside a host, a pin and a collection that may
  delete one object; two restores of three pins, two of which share a release and
  two of which differ in a root.
* *Movement.* Three epochs let the Cell be taken by the receiver after another
  owner came and went. Two controllers are the least that overtake each other.
* *Bundles.* Two captures are the least for which a second cohort, a checkpoint below the
  selection and a suffix known only to the followers occur. In one load a Cell is bound in
  two epochs and one timed-out catalog write may land late; in the other a Cell is bound
  beside one that is already open, so that rounds, closes and checkpoints of siblings meet.

*Symmetry* permutes members, Cells, workers, sessions and controllers in safety runs of
`NodeLog`, `CellAuthority` and `Movement` only; no definition tells them apart.

*Deadlock* is not checked: the bounds on frames, revisions, commits and time, and
the end of a lease or a shutdown, are states where the system stops.

*Fairness.* `nodelog_live`: weak fairness for the leader's own tasks and for the
timeout of a request; none for followers, which may never answer; the write that marks
the log active succeeds there (its failures are explored in `nodelog_takeover`). `actor_live`:
weak fairness for task completions and the loop, which Tokio provides, and for the
external bundle selection; none for clients, control messages, or the end of the
lease. Its setups have no probe that coincides with a fence, since `actor_probe`
shows that such a command is not answered. `primitives_live` and `queue_redrive`:
time passes and the scheduler runs the Ticks that are due, which its loop does as
long as the node runs; supervisors, consumers, network and destination may stop for
ever. `MaintenanceDrains`, a part of `WorkSettles`, also supposes that from some
point on no class fails.

*Conjunctions.* `WorkSettles`, `WorkIsDue` and `LeasesEndByHolder` each state one
idea for several tables, and one invariant of each module also carries its type
invariant (`AckedIsHeld`, `PublicationsAccounted`, `HandledOnce`,
`OneValidClaim`, `HistoryExplainsWork`, `NamedIsStored`, `EvidenceIsTrue`).

*Mutants.* Each property of a passing run has a definition with a plausible bug
(marked `Mutant:` in its comment) under which TLC finds the property violated.

## 5. Proofs

The NodeLog theorems hold for all finite or infinite sets of members, Cells and
workers and all values of the bounds that satisfy the three `ASSUME`s of
`NodeLog`: members and Cells are not empty, the bounds are naturals and the batch,
pipeline and grant windows are positive.

| Theorem | States |
| --- | --- |
| `TypeCorrect` (`NodeLogTypes`) | `Spec => []TypeOK` |
| `InvCorrect` (`NodeLogSafety`) | `Spec => []IInv` |
| `TakeoverSafe` | `Spec => []AckedSurvivesTakeover` |
| `FrontierSafe`, `LanesSafe`, `OverlaysSafe`, `ActivationSafe` | `[]` of `FrontierIsPublished`, `LaneKeepsUncovered`, `OverlayContinuesRoot`, `FleetNeedsActive` |

`AckedSurvivesTakeover` is far from inductive: it speaks of the last step of a
recovery, and its reason lies in what the shipper, the lanes and the directory did
long before. The invariant `IInv` has three layers above the types, each proved
from the ones below it.

1. *Issued before used* (`IssuedInv`, module `NodeLogIssued`). Tickets, rounds,
   requests, lane records and marks refer to sequences the gate issued, and a
   member's mark never passes what it was sent.
2. *Published before covered* (`CoveredInv`, modules `NodeLogCovered` and
   `NodeLogHeld`). The gate's and the directory's frontiers are under published
   roots, append permits carry frontiers that the directory had, so a lane prunes
   only published frames, and an acknowledged frame is published or in the lane of
   every member that counts.
3. *Sealed before recovered* (`RecoveryInv`, modules `NodeLogRecovery` and
   `NodeLogSafety`). A sealed lane does not change, so a receipt stays true; a
   witness reaches every acknowledged frame; a plan names the tail of every Cell
   that needs one; and an overlay continues its Cell's root. When the log is sealed
   these give `AckedSurvivesTakeover`.

`NodeLogLeaderTypes` and `NodeLogTypes` prove type correctness, split by actor. Each
layer has one lemma per action, and the temporal theorems combine them. `IInv` was
checked by TLC (`nodelog_takeover`) before it was proved.

The theorems about `IInv`, `AckedSurvivesTakeover`, `LaneKeepsUncovered` and
`OverlayContinuesRoot` state properties that `nodelog_takeover` checks; `TypeOK`,
`FrontierIsPublished` and `FleetNeedsActive` are conjuncts of `IInv`.

*Only model-checked:* everything about the other modules, both refinements
(`ImplementsLedger`, `ImplementsContract`) and all liveness. TLAPS cannot reason here about fairness or `ENABLED`, and facts
about what recursive definitions compute for every input need an induction its
backends do not offer.

## 6. Findings

* `authority_migration`: a migration that reached only the node log is recovered
  under the schema of the old record (`control/mod.rs:411`), and the database in
  that root has the new one, so later activations refuse it.
* `actor_probe`: a command returned to the queue by its probe after the Cell was
  fenced is not answered until the lease ends (`cell/actor/tasks/work.rs:50`).
* `queue_redrive`: the second dead letter of a message carries the producer of the
  first and another digest, so the dead-letter queue refuses it; the source counts
  the refusal as a delivery (`primitives/queue/mod.rs:925`).

A disagreement on which the code is right, so that the run passes:

* `actor_safety`, `EffectsBelong`: no Cell is removed while an effect of it runs.
  Every deactivation waits for `can_deactivate` (`coordination/mod.rs:338`), as
  `docs/canonical-ltx-scaling.md:216` and the test `coordination/tests/effects.rs:53`
  say. Comments at `cell/actor/tasks/work.rs:25`, `:156`, `:198` and
  `cell/actor/tasks/publication.rs:134` expect the removal to come first ("Publication
  failure may fence and remove the Cell before its proof waiter completes"); the arms
  they explain are never reached.

Observations met while modelling that no run is about:

* *Node log.* An attempt that saw only the member with the shorter tail pins that
  tail, and the next claimant, which rebuilds a longer one, is refused on every retry
  (`recovery/manifest/reconcile.rs:43`). `retire_recovered_log` reads no control
  record, so a log may be Retired while overlays are not consumed
  (`node/directory/recovered/mod.rs:113`); the overlays are not lost.
* *Actor.* A command that commits to the node log while its Cell is fenced by
  another task is not counted, and the owner record is released
  (`cell/actor/tasks/work.rs:73`); nothing acknowledged is lost. A draining Cell whose
  only task is the bundle waiter, fenced by the end of its lease, is not closed
  (`cell/actor/task.rs:70`).
* *Effects.* The comments on `EffectState` describe Delivered and Failed as the
  destination's verdict; the code acknowledges a rejected outcome as Delivered, and
  sets Failed when attempts or time run out even if the handler committed. A source
  clock that is ahead makes a fresh effect undeliverable until the difference has
  passed (`peer/validation.rs:412`).
* *Queue.* After a redrive the old deduplication row, past its retention, keeps the
  Cell due. A purge deletes a dead message whose letter is pending.
* *Cron.* A schedule deleted and created again restarts its generation at 1, and
  its pending occurrences are not removed.
* *Workflow.* A run of a Cell whose history is full can neither go on nor be
  cancelled. A paused run with due work keeps the Cell due.
* *Maintenance.* One class that keeps failing rolls back every Tick of its Cell; a
  Cell that commits all the time may make every Tick stale.
* *Session.* A fencer whose clock is ahead may fence before the guard has closed, and
  the local horizon of an append grant may pass the advertisement's. `now_ms` and
  `Instant::now` are read one after the other (`node/lease.rs:41`, `:53`): a process
  that is paused between them, or whose wall clock was set back, admits work past its
  published expiry by that much, although
  `crates/cellule-runtime/docs/failover-and-followers.md:641` says a session "`live` after
  published expiry" may not. `GuardEndsFirst` holds because its margin contains it.
* *Bundles.* A boot fenced before its log was activated is not a candidate for recovery
  (`node/directory/mod.rs:384`) and needs none for a takeover; "each live successor can
  acquire its own Cell" (`node/directory/recovery.rs:213`). `ensure_departure` refuses
  that for a Cell whose row is still open (`node/bundle/store.rs:282`), and nothing
  closes the row.
* *Restore.* An empty shard is only checked, so a later restore of another pin of the
  same release can add Cells; controls of an interrupted restore of another pin stay.
* *Movement.* A lost answer to the first acceptance of a preparation or a release
  leaves it open with nothing performed, and replays only look, so that attempt does
  not settle within the boot. A failed activation keeps its credit charged until the
  receiver's boot ends. A lost activation is sent again only after the reservation
  expired. The reconciler never emits `OutcomeUnknown` or `BeginRecover`. When the
  restore of a claimed Cell fails and so does the rollback, the control names a receiver
  that does not serve.

## 7. What is not modelled

Parts with status `not_modelled` in `PROJECT.json`, with reasons. Byte formats,
encodings, signatures, HTTP, metrics and the layout of objects are outside all
modules: a record decodes or its operation fails. SQLite transactions and single
object-store operations are atomic.

* *Fenced release*: the release of a fenced Cell depends on the cuts the actor has
  counted (`cell/actor/requests.rs:1033`); `CellAuthority!MayRelease` lets it go once
  nothing acknowledged is unpublished, which allows more.
* *Bundles*: the publication of a bound Cell's root outside the shared lane
  (`cell/actor/requests.rs:583-740`), commits that leave numbers out (the gate admits them
  for Cells that are not bound, `node/log/mod.rs:569`),
  the shards and history of the index, the verification of origins and roots,
  the limits on locators and bytes, the publisher's memory admission, and the renewal of
  the records. `CellActor` takes a selection as one external step, and no run joins the two.
* *Workflow*: `WorkSettles` excepts a Cell whose history is full, where the code cannot
  go on.
* *Movement*: routes of readers and followers, budgets, enrolments, failed boots.
* *Placement, admission, capacity reports, due index, registry*: rankings, counters
  and lookups that the models take as a choice, as held, or as refused.
* *LTX and the VFS*: byte-level algorithms; positions are numbers here.
* *Key-value, SQL and blob primitives*: operations inside one transaction. The
  two-phase blob upload is the one protocol among them.
* *HTTP, macros, front ends, examples, qualification harness*: no state of their own.
