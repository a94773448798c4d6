----------------------------- MODULE CellActor -----------------------------
(***************************************************************************)
(* The actor of one resident Cell: the coordination kernel (lifecycle,     *)
(* busy and renewing flags, publication count, pending effects) and the    *)
(* adapter around it (request queue, publication line, publisher token,    *)
(* root debt, transfer preflights, drain and shutdown).                    *)
(*                                                                         *)
(* The actor is one loop: a message or a finished task is handled whole    *)
(* before the next one.  Tasks run beside it and finish in any order.  A   *)
(* task that changes the world (SQL, root update) has a step for that and  *)
(* one for the handler of its result; any other task is its handler.  The  *)
(* node lease may run out at any moment, also between two checks of one    *)
(* handler.                                                                *)
(*                                                                         *)
(* Commits are numbered in the order of their execution.  A pending effect *)
(* is its task: the identity check of a completion fails only for a task   *)
(* of an earlier activation, and those carry their generation.             *)
(***************************************************************************)
EXTENDS Integers, SequencesExt, FiniteSetsExt

CONSTANTS
    Commands,       \* requests to run one mutation each
    LeaseCommands,  \* completions of leased work: admitted during maintenance
    Deliveries,     \* effect deliveries: neither grouped nor probed
    Queries,        \* reads
    Migrations,     \* requests to migrate the schema
    Setups          \* the setups explored, each fixed for a whole behaviour:
                    \*   requests, events  the requests, background jobs and control messages
                    \*   modes             durability of a commit: "object", "logged", "bundled"
                    \*   commits, gens     bound: SQL commits and activations
                    \*   pending           MAX_PENDING_PUBLICATIONS
                    \*   debt              CHECKPOINT_COMMANDS: commits of one root debt
                    \*   group             MAX_NATIVE_GROUP

VARIABLES
    actor,    \* the actor: its ActiveCell, its tasks and the replies it sent
    lease,    \* may the process still prove its node lease?
    worker,   \* is the Cell's SQL worker fenced?
    shut,     \* runtime shutdown: "no", "draining", "done" or "stuck"
    owner,    \* the authority record: "owned" by this session, or "released"
    root,     \* commits the published root holds
    sql,      \* commits the local database holds
    logged,   \* commits in the node log
    bundled,  \* those captured for shared bundle publication
    selected, \* those a published bundle selected
    acked,    \* commits acknowledged to their clients
    made      \* bound: number of commits so far

database == <<sql, logged, bundled, made>>
world == <<owner, root, database, selected, acked>>
vars == <<actor, lease, worker, shut, world>>

Mutations == Commands \cup LeaseCommands
Writes == Mutations \cup Deliveries
Requests == Writes \cup Queries \cup Migrations

ASSUME SetupsAssumption ==
    Setups \subseteq [requests : SUBSET Requests, events : SUBSET STRING,
                      modes : SUBSET {"object", "logged", "bundled"}, commits : Nat, gens : Nat,
                      pending : Nat \ {0}, debt : Nat \ {0}, group : Nat \ {0}]

Commits == 1 .. Max({s.commits : s \in Setups})
MaxGen == Max({s.gens : s \in Setups})

Holders == {"migrate", "admit", "publish", "materialize", "renew", "compact"}
Inventories == {"refresh", "preflight", "inspect"}
EffectKinds == Holders \cup Inventories \cup {"work", "probe", "query", "proof", "select", "hydrate"}
Kinds == EffectKinds \cup {"activate", "ready", "admitCompact", "release", "discard"}

\* A spawned task: the requests it answers, the commits it covers, its progress.
Task(kind, gen, reqs, cuts, out) ==
    [kind |-> kind, gen |-> gen, reqs |-> reqs, cuts |-> cuts, out |-> out]

\* ActiveCell with its CoordinationState, before an activation fills it in.
Vacant == [active |-> FALSE, life |-> "Serving", busy |-> FALSE, renewing |-> FALSE, pubs |-> 0,
           residency |-> "Resident", stopping |-> FALSE, preparing |-> FALSE,
           quiescing |-> FALSE, home |-> FALSE, queue |-> <<>>, probed |-> FALSE,
           line |-> <<>>, selecting |-> FALSE, waiting |-> FALSE, debt |-> {}, mat |-> {},
           unpub |-> 0, known |-> FALSE, refreshing |-> FALSE, compacting |-> "none",
           transfer |-> "none", inspecting |-> FALSE, drain |-> FALSE]

Init ==
    /\ \E s \in Setups :
       actor = [setup |-> s, gen |-> 0, transit |-> FALSE, tasks |-> {}, cell |-> Vacant,
                reply |-> [r \in Requests |-> "new"], object |-> [c \in Commits |-> "none"]]
    /\ lease = TRUE /\ worker = "open" /\ shut = "no"
    /\ owner = "released" /\ root = {} /\ sql = {}
    /\ logged = {} /\ bundled = {} /\ selected = {} /\ acked = {} /\ made = 0

-----------------------------------------------------------------------------
(* Predicates of the kernel and of the adapter. *)

Effects(a) == {t \in a.tasks : t.kind \in EffectKinds}
IsFenced(a) == a.cell.life = "Fenced"
\* Mutant: a drain that could not close at once is forgotten.
IsDrainingNow(a) == a.cell.stopping \/ a.cell.life \in {"Migrating", "Shutdown"}
IsDraining(a) == a.cell.stopping \/ a.cell.life \in {"Draining", "Migrating", "Shutdown"}
Draining(a) == a.cell.drain \/ a.cell.transfer # "none" \/ IsDraining(a) \/ a.cell.preparing

\* Mutant: a Cell may close over a running hydration.
CanDeactivateEarly(a) ==
    ~a.cell.busy /\ ~a.cell.renewing /\ a.cell.pubs = 0 /\ \A t \in Effects(a) : t.kind = "hydrate"
CanDeactivate(a) ==
    ~a.cell.busy /\ ~a.cell.renewing /\ a.cell.pubs = 0 /\ Effects(a) = {}
ReadyToDeactivate(a) == a.cell.queue = <<>> /\ a.cell.home /\ CanDeactivate(a)

\* Admission of a request by the kernel and, for work, by the transfer check.
\* During a migration only its early reply hands out the matching capability.
Admits(a, r) ==
    /\ a.cell.active /\ ~IsFenced(a) /\ ~a.cell.preparing
    /\ a.cell.quiescing => r \in LeaseCommands
    /\ r \notin Migrations => a.cell.transfer # "idle"
    /\ \/ ~IsDraining(a)
       \/ /\ a.cell.life = "Migrating" /\ ~a.cell.stopping /\ r \notin Migrations
          /\ \E t \in a.tasks : t.kind = "migrate" /\ \A m \in t.reqs : a.reply[m] = "done"

\* The front command waits: too many publications of this Cell are pending, or too
\* many commits wait for their root.
Blocked(a) ==
    /\ Head(a.cell.queue) \in Writes
    /\ a.cell.pubs >= a.setup.pending \/ Cardinality(a.cell.debt) >= a.setup.debt
\* It is probed once for the result of an earlier execution.
Probes(a) == Blocked(a) /\ ~a.cell.probed /\ Head(a.cell.queue) \in Mutations

\* Schedule decides StartQueuedWork.
MayStart(a) ==
    /\ ~IsFenced(a) /\ ~a.cell.busy /\ ~a.cell.renewing
    /\ \A t \in a.tasks : t.kind \notin Inventories
    /\ a.cell.queue # <<>> /\ (Blocked(a) => Probes(a))

-----------------------------------------------------------------------------
(* Pieces of a handler, as functions of the actor. *)

Spawn(a, kind, reqs, cuts) ==
    [a EXCEPT !.tasks = @ \cup {Task(kind, a.gen, reqs, cuts, "run")}]
Finish(a, t) == [a EXCEPT !.tasks = @ \ {t}]
Reply(a, reqs, what) ==
    [a EXCEPT !.reply = [r \in Requests |-> IF r \in reqs /\ @[r] = "wait" THEN what ELSE @[r]]]
Proofs(a, cuts, what) ==
    [a EXCEPT !.object = [c \in Commits |-> IF c \in cuts /\ @[c] = "none" THEN what ELSE @[c]]]
SaturatingSub(x, n) == IF x > n THEN x - n ELSE 0
FinishPublications(a, n) == [a EXCEPT !.cell.pubs = SaturatingSub(@, n)]
CancelCompaction(a) ==
    [a EXCEPT !.cell.compacting = IF @ = "pending" THEN "cancelled" ELSE @]

\* Mutant: the queue is dropped without answers.
FenceActiveSilently(a) ==
    [FinishPublications(Proofs(CancelCompaction(a), Range(a.cell.line), "err"),
                        Len(a.cell.line) + (IF a.cell.debt # {} THEN 1 ELSE 0)) EXCEPT
        !.cell.life = "Fenced", !.cell.busy = FALSE, !.cell.renewing = FALSE,
        !.cell.preparing = FALSE, !.cell.waiting = FALSE, !.cell.transfer = "none",
        !.cell.inspecting = FALSE, !.cell.refreshing = FALSE, !.cell.debt = {},
        !.cell.line = <<>>, !.cell.queue = <<>>]
\* fence_active: nothing queued survives, running tasks do.
FenceActive(a) ==
    LET refused == Reply(Proofs(CancelCompaction(a), Range(a.cell.line), "err"),
                         Range(a.cell.queue), "failed")
        owed == Len(a.cell.line) + (IF a.cell.debt # {} THEN 1 ELSE 0)
    IN  [FinishPublications(refused, owed) EXCEPT
            !.cell.life = "Fenced", !.cell.busy = FALSE, !.cell.renewing = FALSE,
            !.cell.preparing = FALSE, !.cell.waiting = FALSE, !.cell.transfer = "none",
            !.cell.inspecting = FALSE, !.cell.refreshing = FALSE, !.cell.debt = {}, !.cell.line = <<>>,
            !.cell.queue = <<>>]

\* finish_work: the foreground slot is free; a fence found now or before is applied.
FinishWork(a, fenced) ==
    LET b == [a EXCEPT !.cell.busy = FALSE]
    IN  IF fenced \/ IsFenced(b) THEN FenceActive(b) ELSE b

FinishMigration(a, fenced) ==
    LET b == FinishWork(a, fenced)
    IN  IF b.cell.life # "Migrating" THEN b
        ELSE [b EXCEPT !.cell.life = IF b.cell.stopping THEN "Shutdown" ELSE "Serving"]

\* start_selection: retire the selected prefix of the line, or wait for its head.
StartSelection(a) ==
    LET ready == {i \in DOMAIN a.cell.line : \A j \in 1 .. i : a.cell.line[j] \in selected}
    IN  IF ready = {}
        THEN IF a.cell.waiting \/ IsFenced(a) THEN a
             ELSE [Spawn(a, "ready", {}, {Head(a.cell.line)}) EXCEPT !.cell.waiting = TRUE]
        ELSE IF ~a.cell.home /\ a.cell.mat = {} THEN a
        ELSE [Spawn(a, "select", {}, {a.cell.line[i] : i \in ready}) EXCEPT
                !.cell.selecting = TRUE,
                !.cell.line = SubSeq(@, Cardinality(ready) + 1, Len(@))]

\* start_publication: selection for a bundled line, otherwise wait for admission.
StartPublication(a) ==
    IF a.cell.line = <<>> \/ a.cell.selecting THEN a
    ELSE IF Range(a.cell.line) \subseteq bundled THEN StartSelection(a)
    ELSE IF ~a.cell.home \/ a.cell.debt # {} THEN a
    ELSE [Spawn(a, "admit", {}, {}) EXCEPT !.cell.home = FALSE]

\* start_admitted_publication: several commits share a root only if all are logged.
StartAdmitted(a) ==
    LET line == a.cell.line
        n == IF Range(line) \subseteq logged THEN Len(line) ELSE 1
    IN  IF line = <<>> THEN [a EXCEPT !.cell.home = TRUE]
        ELSE [Spawn(a, "publish", {}, Range(SubSeq(line, 1, n))) EXCEPT
                !.cell.line = SubSeq(line, n + 1, Len(line))]

\* A run of commands at the front of the queue executes as one group.
Group(queue, limit) ==
    LET runs == {n \in 1 .. Len(queue) : n <= limit /\ \A i \in 1 .. n : queue[i] \in Mutations}
    IN  IF runs = {} THEN 1 ELSE Max(runs)

\* Mutant: a migration does not wait for the publications before it.
StartWorkAtOnce(a) ==
    LET r == Head(a.cell.queue)
        b == CancelCompaction(a)
        Begin(kind, n) ==
            [Spawn(b, kind, Range(SubSeq(a.cell.queue, 1, n)), {}) EXCEPT
                !.cell.busy = TRUE, !.cell.queue = SubSeq(@, n + 1, Len(@))]
    IN  CASE r \in Queries -> Begin("query", 1)
          [] r \in Migrations /\ ~a.cell.home -> b
          [] r \in Migrations -> [Begin("migrate", 1) EXCEPT !.cell.home = FALSE]
          [] Probes(a) -> Begin("probe", 1)
          [] OTHER -> [Begin("work", Group(a.cell.queue, a.setup.group)) EXCEPT !.cell.probed = FALSE]
\* start_next after StartQueuedWork.  A migration waits for every publication.
StartWork(a) ==
    LET r == Head(a.cell.queue)
        b == CancelCompaction(a)
        Begin(kind, n) ==
            [Spawn(b, kind, Range(SubSeq(a.cell.queue, 1, n)), {}) EXCEPT
                !.cell.busy = TRUE, !.cell.queue = SubSeq(@, n + 1, Len(@)),
                !.cell.known = @ /\ kind \in {"query", "probe"}]
    IN  CASE r \in Queries -> Begin("query", 1)
          [] r \in Migrations /\ (a.cell.pubs # 0 \/ ~a.cell.home) -> [b EXCEPT !.cell.known = FALSE]
          [] r \in Migrations -> [Begin("migrate", 1) EXCEPT !.cell.home = FALSE]
          [] Probes(a) -> Begin("probe", 1)
          [] OTHER -> [Begin("work", Group(a.cell.queue, a.setup.group)) EXCEPT !.cell.probed = FALSE]

\* The kernel's Schedule on a dead lease.
ScheduleDead(a) ==
    [a EXCEPT !.cell.life = "Fenced", !.cell.busy = FALSE, !.cell.renewing = FALSE]

StartNext(a, live) ==
    IF ~live THEN LET b == ScheduleDead(a) IN IF ReadyToDeactivate(b) THEN b ELSE FenceActive(b)
    ELSE IF (IsFenced(a) \/ IsDraining(a)) /\ ReadyToDeactivate(a) THEN a
    ELSE IF MayStart(a) THEN StartWork(a) ELSE a

\* Mutant: the owner is released although logged commits are unpublished.
DeactivateReleasing(a) ==
    [Spawn(a, IF IsFenced(a) THEN "discard" ELSE "release", {}, {}) EXCEPT
        !.transit = TRUE, !.cell = Vacant]
\* start_deactivate and start_fenced_deactivate.  A fenced Cell with unpublished
\* logged commits keeps its owner: cuts is not empty then.
Deactivate(a) ==
    [Spawn(a, IF IsFenced(a) THEN "discard" ELSE "release", {},
           IF IsFenced(a) /\ a.cell.unpub # 0 THEN Commits ELSE {}) EXCEPT
        !.transit = TRUE, !.cell = Vacant]

\* start_transfer_inspection of an idle transfer.
StartPreflight(a, live) ==
    IF ~live THEN FenceActive(a)
    ELSE [Spawn(a, "preflight", {}, {}) EXCEPT !.cell.refreshing = TRUE]

\* Mutant: a finished task does not start the next request.
ContinueIdle(a, live) ==
    IF ~a.cell.active \/ a.cell.transfer # "none" THEN a
    ELSE IF ~live THEN FenceActive(a)
    ELSE IF (IsFenced(a) \/ IsDraining(a)) /\ ReadyToDeactivate(a) THEN Deactivate(a) ELSE a
\* continue_cell.  A maintenance inspection starts from the loop (Drive).
Continue(a, live) ==
    IF ~a.cell.active THEN a
    ELSE IF a.cell.transfer # "none"
    THEN IF a.cell.refreshing THEN a
         ELSE IF a.cell.queue # <<>> THEN StartNext(a, live)
         ELSE IF a.cell.transfer = "idle" /\ CanDeactivate(a) THEN StartPreflight(a, live)
         ELSE a
    ELSE LET b == IF live THEN a ELSE ScheduleDead(a)
         IN  IF (IsFenced(b) \/ IsDraining(b)) /\ ReadyToDeactivate(b) THEN Deactivate(b)
             ELSE IF ~live THEN FenceActive(b)
             ELSE IF MayStart(b) THEN StartWork(b)
             ELSE b

-----------------------------------------------------------------------------
(* The shape of an action: a handler runs while the lease may run out.      *)

Handles(a) == \E live \in {lease, FALSE} : /\ live \/ ~lease \/ "expire" \in actor.setup.events
                                          /\ actor' = Continue(a, live) /\ lease' = live

\* A failing task fences its worker.
Fences(failed) == worker' = IF failed THEN "fenced" ELSE worker

Running(kind) == {t \in actor.tasks : t.kind = kind /\ t.out = "run"}
Ended(kind) == {t \in actor.tasks : t.kind = kind /\ t.out # "run"}
\* A message or a tick is handled: the loop is not shutting down.
Open(event) == event \in actor.setup.events /\ shut = "no"

-----------------------------------------------------------------------------
(* Activation. *)

\* Mutant: a Cell still owned by a fenced activation is opened again.
ActivateOwned ==
    /\ shut = "no" /\ lease /\ ~actor.cell.active /\ ~actor.transit /\ actor.gen < actor.setup.gens
    /\ actor' = LET a == [actor EXCEPT !.gen = @ + 1, !.transit = TRUE]
                IN  Spawn(a, "activate", {}, {})
    /\ owner' = "owned" /\ sql' = root /\ worker' = "open"
    /\ UNCHANGED <<lease, shut, root, logged, bundled, made, selected, acked>>
Activate ==
    /\ shut = "no" /\ lease /\ ~actor.cell.active /\ ~actor.transit
    /\ owner = "released" /\ actor.gen < actor.setup.gens
    /\ actor' = LET a == [actor EXCEPT !.gen = @ + 1, !.transit = TRUE]
                IN  Spawn(a, "activate", {}, {})
    /\ owner' = "owned" /\ sql' = root /\ worker' = "open"
    /\ UNCHANGED <<lease, shut, root, logged, bundled, made, selected, acked>>

\* handle_activated: serve, or close again when the lease, the runtime or the caller is gone.
Activated ==
    \E t \in Running("activate"), caller, sparse, settled \in BOOLEAN :
        LET a == Finish(actor, t) IN
        /\ actor' = IF ~lease \/ shut # "no" \/ ~caller THEN Spawn(a, "release", {}, {})
                    ELSE [a EXCEPT !.transit = FALSE, !.cell.active = TRUE, !.cell.home = TRUE,
                            !.cell.known = settled,
                            !.cell.residency = IF sparse THEN "Sparse" ELSE "Resident"]
        /\ sparse => "hydrate" \in actor.setup.events
        /\ settled => "evict" \in actor.setup.events
        /\ UNCHANGED <<lease, worker, shut, world>>

\* cleanup_failed_activation released the record, or could not.
ActivationFails ==
    \E t \in Running("activate"), o \in {"owned", "released"} :
        /\ actor' = [Finish(actor, t) EXCEPT !.transit = FALSE]
        /\ owner' = o
        /\ o = "released" => lease
        /\ UNCHANGED <<lease, worker, shut, root, database, selected, acked>>

-----------------------------------------------------------------------------
(* Requests and their SQL. *)

\* Execute, Query and Migrate messages.  A refused request leaves no trace.
Submit(r) ==
    /\ shut = "no" /\ lease /\ actor.reply[r] = "new" /\ Admits(actor, r)
    /\ \E live \in {TRUE, "expire" \notin actor.setup.events} :
        /\ actor' = LET a == [actor EXCEPT !.reply[r] = "wait", !.cell.queue = Append(@, r),
                                           !.cell.life = IF r \in Migrations THEN "Migrating" ELSE @]
                    IN  StartNext(a, live)
        /\ lease' = live
    /\ UNCHANGED <<worker, shut, world>>

\* A message on a dead lease and the timer ticks only fence the Cell.
FenceTick ==
    /\ shut = "no" /\ ~lease /\ actor.cell.active
    /\ actor' = FenceActive(actor)
    /\ actor' # actor
    /\ UNCHANGED <<lease, worker, shut, world>>

\* The next commit of the local database, submitted to the node log in mode m.
NewCommit(m) ==
    /\ made < actor.setup.commits /\ made' = made + 1
    /\ sql' = sql \cup {made + 1}
    /\ logged' = IF m = "object" THEN logged ELSE logged \cup {made + 1}
    /\ bundled' = IF m = "bundled" THEN bundled \cup {made + 1} ELSE bundled

Progress(t, covered, out) ==
    actor' = [actor EXCEPT !.tasks = (@ \ {t}) \cup {[t EXCEPT !.cuts = covered, !.out = out]}]

\* execute_command and group::execute: recorded before, refused, or committed.
CommandEnds ==
    \E t \in Running("work"), out \in {"recorded", "failed", "pending", "broken"} :
        /\ worker = "fenced" => out = "broken"
        /\ \/ out # "pending" /\ Progress(t, {}, out) /\ UNCHANGED database
           \/ out = "pending" /\ Progress(t, {made + 1}, out) /\ \E m \in actor.setup.modes : NewCommit(m)
        /\ Fences(out = "broken")
        /\ UNCHANGED <<lease, shut, owner, root, selected, acked>>

\* handle_executed of a fenced command.
ExecutedFenced ==
    \E t \in Ended("work") :
        /\ ~lease \/ t.out = "broken"
        /\ Handles(Reply(FinishWork(Finish(actor, t), TRUE), t.reqs, "unknown"))
        /\ UNCHANGED <<worker, shut, world>>

ExecutedReady ==
    \E t \in Ended("work") :
        /\ lease /\ t.out \in {"recorded", "failed"}
        /\ Handles(Reply(FinishWork(Finish(actor, t), FALSE), t.reqs,
                         IF t.out = "recorded" THEN "done" ELSE "failed"))
        /\ UNCHANGED <<worker, shut, world>>

\* handle_executed of a new commit, unless the Cell was fenced meanwhile: the
\* foreground slot stays taken until the commit is proven.
ExecutedPending ==
    \E t \in Ended("work") :
        LET a == Finish(actor, t)
            begun == [a EXCEPT !.cell.pubs = @ + 1,
                               !.cell.line = @ \o SetToSeq(t.cuts),
                               !.cell.unpub = @ + Cardinality(t.cuts \cap logged)]
        IN  /\ lease /\ t.out = "pending"
            /\ Handles(IF IsFenced(a) \/ (IsDraining(a) /\ ~a.cell.busy)
                       THEN Reply(FinishWork(a, FALSE), t.reqs, "unknown")
                       ELSE Spawn(StartPublication(begun), "proof", t.reqs, t.cuts))
            /\ UNCHANGED <<worker, shut, world>>

\* The probe of a blocked command found its result, nothing, or failed.
Probed ==
    \E t \in Running("probe"), out \in {"recorded", "absent", "failed", "broken"} :
        LET a == Finish(actor, t)
            r == CHOOSE q \in t.reqs : TRUE
            fenced == ~lease \/ out = "broken"
            idle == FinishWork(a, fenced)
        IN  /\ worker = "fenced" => out = "broken"
            /\ Handles(IF ~fenced /\ out = "absent"
                       THEN [idle EXCEPT !.cell.queue = <<r>> \o @, !.cell.probed = TRUE]
                       ELSE Reply(idle, t.reqs, IF fenced THEN "unknown"
                                                ELSE IF out = "recorded" THEN "done" ELSE "failed"))
            /\ Fences(out = "broken")
            /\ UNCHANGED <<shut, world>>

Queried ==
    \E t \in Running("query"), out \in {"done", "failed", "broken"} :
        /\ worker = "fenced" => out = "broken"
        /\ Handles(Reply(FinishWork(Finish(actor, t), ~lease \/ out = "broken"), t.reqs,
                         IF lease /\ out = "done" THEN "done" ELSE "failed"))
        /\ Fences(out = "broken")
        /\ UNCHANGED <<shut, world>>

\* prove_command and handle_proven: the object proof, or the follower or bundle
\* proof of a logged commit.  Both must fail before the command is given up.
Proven(c, ok) ==
    \E t \in Running("proof") :
        /\ t.cuts = {c}
        /\ IF ok THEN actor.object[c] = "ok" \/ (c \in logged /\ lease)
                 ELSE actor.object[c] = "err" /\ (c \in selected => ~lease)
        /\ Handles(Reply(FinishWork(Finish(actor, t), ~(ok /\ lease)), t.reqs,
                         IF ok /\ lease THEN "done" ELSE "unknown"))
        /\ acked' = IF ok /\ lease THEN acked \cup {c} ELSE acked
        /\ Fences(~ok)
        /\ UNCHANGED <<shut, owner, root, database, selected>>

-----------------------------------------------------------------------------
(* Publication. *)

\* handle_publication_admitted.  A refused admission fences without the worker.
Admitted(ok) ==
    \E t \in Running("admit") :
        LET a == Finish(actor, t) IN
        /\ IF ok /\ lease /\ ~IsFenced(a)
           THEN actor' = StartAdmitted(a) /\ UNCHANGED lease
           ELSE Handles(FenceActive([a EXCEPT !.cell.home = TRUE]))
        /\ UNCHANGED <<worker, shut, world>>

\* The root of the local database at the newest covered commit.
RootAt(covered) == root \cup {c \in sql : \E d \in covered : c <= d}

\* The root update of a publication, or of a materialization, landed or did not.
PublishEnds(kind, ok) ==
    \E t \in Running(kind), landed \in BOOLEAN :
        /\ ok => landed /\ worker = "open"
        /\ LET out == IF ok THEN "ok" ELSE "err"
               a == [actor EXCEPT !.tasks = (@ \ {t}) \cup {[t EXCEPT !.out = out]}]
           IN  actor' = IF kind = "publish" THEN Proofs(a, t.cuts, out) ELSE a
        /\ root' = IF landed THEN RootAt(t.cuts) ELSE root
        /\ Fences(~ok)
        /\ UNCHANGED <<lease, shut, owner, database, selected, acked>>

\* handle_published: a materialization settles one obligation, a publication one
\* for each commit.
Published(kind) ==
    \E t \in Ended(kind) :
        LET a == [Finish(actor, t) EXCEPT
                    !.cell.home = TRUE, !.cell.mat = {},
                    !.cell.unpub = IF t.out = "ok" THEN SaturatingSub(@, Cardinality(t.cuts \cap logged))
                                   ELSE @]
            b == FinishPublications(a, IF kind = "publish" THEN Cardinality(t.cuts) ELSE 1)
        IN  /\ Handles(IF lease /\ t.out = "ok" THEN StartPublication(b) ELSE FenceActive(b))
            /\ UNCHANGED <<worker, shut, world>>

\* The node's bundle publisher selects a captured commit, in order.
SelectBundle ==
    \E c \in bundled \ selected :
        /\ \A d \in bundled \ selected : c <= d
        /\ selected' = selected \cup {c}
        /\ UNCHANGED <<actor, lease, worker, shut, owner, root, database, acked>>

\* handle_selection_ready: the waiter of this activation, if it still waits.
SelectionReady(ok) ==
    \E t \in Running("ready") :
        LET a == Finish(actor, t)
            waits == a.cell.active /\ t.gen = a.gen /\ a.cell.waiting
            b == [a EXCEPT !.cell.waiting = FALSE]
        IN  /\ ok /\ waits => t.cuts \subseteq selected
            /\ IF ~waits THEN actor' = a /\ UNCHANGED lease
               ELSE Handles(IF ~ok \/ ~lease THEN FenceActive(b)
                            ELSE IF IsFenced(b) THEN b ELSE StartPublication(b))
            /\ UNCHANGED <<worker, shut, world>>

\* Mutant: a selection settles all its obligations.
BundleSelectedSettles(ok) ==
    \E t \in Running("select") :
        LET a == Proofs([Finish(actor, t) EXCEPT !.cell.selecting = FALSE], t.cuts, "err")
            b == FinishPublications(a, Cardinality(t.cuts))
        IN  /\ ok => worker = "open"
            /\ Handles(IF ok /\ lease /\ ~IsFenced(a)
                       THEN StartPublication([b EXCEPT !.cell.debt = @ \cup t.cuts])
                       ELSE FenceActive(b))
            /\ Fences(~ok)
            /\ UNCHANGED <<shut, world>>
\* handle_bundle_selected: selection keeps one obligation until the root follows.
BundleSelected(ok) ==
    \E t \in Running("select") :
        LET n == Cardinality(t.cuts)
            a == Proofs([Finish(actor, t) EXCEPT !.cell.selecting = FALSE], t.cuts, "err")
            b == FinishPublications(a, IF a.cell.debt = {} THEN n - 1 ELSE n)
        IN  /\ ok => worker = "open"
            /\ Handles(IF ok /\ lease /\ ~IsFenced(a)
                       THEN StartPublication([b EXCEPT !.cell.debt = @ \cup t.cuts])
                       ELSE FenceActive(FinishPublications(a, n)))
            /\ Fences(~ok)
            /\ UNCHANGED <<shut, world>>

\* dispatch: the debt becomes a materialization when it is due, which its age
\* makes it at any time.
MayMaterialize(a) ==
    a.cell.active /\ a.cell.debt # {} /\ a.cell.home /\ a.cell.mat = {} /\ ~a.cell.selecting

Materialize ==
    /\ MayMaterialize(actor)
    /\ actor' = [Spawn(actor, "materialize", {}, actor.cell.debt) EXCEPT
                    !.cell.home = FALSE, !.cell.mat = actor.cell.debt, !.cell.debt = {}]
    /\ UNCHANGED <<lease, worker, shut, world>>

-----------------------------------------------------------------------------
(* Schema migration: SQL, log and root update in one task with the publisher. *)

MigrationCommits ==
    \E t \in Running("migrate"), m \in actor.setup.modes \ {"bundled"} :
        /\ t.cuts = {} /\ worker = "open" /\ lease
        /\ Progress(t, {made + 1}, "run") /\ NewCommit(m)
        /\ UNCHANGED <<lease, worker, shut, owner, root, selected, acked>>

\* The follower proof answers the migration before its root is published.
MigrationProven ==
    \E t \in Running("migrate") :
        /\ t.cuts # {} /\ t.cuts \subseteq logged /\ lease
        /\ actor' = Reply(actor, t.reqs, "done")
        /\ actor' # actor
        /\ acked' = acked \cup t.cuts
        /\ UNCHANGED <<lease, worker, shut, owner, root, database, selected>>

MigrationEnds(ok) ==
    \E t \in Running("migrate"), landed \in BOOLEAN :
        /\ ok => landed /\ worker = "open"
        /\ landed => t.cuts # {}
        /\ Progress(t, t.cuts, IF ok THEN "ok" ELSE "err")
        /\ root' = IF landed THEN RootAt(t.cuts) ELSE root
        /\ Fences(~ok)
        /\ UNCHANGED <<lease, shut, owner, database, selected, acked>>

\* handle_migrated: a logged migration that failed keeps the owner.
Migrated ==
    \E t \in Ended("migrate") :
        LET a == [Finish(actor, t) EXCEPT !.cell.home = TRUE,
                    !.cell.unpub = IF t.out = "err" /\ t.cuts \cap logged # {} THEN @ + 1 ELSE @]
            b == FinishMigration(a, ~lease \/ t.out = "err")
            done == lease /\ t.out = "ok" /\ ~IsFenced(b)
        IN  /\ Handles(Reply(b, t.reqs, IF done THEN "done" ELSE "failed"))
            /\ acked' = IF done THEN acked \cup t.cuts ELSE acked
            /\ UNCHANGED <<worker, shut, owner, root, database, selected>>

-----------------------------------------------------------------------------
(* Background jobs of the timer ticks. *)

\* RenewalScheduler::dispatch; BeginRenewal accepts.
Renew ==
    /\ Open("renew") /\ lease /\ actor.cell.active /\ actor.cell.home
    /\ ~IsFenced(actor) /\ ~IsDraining(actor)
    /\ actor.cell.preparing => actor.cell.quiescing
    /\ ~actor.cell.busy /\ ~actor.cell.renewing /\ actor.cell.queue = <<>> /\ actor.cell.pubs = 0
    /\ actor' = [Spawn(actor, "renew", {}, {}) EXCEPT !.cell.renewing = TRUE, !.cell.home = FALSE]
    /\ UNCHANGED <<lease, worker, shut, world>>

Renewed(ok) ==
    \E t \in Running("renew") :
        LET a == [Finish(actor, t) EXCEPT !.cell.home = TRUE, !.cell.renewing = FALSE]
        IN  /\ Handles(IF ok /\ lease /\ ~IsFenced(a) THEN a ELSE FenceActive(a))
            /\ Fences(~ok)
            /\ UNCHANGED <<shut, world>>

\* start_background_hydration; BeginHydration accepts.
Hydrate ==
    /\ Open("hydrate") /\ lease /\ actor.cell.active
    /\ ~IsFenced(actor) /\ ~IsDraining(actor) /\ ~actor.cell.preparing /\ ~actor.cell.quiescing
    /\ ~actor.cell.busy /\ actor.cell.queue = <<>> /\ actor.cell.pubs = 0
    /\ actor.cell.residency = "Sparse"
    /\ actor' = [Spawn(actor, "hydrate", {}, {}) EXCEPT !.cell.residency = "Hydrating"]
    /\ UNCHANGED <<lease, worker, shut, world>>

Hydrated(out) ==
    \E t \in Running("hydrate") :
        LET a == [Finish(actor, t) EXCEPT
                    !.cell.residency = IF out = "complete" THEN "Resident" ELSE "Sparse"]
        IN  /\ worker = "fenced" => out = "err"
            /\ Handles(IF out = "err" THEN FenceActive(a) ELSE a)
            /\ Fences(out = "err")
            /\ UNCHANGED <<shut, world>>

\* start_background_inventory; BeginInventory accepts.
Refresh ==
    /\ Open("refresh") /\ lease /\ actor.cell.active
    /\ ~IsFenced(actor) /\ ~Draining(actor) /\ ~actor.cell.busy /\ ~actor.cell.refreshing
    /\ actor.cell.queue = <<>> /\ actor.cell.pubs = 0
    /\ actor' = [Spawn(actor, "refresh", {}, {}) EXCEPT !.cell.refreshing = TRUE]
    /\ UNCHANGED <<lease, worker, shut, world>>

Refreshed(settled) ==
    \E t \in Running("refresh") :
        /\ Handles([Finish(actor, t) EXCEPT !.cell.refreshing = FALSE, !.cell.known = settled])
        /\ UNCHANGED <<worker, shut, world>>

\* start_background_compaction waits for shared permits before it takes the slot.
RequestCompaction ==
    /\ Open("compact") /\ lease /\ actor.cell.active
    /\ actor.cell.compacting = "none" /\ ~Draining(actor) /\ ReadyToDeactivate(actor)
    /\ actor' = [Spawn(actor, "admitCompact", {}, {}) EXCEPT !.cell.compacting = "pending"]
    /\ UNCHANGED <<lease, worker, shut, world>>

MayCompact(a) ==
    /\ ~IsFenced(a) /\ ~IsDraining(a) /\ ~a.cell.preparing /\ ~a.cell.quiescing
    /\ ReadyToDeactivate(a)

\* handle_compaction_admitted, for the request of this activation.
CompactionAdmitted(ok) ==
    \E t \in Running("admitCompact") :
        LET a == Finish(actor, t)
            current == a.cell.active /\ t.gen = a.gen /\ a.cell.compacting \in {"pending", "cancelled"}
            granted == ok /\ a.cell.compacting = "pending"
            none == [a EXCEPT !.cell.compacting = "none"]
        IN  /\ IF ~current THEN actor' = a /\ UNCHANGED lease
               ELSE IF granted /\ lease /\ MayCompact(a)
               THEN /\ actor' = [Spawn(a, "compact", {}, {}) EXCEPT !.cell.busy = TRUE,
                                    !.cell.compacting = "running", !.cell.home = FALSE]
                    /\ UNCHANGED lease
               ELSE Handles(IF ~ok \/ (granted /\ ~lease)
                            THEN [FenceActive(a) EXCEPT !.cell.compacting = "none"] ELSE none)
            /\ UNCHANGED <<worker, shut, world>>

Compacted(ok) ==
    \E t \in Running("compact") :
        LET a == [Finish(actor, t) EXCEPT !.cell.compacting = "none", !.cell.home = TRUE]
        IN  /\ Handles(FinishWork(a, ~ok \/ ~lease))
            /\ Fences(~ok)
            /\ UNCHANGED <<shut, world>>

-----------------------------------------------------------------------------
(* Drain, eviction, transfer and maintenance release. *)

AbortTransfer(a) ==
    [a EXCEPT !.cell.transfer = "none", !.cell.inspecting = FALSE,
              !.cell.preparing = @ /\ (IsFenced(a) \/ IsDraining(a))]

Drain ==
    /\ Open("drain") /\ lease /\ actor.cell.active /\ actor.cell.transfer # "idle"
    /\ ~IsFenced(actor) /\ ~IsDraining(actor)
    /\ \E live \in {TRUE, "expire" \notin actor.setup.events} :
        LET a == [AbortTransfer(actor) EXCEPT !.cell.life = "Draining", !.cell.drain = TRUE]
            dead == ScheduleDead(a)
        IN  /\ actor' = IF live THEN IF ReadyToDeactivate(a) THEN Deactivate(a) ELSE a
                        ELSE IF ReadyToDeactivate(dead) \/ actor.cell.transfer # "none" THEN dead
                        ELSE FenceActive(dead)
            /\ lease' = live
    /\ UNCHANGED <<worker, shut, world>>

\* begin_idle_cell_eviction of an eligible Cell; memory pressure does not ask the lease.
EvictIdle ==
    LET a == [actor EXCEPT !.cell.life = "Draining"] IN
    /\ Open("evict") /\ actor.cell.active
    /\ actor.cell.known /\ ~actor.cell.busy /\ ~actor.cell.renewing /\ actor.cell.transfer = "none"
    /\ actor.cell.pubs = 0 /\ actor.cell.home /\ actor.cell.unpub = 0 /\ actor.cell.queue = <<>>
    /\ ~IsFenced(actor) /\ ~IsDraining(actor)
    /\ actor' = IF ReadyToDeactivate(a) THEN Deactivate(a) ELSE a
    /\ UNCHANGED <<lease, worker, shut, world>>

\* BeginTransferPreflight accepts: admission closes before the Cell is quiet.
MayPrepare(a) ==
    /\ ~IsFenced(a) /\ ~IsDraining(a) /\ ~a.cell.preparing /\ ~a.cell.renewing
    /\ \A t \in a.tasks : t.kind \notin Inventories \cup {"hydrate", "compact", "renew"}

ReleaseIdleCell ==
    /\ Open("transfer") /\ lease /\ actor.cell.active
    /\ ~Draining(actor) /\ ~actor.cell.refreshing /\ MayPrepare(actor)
    /\ Handles([actor EXCEPT !.cell.preparing = TRUE, !.cell.transfer = "idle"])
    /\ UNCHANGED <<worker, shut, world>>

\* handle_transfer_preflight after a fresh inventory.
TransferPreflight(settled) ==
    \E t \in Running("preflight") :
        LET a == [Finish(actor, t) EXCEPT !.cell.refreshing = FALSE]
            quiet == settled /\ ReadyToDeactivate(a) /\ a.cell.unpub = 0
        IN  /\ IF a.cell.transfer # "none" /\ lease /\ quiet /\ a.cell.preparing
                  /\ ~IsFenced(a) /\ ~IsDraining(a)
               THEN /\ actor' = Deactivate(a)
                    /\ UNCHANGED lease
               ELSE Handles(IF a.cell.transfer = "none" THEN a
                            ELSE IF ~lease \/ (quiet /\ IsFenced(a)) THEN FenceActive(a)
                            ELSE AbortTransfer(a))
            /\ UNCHANGED <<worker, shut, world>>

Quiesce ==
    /\ Open("quiesce") /\ lease /\ actor.cell.active
    /\ ~IsFenced(actor) /\ ~IsDraining(actor) /\ ~actor.cell.preparing
    /\ ~actor.cell.quiescing
    /\ actor' = [actor EXCEPT !.cell.quiescing = TRUE]
    /\ UNCHANGED <<lease, worker, shut, world>>

ReleaseMaintenanceCell ==
    /\ Open("maintain") /\ lease /\ actor.cell.active /\ ~Draining(actor) /\ ~IsFenced(actor)
    /\ Handles([actor EXCEPT !.cell.quiescing = TRUE, !.cell.transfer = "maint"])
    /\ UNCHANGED <<worker, shut, world>>

\* maintenance::drive and inspect.
DriveMaintenance ==
    /\ shut = "no" /\ actor.cell.transfer \in {"maint", "closing"}
    /\ ~IsFenced(actor) /\ ~IsDraining(actor) /\ actor.cell.quiescing
    /\ ~actor.cell.refreshing /\ actor.cell.home
    /\ actor.cell.transfer = "closing" =>
           actor.cell.preparing /\ actor.cell.queue = <<>> /\ CanDeactivate(actor)
    /\ actor' = IF ~lease THEN FenceActive(actor)
                ELSE [Spawn(actor, "inspect", {}, {}) EXCEPT
                        !.cell.refreshing = TRUE, !.cell.inspecting = TRUE]
    /\ UNCHANGED <<lease, worker, shut, world>>

MaintenanceExpires ==
    /\ shut = "no" /\ actor.cell.transfer \in {"maint", "closing"}
    /\ Handles(AbortTransfer(actor))
    /\ UNCHANGED <<worker, shut, world>>

\* maintenance_transfer::handle: readiness is read again after admission closed.
MaintenancePreflight(out) ==
    \E t \in Running("inspect") :
        LET a == [Finish(actor, t) EXCEPT !.cell.refreshing = FALSE]
            b == [a EXCEPT !.cell.inspecting = FALSE]
            final == b.cell.transfer = "closing" /\ out = "ready" /\ lease /\ ~IsFenced(b)
        IN  /\ IF a.cell.transfer \in {"maint", "closing"} /\ a.cell.inspecting /\ final
                  /\ ReadyToDeactivate(b) /\ b.cell.unpub = 0 /\ b.cell.preparing /\ ~IsDraining(b)
               THEN actor' = Deactivate(b) /\ UNCHANGED lease
               ELSE Handles(
                   IF a.cell.transfer \notin {"maint", "closing"} \/ ~a.cell.inspecting THEN a
                   ELSE IF ~lease \/ IsFenced(b) \/ out = "fenced" THEN FenceActive(b)
                   ELSE IF out = "err" THEN AbortTransfer(b)
                   ELSE IF out = "busy" THEN [AbortTransfer(b) EXCEPT !.cell.transfer = "maint"]
                   ELSE IF b.cell.transfer = "maint" /\ MayPrepare(b)
                   THEN [b EXCEPT !.cell.preparing = TRUE, !.cell.transfer = "closing"]
                   ELSE b)
            /\ UNCHANGED <<worker, shut, world>>

-----------------------------------------------------------------------------
(* Deactivation and shutdown. *)

\* handle_deactivated: a graceful release, or what a fence leaves.
Deactivated(o) ==
    \E t \in Running("release") \cup Running("discard") :
        /\ o = "released" => lease /\ t.cuts = {}
        /\ actor' = [Finish(actor, t) EXCEPT !.transit = FALSE]
        /\ owner' = o
        /\ UNCHANGED <<lease, worker, shut, root, database, selected, acked>>

\* start_shutdown_drain.
Shutdown ==
    /\ Open("shutdown") /\ shut' = "draining"
    /\ \E live \in {lease, FALSE} :
        LET a == CancelCompaction(AbortTransfer(actor))
            b == [a EXCEPT !.cell.refreshing = FALSE, !.cell.preparing = FALSE, !.cell.stopping = TRUE,
                           !.cell.life = IF @ \in {"Fenced", "Migrating"} \/ a.cell.stopping THEN @ ELSE "Shutdown"]
            c == IF b.cell.queue = <<>> THEN b ELSE StartNext(b, live)
            d == IF live THEN c ELSE ScheduleDead(c)
        IN  /\ live \/ ~lease \/ "expire" \in actor.setup.events
            /\ actor' = IF ~actor.cell.active THEN actor
                        ELSE IF ReadyToDeactivate(d) THEN Deactivate(d)
                        ELSE IF ~live THEN FenceActive(d) ELSE d
            /\ lease' = live
    /\ UNCHANGED <<worker, world>>

\* The loop ends when no task is left.
ShutdownEnds ==
    /\ shut = "draining" /\ actor.tasks = {} /\ ~MayMaterialize(actor)
    /\ shut' = IF actor.cell.active \/ actor.transit THEN "stuck" ELSE "done"
    /\ UNCHANGED <<actor, lease, worker, world>>

LeaseExpires ==
    /\ "expire" \in actor.setup.events /\ lease /\ lease' = FALSE
    /\ UNCHANGED <<actor, worker, shut, world>>

-----------------------------------------------------------------------------
Next ==
    \/ Activate \/ Activated \/ ActivationFails
    \/ \E r \in actor.setup.requests : Submit(r)
    \/ CommandEnds \/ ExecutedFenced \/ ExecutedReady \/ ExecutedPending \/ Probed \/ Queried
    \/ \E c \in Commits, ok \in BOOLEAN : Proven(c, ok)
    \/ \E ok \in BOOLEAN : \/ Admitted(ok) \/ SelectionReady(ok) \/ BundleSelected(ok)
                           \/ MigrationEnds(ok)
                           \/ \E kind \in {"publish", "materialize"} : PublishEnds(kind, ok)
    \/ \E kind \in {"publish", "materialize"} : Published(kind)
    \/ SelectBundle \/ Materialize \/ MigrationCommits \/ MigrationProven \/ Migrated
    \/ Renew \/ Hydrate \/ Refresh \/ RequestCompaction
    \/ \E ok \in BOOLEAN : Renewed(ok) \/ Refreshed(ok) \/ CompactionAdmitted(ok) \/ Compacted(ok)
    \/ \E out \in {"complete", "partial", "err"} : Hydrated(out)
    \/ Drain \/ EvictIdle \/ ReleaseIdleCell \/ Quiesce \/ ReleaseMaintenanceCell
    \/ DriveMaintenance \/ MaintenanceExpires
    \/ \E ok \in BOOLEAN : TransferPreflight(ok)
    \/ \E out \in {"ready", "busy", "err", "fenced"} : MaintenancePreflight(out)
    \/ \E o \in {"owned", "released"} : Deactivated(o)
    \/ Shutdown \/ ShutdownEnds \/ FenceTick \/ LeaseExpires

Spec == Init /\ [][Next]_vars

\* Every spawned task ends and the loop handles its result.  No fairness is assumed
\* of followers: a proof is waited for only once its object result is known or a
\* bundle selected the commit, which the node's bundle publisher does in the end.
Settles(c) == actor.object[c] # "none" /\ \E ok \in BOOLEAN : Proven(c, ok)
Selects == \E t \in Running("ready") :
               /\ t.cuts \subseteq selected \/ ~actor.cell.waiting \/ t.gen # actor.gen
               /\ SelectionReady(TRUE)
Fairness ==
    /\ WF_vars(Activated) /\ WF_vars(CommandEnds)
    /\ WF_vars(ExecutedFenced \/ ExecutedReady \/ ExecutedPending)
    /\ WF_vars(Probed) /\ WF_vars(Queried) /\ \A c \in Commits : WF_vars(Settles(c))
    /\ WF_vars(\E ok \in BOOLEAN : Admitted(ok))
    /\ \A kind \in {"publish", "materialize"} :
           WF_vars(\E ok \in BOOLEAN : PublishEnds(kind, ok)) /\ WF_vars(Published(kind))
    /\ WF_vars(SelectBundle) /\ WF_vars(Selects) /\ WF_vars(\E ok \in BOOLEAN : BundleSelected(ok))
    /\ WF_vars(Materialize)
    /\ WF_vars(\E ok \in BOOLEAN : MigrationEnds(ok)) /\ WF_vars(Migrated)
    /\ WF_vars(\E ok \in BOOLEAN : Renewed(ok)) /\ WF_vars(\E ok \in BOOLEAN : Refreshed(ok))
    /\ WF_vars(\E ok \in BOOLEAN : CompactionAdmitted(ok))
    /\ WF_vars(\E ok \in BOOLEAN : Compacted(ok))
    /\ WF_vars(\E out \in {"complete", "partial", "err"} : Hydrated(out))
    /\ WF_vars(\E ok \in BOOLEAN : TransferPreflight(ok))
    /\ WF_vars(\E out \in {"ready", "busy", "err", "fenced"} : MaintenancePreflight(out))
    /\ WF_vars(\E o \in {"owned", "released"} : Deactivated(o))
    /\ WF_vars(ShutdownEnds) /\ WF_vars(FenceTick)

FairSpec == Spec /\ Fairness

-----------------------------------------------------------------------------
(* Properties. *)

\* The Cell, its tasks and its replies keep their types, and every commit anyone
\* refers to was made (ActiveCell).
TypeOK ==
    /\ actor.gen \in 0 .. MaxGen /\ actor.transit \in BOOLEAN
    /\ \A t \in actor.tasks : t.kind \in Kinds /\ t.gen \in 0 .. MaxGen
                              /\ t.reqs \subseteq Requests /\ t.cuts \subseteq Commits
    /\ actor.reply \in [Requests -> {"new", "wait", "done", "failed", "unknown"}]
    /\ actor.object \in [Commits -> {"none", "ok", "err"}]
    /\ actor.cell.life \in {"Serving", "Fenced", "Draining", "Migrating", "Shutdown"}
    /\ actor.cell.residency \in {"Sparse", "Hydrating", "Resident"}
    /\ actor.cell.compacting \in {"none", "pending", "cancelled", "running"}
    /\ actor.cell.transfer \in {"none", "idle", "maint", "closing"}
    /\ actor.cell.pubs \in Nat /\ actor.cell.unpub \in Nat
    /\ lease \in BOOLEAN /\ worker \in {"open", "fenced"}
    /\ shut \in {"no", "draining", "done", "stuck"} /\ owner \in {"owned", "released"}
    /\ root \cup sql \cup logged \cup bundled \cup selected \cup acked \subseteq 1 .. made

\* A record this process released names a root that holds every commit it ever
\* acknowledged: neither a fence, an eviction, a transfer nor a shutdown gives up a
\* logged commit that only this owner's log can still recover.  A graceful release
\* (start_deactivate) begins only when the root holds everything the database does.
ReleasedHoldsAcked ==
    /\ owner = "released" => acked \subseteq root
    /\ \A t \in actor.tasks : t.kind = "release" => sql \subseteq root

\* What the kernel keeps of a Cell's publications agrees with the work under way.  The
\* publisher, the only means to update the root, is at home or in one running task; the
\* publication count is the line, the commits a task publishes or selects, the root debt
\* and its materialization; each acknowledged commit that no root holds is counted in
\* unpublished_node_logs, or its migration still runs.
PublicationsAccounted ==
    LET Covered(kind) == UNION {t.cuts : t \in {u \in actor.tasks : u.kind = kind}}
    IN  /\ TypeOK
        /\ actor.cell.active =>
            /\ Cardinality({t \in actor.tasks : t.kind \in Holders}) = IF actor.cell.home THEN 0 ELSE 1
            /\ actor.cell.pubs = Len(actor.cell.line) + Cardinality(Covered("publish"))
                                 + Cardinality(Covered("select"))
                                 + (IF actor.cell.debt # {} THEN 1 ELSE 0)
                                 + (IF actor.cell.mat # {} THEN 1 ELSE 0)
            /\ Cardinality({c \in acked \ root : c \notin Covered("migrate")}) <= actor.cell.unpub

\* A completion never meets another activation, nor a Cell that is gone: while an effect
\* runs, its Cell is active in the same generation.  Every removal waits for the effects
\* (can_deactivate), so the handlers' arms for a removed Cell, which comments at
\* tasks/work.rs:25, :156, :198 and tasks/publication.rs:134 describe, are not reached.
EffectsBelong ==
    \A t \in Effects(actor) : actor.cell.active /\ t.gen = actor.gen

\* When the Cell leaves the actor no accepted request is left unanswered.
NoneStranded ==
    ~actor.cell.active => \A r \in Requests : actor.reply[r] # "wait"

\* An acknowledged commit is never forgotten by the process that may still serve it:
\* the database an activation serves holds every acknowledged commit.
ServesAcked == actor.cell.active /\ owner = "owned" /\ ~IsFenced(actor) => acked \subseteq sql

\* A schema migration runs alone: nothing of the Cell is unpublished beside it.
MigrationAlone ==
    (\E t \in actor.tasks : t.kind = "migrate") => actor.cell.pubs = 0 /\ sql \subseteq root \cup
        UNION {t.cuts : t \in {u \in actor.tasks : u.kind = "migrate"}}

\* Every accepted request is answered: with its result, a refusal or "unknown".
Answered == \A r \in Requests : actor.reply[r] = "wait" ~> actor.reply[r] # "wait"

\* While the node lease lasts, a drained Cell leaves the actor, whatever was queued,
\* running or unpublished, and a shutdown drain ends with every Cell closed.
DrainsEnd ==
    /\ actor.cell.active /\ actor.cell.life = "Draining" ~> ~actor.cell.active \/ ~lease
    /\ shut = "draining" ~> shut = "done" \/ ~lease

=============================================================================
