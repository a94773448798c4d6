------------------------------ MODULE NodeLog ------------------------------
(***************************************************************************)
(* One epoch of one node log: the leader's durability gate and shipper,    *)
(* the follower lanes it ships to, the signed directory record that fences *)
(* it, and the recovery workers that replace a dead leader's unpublished   *)
(* tail by recovery overlays before any of its Cells is taken over.        *)
(*                                                                         *)
(* A command is acknowledged either because an object root covers it or    *)
(* because every member of the log holds it ("Fleet").  The module is      *)
(* about the second kind: an acknowledged frame lives only in the follower *)
(* lanes until it is published or recovered.                               *)
(*                                                                         *)
(* Time is abstract.  The leader's lease may end at any moment, a          *)
(* directory record may be found expired at any moment, a recovery claim   *)
(* may expire at any moment: nothing below relies on clocks agreeing.      *)
(***************************************************************************)
EXTENDS Integers, FiniteSets

CONSTANTS
    Members,      \* follower node sessions of the epoch (MAX_NODE_LOG_MEMBERS = 2)
    Cells,        \* Cells the leader owns
    Claimants,    \* recovery workers
    MaxSeq,       \* bound: log sequences issued in the epoch
    MaxFrames,    \* bound: frames of one captured commit
    MaxBatch,     \* frames of one replication round (64 in the shipper)
    Pipeline,     \* rounds outstanding at once (8 in the shipper)
    GrantWindow,  \* sequences one append grant authorizes (512 in the issuer)
    MaxClaims     \* bound: recovery claim generations

ASSUME MembersAssumption == Members # {}
ASSUME CellsAssumption == Cells # {}
ASSUME BoundsAssumption == /\ MaxSeq \in Nat
                           /\ MaxFrames \in Nat \ {0}
                           /\ MaxBatch \in Nat \ {0}
                           /\ Pipeline \in Nat \ {0}
                           /\ GrantWindow \in Nat \ {0}
                           /\ MaxClaims \in Nat

VARIABLES
    \* the durability gate (GateState)
    nextSeq, through, objectCovered, tiered, fleetActive, rotating,
    \* the leader: its lease guard, what it captured, acknowledged and published
    lease, cellOf, tickets, acked, root,
    \* background coverage (ObjectCoverage) and Fleet activation
    staged, flush, activation,
    \* the shipper and its member lanes
    shipper, batched, rounds, completed, sent, waiting, good, bad, msgs, authorized,
    \* the follower lanes on disk, and their append grants in memory
    recs, sealed, retired, grant,
    \* the signed directory record (NodeAdvertisement or NodeTombstone)
    phase, active, dirTiered, claimGen, claimLive, recoveredThrough,
    \* the control records of the Cells, as far as recovery sees them
    pin, taken,
    \* the recovery attempts
    stage, gen, seals, witness, base, seen, needs, manifest,
    \* the rotation barrier of a clean close
    barrier

gateVars == <<nextSeq, through, objectCovered, tiered, fleetActive, rotating>>
leaderVars == <<lease, cellOf, tickets, acked, root>>
coverVars == <<staged, flush, activation>>
shipVars == <<shipper, batched, rounds, completed, sent, waiting, good, bad, msgs, authorized>>
laneVars == <<recs, sealed, retired, grant>>
dirVars == <<phase, active, dirTiered, claimGen, claimLive, recoveredThrough>>
cellVars == <<pin, taken>>
attemptVars == <<stage, gen, seals, witness, base, seen, needs, manifest>>
vars == <<gateVars, leaderVars, coverVars, shipVars, laneVars, dirVars, cellVars,
          attemptVars, barrier>>

Seqs == 1 .. MaxSeq
Seqs0 == 0 .. MaxSeq
Tickets == [first : Seqs, last : Seqs]
Rounds == [first : Seqs, last : Seqs, covered : Seqs0]
Requests == [to : Members, first : Seqs, last : Seqs, covered : Seqs0]
Receipts == [kind : {"none", "failed", "ok"}, base : 0 .. MaxSeq + 1, durable : Seqs0]
NoReceipt == [kind |-> "none", base |-> 0, durable |-> 0]
FailedReceipt == [kind |-> "failed", base |-> 0, durable |-> 0]
Grants == [open : BOOLEAN, first : Seqs0, covered : Seqs0]
NoGrant == [open |-> FALSE, first |-> 0, covered |-> 0]
\* A recovery manifest: the recovered tail of every Cell.
Manifests == [Cells -> SUBSET Seqs]
NoTails == [x \in Cells |-> {}]
\* pin[c]: the manifests named by the overlay of Cell c, at most one.
NotRetired == -1
Flushes == [stage : {"idle", "advancing", "confirming"}, batch : SUBSET Tickets,
            through : Seqs0]
NoFlush == [stage |-> "idle", batch |-> {}, through |-> 0]

IsMax(n, S) == n \in S /\ \A x \in S : x <= n
IsMin(n, S) == n \in S /\ \A x \in S : n <= x
Span(t) == t.first .. t.last
\* The frame is under its Cell's published root.
Published(s) == s <= root[cellOf[s]]
\* n ends the run of covered sequences that starts at the prefix t.
IsPrefixEnd(n, t, S) == /\ n \in t .. MaxSeq
                        /\ (t + 1) .. n \subseteq S
                        /\ n + 1 \notin S

Init ==
    /\ nextSeq = 1
    /\ through = [m \in Members |-> 0]
    /\ objectCovered = {}
    /\ tiered = 0
    /\ fleetActive = FALSE
    /\ rotating = FALSE
    /\ lease = TRUE
    /\ cellOf = [s \in 1 .. 0 |-> CHOOSE c \in Cells : TRUE]
    /\ tickets = {}
    /\ acked = {}
    /\ root = [c \in Cells |-> 0]
    /\ staged = {}
    /\ flush = NoFlush
    /\ activation = "idle"
    /\ shipper = "running"
    /\ batched = 0
    /\ rounds = {}
    /\ completed = 0
    /\ sent = [m \in Members |-> 0]
    /\ waiting = [m \in Members |-> FALSE]
    /\ good = [m \in Members |-> {}]
    /\ bad = [m \in Members |-> {}]
    /\ msgs = {}
    /\ authorized = {}
    /\ recs = [m \in Members |-> {}]
    /\ sealed = [m \in Members |-> FALSE]
    /\ retired = [m \in Members |-> NotRetired]
    /\ grant = [m \in Members |-> NoGrant]
    /\ phase = "Open"
    /\ active = FALSE
    /\ dirTiered = 0
    /\ claimGen = 0
    /\ claimLive = FALSE
    /\ recoveredThrough = 0
    /\ pin = [c \in Cells |-> {}]
    /\ taken = [c \in Cells |-> FALSE]
    /\ stage = [c \in Claimants |-> "idle"]
    /\ gen = [c \in Claimants |-> 0]
    /\ seals = [c \in Claimants |-> [m \in Members |-> NoReceipt]]
    /\ witness = [c \in Claimants |-> 0]
    /\ base = [c \in Claimants |-> [x \in Cells |-> 0]]
    /\ seen = [c \in Claimants |-> [x \in Cells |-> {}]]
    /\ needs = [c \in Claimants |-> {}]
    /\ manifest = [c \in Claimants |-> NoTails]
    /\ barrier = FALSE

-----------------------------------------------------------------------------
(***************************************************************************)
(* The leader.                                                             *)
(***************************************************************************)
\* An object root, or the contiguous object prefix, holds the ticket.
ObjectCovers(t) == \A s \in Span(t) : s <= tiered \/ s \in objectCovered

\* Every member acknowledged the ticket.
FollowersCover(t) == \A m \in Members : t.last <= through[m]

\* gate.stop_shipping: no proof and no issue after it.
StopShipping == rotating' = TRUE /\ fleetActive' = FALSE

\* NodeLogShipper::assign_capture: one captured commit of n frames takes the
\* next sequences and enters the shipper's queue.
Issue(c, n) ==
    /\ lease /\ ~rotating /\ shipper = "running"
    /\ nextSeq + n - 1 <= MaxSeq
    /\ tickets' = tickets \cup {[first |-> nextSeq, last |-> nextSeq + n - 1]}
    /\ cellOf' = [s \in 1 .. nextSeq + n - 1 |-> IF s < nextSeq THEN cellOf[s] ELSE c]
    /\ nextSeq' = nextSeq + n
    /\ UNCHANGED <<through, objectCovered, tiered, fleetActive, rotating, lease, acked,
                   root, coverVars, shipVars, laneVars, dirVars, cellVars, attemptVars,
                   barrier>>

\* Mutant: completed rounds keep their pipeline slot.
BatchCountsCompleted(last) ==
    /\ shipper # "stopped"
    /\ last \in batched + 1 .. nextSeq - 1
    /\ last - batched <= MaxBatch
    /\ Cardinality(rounds) < Pipeline
    /\ rounds' = rounds \cup {[first |-> batched + 1, last |-> last, covered |-> tiered]}
    /\ batched' = last
    /\ UNCHANGED <<gateVars, leaderVars, coverVars, shipper, completed, sent, waiting, good,
                   bad, msgs, authorized, laneVars, dirVars, cellVars, attemptVars,
                   barrier>>

\* run_rounds: the next contiguous frames become one replication round, sent
\* with the object coverage known now.
Batch(last) ==
    /\ shipper # "stopped"
    /\ last \in batched + 1 .. nextSeq - 1
    /\ last - batched <= MaxBatch
    /\ Cardinality({r \in rounds : r.first > completed}) < Pipeline
    /\ rounds' = rounds \cup {[first |-> batched + 1, last |-> last, covered |-> tiered]}
    /\ batched' = last
    /\ UNCHANGED <<gateVars, leaderVars, coverVars, shipper, completed, sent, waiting, good,
                   bad, msgs, authorized, laneVars, dirVars, cellVars, attemptVars,
                   barrier>>

\* run_member: one request at a time per member, for a run of queued rounds;
\* the request claims no more coverage than its least covered round.
Send(m, last) ==
    /\ ~waiting[m]
    /\ \E r \in rounds : r.last = last /\ last > sent[m]
    /\ LET group == {r \in rounds : r.first > sent[m] /\ r.last <= last} IN
       \E covered \in Seqs0 :
          /\ IsMin(covered, {r.covered : r \in group})
          /\ msgs' = msgs \cup {[to |-> m, first |-> sent[m] + 1, last |-> last,
                                covered |-> covered]}
    /\ sent' = [sent EXCEPT ![m] = last]
    /\ waiting' = [waiting EXCEPT ![m] = TRUE]
    /\ UNCHANGED <<gateVars, leaderVars, coverVars, shipper, batched, rounds, completed,
                   good, bad, authorized, laneVars, dirVars, cellVars, attemptVars,
                   barrier>>

\* The rounds of the member's outstanding request.
Outstanding(m) == {r \in rounds : r.last <= sent[m]} \ (good[m] \cup bad[m])

\* run_member's error arm: the request failed, timed out, or its reply was
\* lost.  The request itself may still reach the follower later.
RequestFails(m) ==
    /\ waiting[m]
    /\ bad' = [bad EXCEPT ![m] = @ \cup Outstanding(m)]
    /\ waiting' = [waiting EXCEPT ![m] = FALSE]
    /\ UNCHANGED <<gateVars, leaderVars, coverVars, shipper, batched, rounds, completed,
                   sent, good, msgs, authorized, laneVars, dirVars, cellVars, attemptVars,
                   barrier>>

\* complete_round: rounds complete in order; every member must have answered.
\* One failed member, or a gate that stopped meanwhile, stops the shipper.
CompleteRound(r) ==
    /\ shipper # "stopped"
    /\ r \in rounds /\ r.first = completed + 1
    /\ \A m \in Members : r \in good[m] \cup bad[m]
    /\ IF rotating \/ \E m \in Members : r \in bad[m]
       THEN /\ StopShipping
            /\ shipper' = "stopped"
            /\ UNCHANGED <<through, completed>>
       ELSE /\ through' = [m \in Members |-> r.last]
            /\ completed' = r.last
            /\ UNCHANGED <<fleetActive, rotating, shipper>>
    /\ UNCHANGED <<nextSeq, objectCovered, tiered, leaderVars, coverVars, batched, rounds,
                   sent, waiting, good, bad, msgs, authorized, laneVars, dirVars, cellVars,
                   attemptVars, barrier>>

\* Activation::wait: the first Fleet proof spawns one attempt to mark the log
\* active in the directory; a failed attempt may be retried, none overlap.
StartActivation(t) ==
    /\ lease /\ activation = "idle" /\ shipper # "stopped" /\ ~rotating
    /\ t \in tickets /\ FollowersCover(t)
    /\ activation' = "persisting"
    /\ UNCHANGED <<gateVars, leaderVars, staged, flush, shipVars, laneVars, dirVars,
                   cellVars, attemptVars, barrier>>

\* NodeDirectory::activate_log: a conditional write of the open record.  It
\* may land and its reply be lost.
PersistActivation(replied) ==
    /\ activation = "persisting"
    /\ phase = "Open" /\ ~active
    /\ active' = TRUE
    /\ activation' = IF replied THEN "confirming" ELSE "idle"
    /\ UNCHANGED <<gateVars, leaderVars, staged, flush, shipVars, laneVars, phase,
                   dirTiered, claimGen, claimLive, recoveredThrough, cellVars, attemptVars,
                   barrier>>

\* The write was refused, or not tried because the lease ended.
ActivationFails ==
    /\ activation = "persisting"
    /\ activation' = "idle"
    /\ UNCHANGED <<gateVars, leaderVars, staged, flush, shipVars, laneVars, dirVars,
                   cellVars, attemptVars, barrier>>

\* gate.activate_fleet after the second lease check.
FinishActivation ==
    /\ activation = "confirming"
    /\ IF lease /\ ~rotating
       THEN activation' = "done" /\ fleetActive' = TRUE
       ELSE activation' = "idle" /\ UNCHANGED fleetActive
    /\ UNCHANGED <<nextSeq, through, objectCovered, tiered, rotating, leaderVars, staged,
                   flush, shipVars, laneVars, dirVars, cellVars, attemptVars, barrier>>

\* DurabilityGate::proof and the final lease check of prove: a command is
\* acknowledged because objects cover it or because the fleet holds it.
ProofHolds(t) == ObjectCovers(t) \/ (fleetActive /\ FollowersCover(t))

Prove(t) ==
    /\ lease /\ t \in tickets /\ ~(Span(t) \subseteq acked)
    /\ ProofHolds(t)
    /\ acked' = acked \cup Span(t)
    /\ UNCHANGED <<gateVars, lease, cellOf, tickets, root, coverVars, shipVars, laneVars,
                   dirVars, cellVars, attemptVars, barrier>>

\* prove_command's other arm: the publication of the command's own root.
ProvePublished(t) ==
    /\ lease /\ t \in tickets /\ ~(Span(t) \subseteq acked)
    /\ \A s \in Span(t) : Published(s)
    /\ acked' = acked \cup Span(t)
    /\ UNCHANGED <<gateVars, lease, cellOf, tickets, root, coverVars, shipVars, laneVars,
                   dirVars, cellVars, attemptVars, barrier>>

\* publish_proposal: the conditional write of the Cell's control record, which
\* publishes the Cell's commits up to one captured ticket.  It was prepared
\* under the lease but may land after it; an attached overlay or a takeover
\* changed the record, and the write fails.
PublishRoot(t) ==
    /\ t \in tickets
    /\ LET c == cellOf[t.first] IN
       /\ t.last > root[c] /\ pin[c] = {} /\ ~taken[c]
       /\ root' = [root EXCEPT ![c] = t.last]
    /\ UNCHANGED <<gateVars, lease, cellOf, tickets, acked, coverVars, shipVars, laneVars,
                   dirVars, cellVars, attemptVars, barrier>>

\* ObjectCoverage::stage: a published ticket waits for the next flush.
Stage(t) ==
    /\ lease /\ t \in tickets \ staged /\ ~ObjectCovers(t)
    /\ \A s \in Span(t) : Published(s)
    /\ staged' = staged \cup {t}
    /\ UNCHANGED <<gateVars, leaderVars, flush, activation, shipVars, laneVars, dirVars,
                   cellVars, attemptVars, barrier>>

\* ObjectCoverage::flush up to the directory write: the contiguous prefix that
\* the staged tickets would reach is written before it is used.
StartFlush ==
    /\ lease /\ flush.stage = "idle" /\ staged # {}
    /\ \E n \in Seqs0 :
          /\ IsPrefixEnd(n, tiered, objectCovered \cup UNION {Span(t) : t \in staged})
          /\ flush' = [stage |-> IF n > tiered THEN "advancing" ELSE "confirming",
                       batch |-> staged, through |-> n]
    /\ UNCHANGED <<gateVars, leaderVars, staged, activation, shipVars, laneVars, dirVars,
                   cellVars, attemptVars, barrier>>

\* NodeDirectory::advance_log_coverage, with its reply or without.
AdvanceCoverage(replied) ==
    /\ flush.stage = "advancing" /\ phase = "Open"
    /\ dirTiered' = IF flush.through > dirTiered THEN flush.through ELSE dirTiered
    /\ flush' = IF replied THEN [flush EXCEPT !.stage = "confirming"] ELSE NoFlush
    /\ UNCHANGED <<gateVars, leaderVars, staged, activation, shipVars, laneVars, phase,
                   active, claimGen, claimLive, recoveredThrough, cellVars, attemptVars,
                   barrier>>

\* The flush is refused, or dropped when the lease ends: its batch stays staged.
FlushFails ==
    /\ flush.stage \in {"advancing", "confirming"}
    /\ flush.stage = "confirming" => ~lease
    /\ flush' = NoFlush
    /\ UNCHANGED <<gateVars, leaderVars, staged, activation, shipVars, laneVars, dirVars,
                   cellVars, attemptVars, barrier>>

\* gate.prove_objects after the lease check.
ConfirmFlush ==
    /\ lease /\ flush.stage = "confirming"
    /\ LET covered == objectCovered \cup UNION {Span(t) : t \in flush.batch} IN
       \E n \in Seqs0 :
          /\ IsPrefixEnd(n, tiered, covered)
          /\ tiered' = n
          /\ objectCovered' = {s \in covered : s > n}
    /\ staged' = staged \ flush.batch
    /\ flush' = NoFlush
    /\ UNCHANGED <<nextSeq, through, fleetActive, rotating, leaderVars, activation,
                   shipVars, laneVars, dirVars, cellVars, attemptVars, barrier>>

\* The lease guard fences, and never revives.
LoseLease ==
    /\ lease
    /\ lease' = FALSE
    /\ UNCHANGED <<gateVars, cellOf, tickets, acked, root, coverVars, shipVars, laneVars,
                   dirVars, cellVars, attemptVars, barrier>>

-----------------------------------------------------------------------------
(***************************************************************************)
(* The follower lanes.                                                     *)
(***************************************************************************)
\* Mutant: a sealed lane still accepts appends.
LaneOpenSealed(m) == retired[m] = NotRetired

LaneOpen(m) == ~sealed[m] /\ retired[m] = NotRetired

\* NodeDirectory::authorize_log_append: the receiver reads the directory, and
\* appends afterwards.
Authorize(q) ==
    /\ q \in msgs \ authorized
    /\ phase = "Open" /\ q.covered <= dirTiered
    /\ authorized' = authorized \cup {q}
    /\ UNCHANGED <<gateVars, leaderVars, coverVars, shipper, batched, rounds, completed,
                   sent, waiting, good, bad, msgs, laneVars, dirVars, cellVars, attemptVars,
                   barrier>>

\* Mutant: the grant's floor ignores the directory's frontier.
OpenGrantUnchecked(m, first) ==
    /\ phase = "Open" /\ LaneOpen(m)
    /\ grant' = [grant EXCEPT ![m] =
           [open |-> TRUE, first |-> first,
            covered |-> first - 1]]
    /\ UNCHANGED <<gateVars, leaderVars, coverVars, shipVars, recs, sealed, retired,
                   dirVars, cellVars, attemptVars, barrier>>

\* FollowerStore::open_append_grant: one signed window read from the directory
\* under the lane's lifecycle lock, with the coverage floor of that moment.
OpenGrant(m, first) ==
    /\ phase = "Open" /\ LaneOpen(m)
    /\ grant' = [grant EXCEPT ![m] =
           [open |-> TRUE, first |-> first,
            covered |-> IF dirTiered < first - 1 THEN dirTiered ELSE first - 1]]
    /\ UNCHANGED <<gateVars, leaderVars, coverVars, shipVars, recs, sealed, retired,
                   dirVars, cellVars, attemptVars, barrier>>

\* The grant expires, or the follower process restarts.
DropGrant(m) ==
    /\ grant[m].open
    /\ grant' = [grant EXCEPT ![m] = NoGrant]
    /\ UNCHANGED <<gateVars, leaderVars, coverVars, shipVars, recs, sealed, retired,
                   dirVars, cellVars, attemptVars, barrier>>

\* The request may append with the coverage floor `covered`: its own, checked
\* against the directory, or the floor of the current grant.
Admitted(q, covered) ==
    /\ q \in msgs
    /\ \/ q \in authorized /\ covered = q.covered
       \/ LET g == grant[q.to] IN
          /\ g.open /\ covered = g.covered
          /\ g.first <= q.first /\ q.last < g.first + GrantWindow

\* prune_covered drops covered records, but keeps those that share a closed
\* chunk with an uncovered one: it drops a prefix no longer than the coverage.
Pruned(m, k) == {s \in recs[m] : s > k}

\* The frames append_sync writes: neither present nor covered.
Fresh(q, kept, covered) == {s \in Span(q) : s \notin kept /\ s > covered}

\* The receipt check of MemberLanes::enqueue, for one round of the request.
ReceiptCovers(r, first, durable) ==
    /\ durable >= r.last
    /\ first # 0 /\ first <= durable + 1
    /\ r.last > r.covered => first <= r.first \/ first <= r.covered + 1

\* run_member's answer: one receipt for every round the request carried.
Answer(q, first, durable) ==
    LET m == q.to
        ok == {r \in Outstanding(m) : ReceiptCovers(r, first, durable)} IN
    IF waiting[m] /\ q.last = sent[m]
    THEN /\ good' = [good EXCEPT ![m] = @ \cup ok]
         /\ bad' = [bad EXCEPT ![m] = @ \cup (Outstanding(m) \ ok)]
         /\ waiting' = [waiting EXCEPT ![m] = FALSE]
    ELSE UNCHANGED <<good, bad, waiting>>

\* append_sync's continuity check: what the lane keeps ends at d, and the fresh
\* frames, if any, follow it.
Continues(q, kept, covered, d) ==
    /\ IsMax(d, kept \cup {covered})
    /\ Fresh(q, kept, covered) = {} \/ Fresh(q, kept, covered) = d + 1 .. q.last

\* The base a receipt names: the first retained record, or the next sequence.
ReceiptBase(S, durable, first) ==
    IF S = {} THEN first = durable + 1 ELSE IsMin(first, S)

\* append_sync: prune, skip what is present or covered, refuse a gap, write and
\* sync the rest, and answer with the retained range.
AppendFrames(q, covered, k) ==
    LET m == q.to
        kept == Pruned(m, k)
        fresh == Fresh(q, kept, covered) IN
    /\ Admitted(q, covered) /\ LaneOpen(m) /\ k <= covered
    /\ \E d \in Seqs0, durable \in Seqs0, first \in 1 .. MaxSeq + 1 :
          /\ Continues(q, kept, covered, d)
          /\ durable = IF fresh = {} THEN d ELSE q.last
          /\ ReceiptBase(kept \cup fresh, durable, first)
          /\ Answer(q, first, durable)
    /\ recs' = [recs EXCEPT ![m] = kept \cup fresh]
    /\ msgs' = msgs \ {q}
    /\ authorized' = authorized \ {q}
    /\ UNCHANGED <<gateVars, leaderVars, coverVars, shipper, batched, rounds, completed,
                   sent, sealed, retired, grant, dirVars, cellVars, attemptVars, barrier>>

\* The append fails after pruning and writing some of the frames: an I/O error,
\* a crash, or a grant that lapsed before the reply.  No receipt is sent; the
\* records that reached the disk stay.
AppendBreaks(q, covered, k, j) ==
    LET m == q.to
        kept == Pruned(m, k) IN
    /\ Admitted(q, covered) /\ LaneOpen(m) /\ k <= covered
    /\ \E d \in Seqs0 :
          /\ IsMax(d, kept \cup {covered})
          /\ d + 1 .. j \subseteq Fresh(q, kept, covered)
          /\ recs' = [recs EXCEPT ![m] = kept \cup (d + 1 .. j)]
    /\ msgs' = msgs \ {q}
    /\ authorized' = authorized \ {q}
    /\ UNCHANGED <<gateVars, leaderVars, coverVars, shipper, batched, rounds, completed,
                   sent, waiting, good, bad, sealed, retired, grant, dirVars, cellVars,
                   attemptVars, barrier>>

\* seal_sync's receipt: the retained range, or what the lane was retired at.
SealReceipt(m, first, durable) ==
    IF retired[m] # NotRetired
    THEN durable = retired[m] /\ first = retired[m] + 1
    ELSE IF recs[m] = {} THEN durable = 0 /\ first = 0
                         ELSE IsMax(durable, recs[m]) /\ IsMin(first, recs[m])

\* FollowerStore::seal: the marker forbids every later append and closes the
\* lane's grants.
SealLane(m) ==
    /\ sealed' = [sealed EXCEPT ![m] = retired[m] = NotRetired]
    /\ grant' = [grant EXCEPT ![m] = NoGrant]
    /\ UNCHANGED <<recs, retired>>

\* retire_sync: the marker replaces the records and the seal.
RetireLane(m, watermark) ==
    /\ \A s \in recs[m] : s <= watermark
    /\ retired[m] \in {NotRetired, watermark}
    /\ retired' = [retired EXCEPT ![m] = watermark]
    /\ recs' = [recs EXCEPT ![m] = {}]
    /\ sealed' = [sealed EXCEPT ![m] = FALSE]
    /\ grant' = [grant EXCEPT ![m] = NoGrant]

-----------------------------------------------------------------------------
(***************************************************************************)
(* A clean close (NodeDurability::shutdown_epoch).                         *)
(***************************************************************************)
\* NodeLogShipper::shutdown stops admission; the rounds already queued still
\* complete.
BeginShutdown ==
    /\ shipper = "running"
    /\ shipper' = "draining"
    /\ UNCHANGED <<gateVars, leaderVars, coverVars, batched, rounds, completed, sent,
                   waiting, good, bad, msgs, authorized, laneVars, dirVars, cellVars,
                   attemptVars, barrier>>

\* run_rounds returns once its queue and its rounds are empty.
DrainShipper ==
    /\ shipper = "draining"
    /\ batched = nextSeq - 1 /\ completed = batched
    /\ StopShipping
    /\ shipper' = "stopped"
    /\ UNCHANGED <<nextSeq, through, objectCovered, tiered, leaderVars, coverVars, batched,
                   rounds, completed, sent, waiting, good, bad, msgs, authorized, laneVars,
                   dirVars, cellVars, attemptVars, barrier>>

\* begin_rotation, once activation is joined and coverage flushed: every issued
\* sequence must be in the object prefix.
BeginRotation ==
    /\ shipper = "stopped" /\ ~barrier
    /\ activation \in {"idle", "done"} /\ flush.stage = "idle" /\ staged = {}
    /\ tiered = nextSeq - 1
    /\ StopShipping
    /\ barrier' = TRUE
    /\ UNCHANGED <<nextSeq, through, objectCovered, tiered, leaderVars, coverVars, shipVars,
                   laneVars, dirVars, cellVars, attemptVars>>

\* retire_node_log: the member checks the directory and retires its lane at the
\* covered watermark; a member that does not answer is left as it is.
RetireMember(m) ==
    /\ barrier /\ phase = "Open" /\ dirTiered = tiered
    /\ RetireLane(m, tiered)
    /\ UNCHANGED <<gateVars, leaderVars, coverVars, shipVars, dirVars, cellVars,
                   attemptVars, barrier>>

\* rotate_log or close_log: the conditional write that ends the epoch.
CloseLog ==
    /\ barrier /\ phase = "Open" /\ dirTiered = tiered
    /\ phase' = "Closed"
    /\ UNCHANGED <<gateVars, leaderVars, coverVars, shipVars, laneVars, active, dirTiered,
                   claimGen, claimLive, recoveredThrough, cellVars, attemptVars, barrier>>

-----------------------------------------------------------------------------
(***************************************************************************)
(* Recovery.  Every step but the two directory writes works on what the    *)
(* worker read earlier, and a worker whose claim lapsed may still run.     *)
(***************************************************************************)
\* A fresh attempt of worker c: no receipt, no witness, the controls as they are.
StartAttempt(c) ==
    /\ stage' = [stage EXCEPT ![c] = "sealing"]
    /\ seals' = [seals EXCEPT ![c] = [m \in Members |-> NoReceipt]]
    /\ witness' = [witness EXCEPT ![c] = 0]
    /\ base' = [base EXCEPT ![c] = root]
    /\ seen' = [seen EXCEPT ![c] = pin]
    /\ needs' = [needs EXCEPT ![c] = {}]
    /\ manifest' = [manifest EXCEPT ![c] = NoTails]

\* claim_expired_inner: the open advertisement becomes a tombstone, or a lapsed
\* claim is taken over with the next generation.  The worker lists the Cells
\* of the dead session and keeps the version of each control it read.
Claim(c) ==
    /\ claimGen < MaxClaims
    /\ \/ phase = "Open"
       \/ phase = "Recovering" /\ ~claimLive
    /\ phase' = "Recovering"
    /\ claimGen' = claimGen + 1 /\ claimLive' = TRUE
    /\ gen' = [gen EXCEPT ![c] = claimGen + 1]
    /\ StartAttempt(c)
    /\ UNCHANGED <<gateVars, leaderVars, coverVars, shipVars, laneVars, active, dirTiered,
                   recoveredThrough, cellVars, barrier>>

ExpireClaim ==
    /\ claimLive
    /\ claimLive' = FALSE
    /\ UNCHANGED <<gateVars, leaderVars, coverVars, shipVars, laneVars, phase, active,
                   dirTiered, claimGen, recoveredThrough, cellVars, attemptVars, barrier>>

\* authorize_log_recovery: the exact, unexpired claim of the tombstone.  A
\* generation is given to one claimant only, so it stands for both.
HoldsClaim(c) == phase = "Recovering" /\ claimLive /\ gen[c] = claimGen

\* One seal request of ensure_sealed: the member checks the claim and seals.
SealMember(c, m) ==
    /\ stage[c] = "sealing" /\ seals[c][m].kind = "none"
    /\ HoldsClaim(c)
    /\ SealLane(m)
    /\ \E first \in 0 .. MaxSeq + 1, durable \in Seqs0 :
          /\ SealReceipt(m, first, durable)
          /\ seals' = [seals EXCEPT ![c][m] =
                          [kind |-> "ok", base |-> first, durable |-> durable]]
    /\ UNCHANGED <<gateVars, leaderVars, coverVars, shipVars, dirVars, cellVars, stage, gen,
                   witness, base, seen, needs, manifest, barrier>>

\* The member does not answer; it may have sealed its lane all the same.
SealUnanswered(c, m, landed) ==
    /\ stage[c] = "sealing" /\ seals[c][m].kind = "none"
    /\ seals' = [seals EXCEPT ![c][m] = FailedReceipt]
    /\ IF landed THEN HoldsClaim(c) /\ SealLane(m) ELSE UNCHANGED laneVars
    /\ UNCHANGED <<gateVars, leaderVars, coverVars, shipVars, dirVars, cellVars, stage, gen,
                   witness, base, seen, needs, manifest, barrier>>

Sealers(c) == {m \in Members : seals[c][m].kind = "ok"}

\* The longest sealed tail, which some member holds whole above the object
\* prefix.  An active log needs at least one sealed member.
IsWitness(c, d) ==
    LET durables == {seals[c][m].durable : m \in Sealers(c)} IN
    IF \A x \in durables : x <= dirTiered
    THEN (active => durables # {}) /\ d = dirTiered
    ELSE /\ IsMax(d, durables)
         /\ \E m \in Sealers(c) : /\ seals[c][m].durable = d
                                  /\ seals[c][m].base <= dirTiered + 1
                                  /\ dirTiered + 1 .. d \subseteq recs[m]

\* The rest of ensure_sealed: the members' receipts are in, a witness is chosen
\* and its tail is read.
CollectWitness(c, d) ==
    /\ stage[c] = "sealing"
    /\ \A m \in Members : seals[c][m].kind # "none"
    /\ IsWitness(c, d)
    /\ stage' = [stage EXCEPT ![c] = "planning"]
    /\ witness' = [witness EXCEPT ![c] = d]
    /\ UNCHANGED <<gateVars, leaderVars, coverVars, shipVars, laneVars, dirVars, cellVars,
                   gen, seals, base, seen, needs, manifest, barrier>>

\* recoverable_cells_from_scopes: one control is read again before the attempt.
ReadControl(c, x) ==
    /\ stage[c] \in {"sealing", "planning"}
    /\ <<base[c][x], seen[c][x]>> # <<root[x], pin[x]>>
    /\ base' = [base EXCEPT ![c][x] = root[x]]
    /\ seen' = [seen EXCEPT ![c][x] = pin[x]]
    /\ UNCHANGED <<gateVars, leaderVars, coverVars, shipVars, laneVars, dirVars, cellVars,
                   stage, gen, seals, witness, needs, manifest, barrier>>

\* Mutant: the tail skips the first frame after the root.
TailOffByOne(c, x) == {s \in dirTiered + 1 .. witness[c] : cellOf[s] = x /\ s > base[c][x] + 1}

\* The tail of Cell x in the witness, beyond the root the worker read.
Tail(c, x) == {s \in dirTiered + 1 .. witness[c] : cellOf[s] = x /\ s > base[c][x]}

\* The manifests an attempt may attach: its own tails when no overlay names one
\* yet; otherwise the one manifest that every overlay names, if it holds exactly
\* these tails (pin_reconciled).
Pinnable(c) ==
    LET tails == [x \in Cells |-> Tail(c, x)]
        found == UNION {seen[c][x] : x \in Cells} IN
    IF found = {} \/ \A x \in Cells : tails[x] = {}
    THEN {tails}
    ELSE {f \in found : found = {f} /\ \A x \in Cells : tails[x] # {} => f[x] = tails[x]}

\* recover_attempt up to the attachments.
PlanRecovery(c) ==
    /\ stage[c] = "planning"
    /\ \E f \in Pinnable(c) : manifest' = [manifest EXCEPT ![c] = f]
    /\ needs' = [needs EXCEPT ![c] = {x \in Cells : Tail(c, x) # {}}]
    /\ stage' = [stage EXCEPT ![c] = "attaching"]
    /\ UNCHANGED <<gateVars, leaderVars, coverVars, shipVars, laneVars, dirVars, cellVars,
                   gen, seals, witness, base, seen, barrier>>

\* Transition::AttachRecovery: a conditional write of the version that was read.
AttachRecovery(c, x) ==
    /\ stage[c] = "attaching" /\ x \in needs[c]
    /\ seen[c][x] = {} /\ pin[x] = {} /\ root[x] = base[c][x] /\ ~taken[x]
    /\ pin' = [pin EXCEPT ![x] = {manifest[c]}]
    /\ UNCHANGED <<gateVars, leaderVars, coverVars, shipVars, laneVars, dirVars, taken,
                   attemptVars, barrier>>

\* An attempt that failed anywhere starts over while its claim lives.
RetryRecovery(c) ==
    /\ stage[c] \in {"planning", "attaching"} \/ \E m \in Members : seals[c][m].kind # "none"
    /\ HoldsClaim(c)
    /\ StartAttempt(c)
    /\ UNCHANGED <<gateVars, leaderVars, coverVars, shipVars, laneVars, dirVars, cellVars,
                   gen, barrier>>

\* Mutant: the log is sealed before its tails are pinned.
SealRecoveryUnpinned(c) ==
    /\ stage[c] = "attaching"
    /\ HoldsClaim(c)
    /\ phase' = "Sealed"
    /\ claimLive' = FALSE
    /\ recoveredThrough' = witness[c]
    /\ UNCHANGED <<gateVars, leaderVars, coverVars, shipVars, laneVars, active, dirTiered,
                   claimGen, cellVars, attemptVars, barrier>>

\* seal_recovery_prepared: every tail is pinned, and the exact claim still holds.
SealRecovery(c) ==
    /\ stage[c] = "attaching"
    /\ \A x \in needs[c] : pin[x] = {manifest[c]}
    /\ HoldsClaim(c)
    /\ phase' = "Sealed"
    /\ claimLive' = FALSE
    /\ recoveredThrough' = witness[c]
    /\ UNCHANGED <<gateVars, leaderVars, coverVars, shipVars, laneVars, active, dirTiered,
                   claimGen, cellVars, attemptVars, barrier>>

\* FollowerStore::retire_recovered: an active lane is retired at its own seal.
RetireRecoveredMember(m) ==
    /\ phase \in {"Sealed", "Retired"}
    /\ active \/ recs[m] = {}
    /\ \E w \in Seqs0 :
          /\ IF retired[m] # NotRetired THEN w = retired[m]
             ELSE /\ active => sealed[m]
                  /\ IF recs[m] = {} THEN w = 0 ELSE IsMax(w, recs[m])
          /\ RetireLane(m, w)
    /\ UNCHANGED <<gateVars, leaderVars, coverVars, shipVars, dirVars, cellVars,
                   attemptVars, barrier>>

\* retire_recovered_log, once every member confirmed.
RetireRecoveredLog ==
    /\ phase = "Sealed" /\ \A m \in Members : retired[m] # NotRetired
    /\ phase' = "Retired"
    /\ UNCHANGED <<gateVars, leaderVars, coverVars, shipVars, laneVars, active, dirTiered,
                   claimGen, claimLive, recoveredThrough, cellVars, attemptVars, barrier>>

\* takeover_proof: the dead session's log is closed, recovered, or was never
\* active.
TakeoverReady == \/ phase \in {"Closed", "Sealed", "Retired"}
                 \/ phase = "Recovering" /\ ~active

\* Transition::Takeover of one Cell: another node owns its control record.
Takeover(x) ==
    /\ TakeoverReady /\ ~taken[x]
    /\ taken' = [taken EXCEPT ![x] = TRUE]
    /\ UNCHANGED <<gateVars, leaderVars, coverVars, shipVars, laneVars, dirVars, pin,
                   attemptVars, barrier>>

-----------------------------------------------------------------------------
LeaderNext ==
    \/ \E c \in Cells, n \in 1 .. MaxFrames : Issue(c, n)
    \/ \E last \in Seqs : Batch(last)
    \/ \E m \in Members, last \in Seqs : Send(m, last)
    \/ \E m \in Members : RequestFails(m)
    \/ \E r \in rounds : CompleteRound(r)
    \/ \E t \in tickets : \/ StartActivation(t) \/ Prove(t) \/ ProvePublished(t)
                          \/ PublishRoot(t) \/ Stage(t)
    \/ \E replied \in BOOLEAN : PersistActivation(replied) \/ AdvanceCoverage(replied)
    \/ ActivationFails \/ FinishActivation
    \/ StartFlush \/ FlushFails \/ ConfirmFlush
    \/ LoseLease
    \/ BeginShutdown \/ DrainShipper \/ BeginRotation \/ CloseLog
    \/ \E m \in Members : RetireMember(m)

FollowerNext ==
    \/ \E q \in msgs : Authorize(q)
    \/ \E m \in Members, first \in Seqs : OpenGrant(m, first)
    \/ \E m \in Members : DropGrant(m)
    \/ \E q \in msgs, covered \in Seqs0, k \in Seqs0 :
          \/ AppendFrames(q, covered, k)
          \/ \E j \in Seqs0 : AppendBreaks(q, covered, k, j)

RecoveryNext ==
    \/ ExpireClaim
    \/ \E c \in Claimants :
          \/ Claim(c)
          \/ \E m \in Members : SealMember(c, m)
          \/ \E m \in Members, landed \in BOOLEAN : SealUnanswered(c, m, landed)
          \/ \E d \in Seqs0 : CollectWitness(c, d)
          \/ \E x \in Cells : ReadControl(c, x) \/ AttachRecovery(c, x)
          \/ PlanRecovery(c) \/ RetryRecovery(c) \/ SealRecovery(c)
    \/ \E m \in Members : RetireRecoveredMember(m)
    \/ RetireRecoveredLog
    \/ \E x \in Cells : Takeover(x)

Next == LeaderNext \/ FollowerNext \/ RecoveryNext
Spec == Init /\ [][Next]_vars

-----------------------------------------------------------------------------
(***************************************************************************)
(* What the log promises.                                                  *)
(***************************************************************************)
\* The frame is under the published root or in the recovery overlay from which
\* the next owner of its Cell starts.
Recoverable(s) == Published(s) \/ \E f \in pin[cellOf[s]] : s \in f[cellOf[s]]

GateTypes ==
    /\ nextSeq \in 1 .. MaxSeq + 1
    /\ through \in [Members -> Seqs0]
    /\ objectCovered \in SUBSET Seqs
    /\ tiered \in Seqs0

LeaderTypes ==
    /\ cellOf \in [1 .. nextSeq - 1 -> Cells]
    /\ tickets \in SUBSET Tickets
    /\ acked \in SUBSET Seqs
    /\ root \in [Cells -> Seqs0]

CoverTypes ==
    /\ staged \in SUBSET Tickets
    /\ flush \in Flushes
    /\ activation \in {"idle", "persisting", "confirming", "done"}

ShipTypes ==
    /\ shipper \in {"running", "draining", "stopped"}
    /\ batched \in Seqs0
    /\ rounds \in SUBSET Rounds
    /\ completed \in Seqs0
    /\ sent \in [Members -> Seqs0]
    /\ waiting \in [Members -> BOOLEAN]
    /\ good \in [Members -> SUBSET Rounds]
    /\ bad \in [Members -> SUBSET Rounds]
    /\ msgs \in SUBSET Requests
    /\ authorized \in SUBSET Requests

LaneTypes ==
    /\ recs \in [Members -> SUBSET Seqs]
    /\ sealed \in [Members -> BOOLEAN]
    /\ retired \in [Members -> Seqs0 \cup {NotRetired}]
    /\ grant \in [Members -> Grants]

DirTypes ==
    /\ phase \in {"Open", "Recovering", "Sealed", "Retired", "Closed"}
    /\ dirTiered \in Seqs0
    /\ claimGen \in 0 .. MaxClaims
    /\ recoveredThrough \in Seqs0

CellTypes ==
    /\ pin \in [Cells -> SUBSET Manifests]
    /\ taken \in [Cells -> BOOLEAN]

AttemptTypes ==
    /\ stage \in [Claimants -> {"idle", "sealing", "planning", "attaching"}]
    /\ gen \in [Claimants -> 0 .. MaxClaims]
    /\ seals \in [Claimants -> [Members -> Receipts]]
    /\ witness \in [Claimants -> Seqs0]
    /\ base \in [Claimants -> [Cells -> Seqs0]]
    /\ seen \in [Claimants -> [Cells -> SUBSET Manifests]]
    /\ needs \in [Claimants -> SUBSET Cells]
    /\ manifest \in [Claimants -> Manifests]

FlagTypes ==
    /\ fleetActive \in BOOLEAN
    /\ rotating \in BOOLEAN
    /\ lease \in BOOLEAN
    /\ active \in BOOLEAN
    /\ claimLive \in BOOLEAN
    /\ barrier \in BOOLEAN

\* Type correctness of the gate, the lanes, the directory record and the attempts.
TypeOK ==
    /\ GateTypes /\ LeaderTypes /\ CoverTypes /\ ShipTypes
    /\ LaneTypes /\ DirTypes /\ CellTypes /\ AttemptTypes /\ FlagTypes

\* Nothing acknowledged is lost by a takeover: once the directory lets another
\* node take the dead session's Cells, every frame that was acknowledged, or is
\* acknowledged later by the old process, is under its Cell's published root or
\* in the overlay the new owner starts from (takeover_proof, seal_recovery).
AckedSurvivesTakeover == TakeoverReady => \A s \in acked : Recoverable(s)

\* A follower never drops a frame whose object coverage is not in the directory:
\* what a lane holds above the directory's frontier is gap-free up to its last
\* record (append_sync, prune_covered).
LaneKeepsUncovered ==
    \A m \in Members : \A r \in recs[m], s \in Seqs :
        dirTiered < s /\ s <= r => s \in recs[m]

\* The directory's reclamation frontier never passes an unpublished frame, and
\* the gate never runs ahead of the directory (ObjectCoverage::flush).
FrontierIsPublished ==
    /\ tiered <= dirTiered
    /\ \A s \in 1 .. dirTiered : Published(s)

\* Fleet proofs are released only for a log the directory marks active, so that
\* recovery cannot skip it (Activation::wait).
FleetNeedsActive ==
    \A s \in acked : Published(s) \/ (active /\ \A m \in Members : s <= through[m])

\* A recovery overlay continues its Cell's root without a gap: every frame of the
\* Cell between the root and the overlay's last frame is in the overlay
\* (StreamingRecovery, attach_recovery).
OverlayContinuesRoot ==
    \A x \in Cells : \A f \in pin[x] : \A last \in f[x], s \in 1 .. nextSeq - 1 :
        cellOf[s] = x /\ root[x] < s /\ s < last => s \in f[x]

-----------------------------------------------------------------------------
(***************************************************************************)
(* The inductive invariant behind AckedSurvivesTakeover.                   *)
(***************************************************************************)
Held(m, s) == s \in recs[m] \/ s <= dirTiered

\* Tickets are issued, and each belongs to one Cell.
TicketInv ==
    /\ \A t \in tickets : /\ t.first <= t.last /\ t.last < nextSeq
                          /\ \A s \in Span(t) : cellOf[s] = cellOf[t.first]
    /\ staged \subseteq tickets /\ flush.batch \subseteq tickets

\* Rounds carry issued frames, and the gate follows the completed rounds.
RoundInv ==
    /\ batched < nextSeq /\ completed < nextSeq
    /\ \A r \in rounds : r.first <= r.last /\ r.last <= batched
    /\ \A m \in Members : /\ sent[m] <= batched
                          /\ good[m] \subseteq rounds
                          /\ through[m] = completed

\* Requests and lanes hold issued frames; a retired lane holds none.
LaneInv ==
    /\ authorized \subseteq msgs
    /\ \A q \in msgs : q.last < nextSeq
    /\ \A m \in Members : \A s \in recs[m] : s < nextSeq
    /\ \A m \in Members : retired[m] # NotRetired => recs[m] = {}

\* Every watermark is below the next sequence.
MarkInv ==
    /\ \A s \in acked \cup objectCovered : s < nextSeq
    /\ tiered < nextSeq /\ dirTiered < nextSeq /\ flush.through < nextSeq
    /\ recoveredThrough < nextSeq
    /\ \A c \in Claimants : witness[c] < nextSeq

\* What counts as covered by objects is published.
CoverageInv ==
    /\ \A t \in staged \cup flush.batch : \A s \in Span(t) : Published(s)
    /\ \A s \in objectCovered : Published(s)
    /\ \A s \in 1 .. flush.through : Published(s)
    /\ \A s \in 1 .. dirTiered : Published(s)

\* The prefix a flush writes to the directory is the one it confirms later.
FlushInv ==
    /\ tiered <= dirTiered
    /\ flush.stage # "idle" =>
         IsPrefixEnd(flush.through, tiered, objectCovered \cup UNION {Span(t) : t \in flush.batch})
    /\ flush.stage = "confirming" => flush.through <= dirTiered

\* A Fleet acknowledgement rests on a persisted activation.
ActivationInv ==
    /\ fleetActive => active
    /\ activation = "confirming" => active

\* The close of an epoch leaves nothing uncovered.
CloseInv ==
    /\ barrier => rotating /\ tiered = nextSeq - 1
    /\ phase = "Closed" => rotating /\ dirTiered = nextSeq - 1

\* Receivers prune no further than the directory's frontier.
PermitInv ==
    /\ \A q \in authorized : q.covered <= dirTiered
    /\ \A m \in Members : grant[m].covered <= dirTiered

\* A member that acknowledged a frame holds it until the log is recovered.
HeldInv ==
    phase \notin {"Sealed", "Retired"} =>
        \A m \in Members :
            /\ \A r \in good[m] : \A s \in Span(r) : Held(m, s)
            /\ \A s \in 1 .. through[m] : Held(m, s)

\* A seal receipt bounds what its lane will ever hold.
SealInv ==
    /\ phase \in {"Open", "Closed"} => \A c \in Claimants : stage[c] = "idle"
    /\ phase = "Recovering" =>
        \A c \in Claimants, m \in Members :
            stage[c] # "idle" /\ seals[c][m].kind = "ok" =>
                ~LaneOpen(m) /\ \A s \in recs[m] : s <= seals[c][m].durable

\* A witness of an active log reaches everything some closed lane holds.
WitnessInv ==
    phase = "Recovering" =>
        \A c \in Claimants : stage[c] \in {"planning", "attaching"} =>
            /\ dirTiered <= witness[c]
            /\ active => \E m \in Members :
                            ~LaneOpen(m) /\ \A s \in recs[m] : s <= witness[c]

\* The planned overlays hold every unpublished frame of the witness.
PlanInv ==
    /\ \A c \in Claimants, x \in Cells : base[c][x] <= root[x]
    /\ phase = "Recovering" =>
        \A c \in Claimants : stage[c] = "attaching" =>
            \A s \in dirTiered + 1 .. witness[c] :
                \/ Published(s)
                \/ cellOf[s] \in needs[c] /\ s \in manifest[c][cellOf[s]]

\* An attempt attaches the tails it computed, and overlays hold issued frames.
TailInv ==
    /\ \A c \in Claimants : stage[c] = "attaching" =>
          \A x \in needs[c] : manifest[c][x] = Tail(c, x)
    /\ \A x \in Cells : \A f \in pin[x] : \A s \in f[x] : s < nextSeq

\* A sealed recovery reaches everything some closed member acknowledged.
RecoveredInv ==
    phase \in {"Sealed", "Retired"} =>
        /\ \A s \in 1 .. recoveredThrough : Recoverable(s)
        /\ active => \E m \in Members :
              /\ ~LaneOpen(m)
              /\ through[m] <= recoveredThrough
              /\ \A r \in good[m] : r.last <= recoveredThrough

\* What is in use was issued.
IssuedInv == TicketInv /\ RoundInv /\ LaneInv /\ MarkInv

\* What is covered is published, and what is acknowledged is held.
CoveredInv == /\ CoverageInv /\ FlushInv /\ ActivationInv /\ CloseInv
              /\ FleetNeedsActive /\ PermitInv /\ LaneKeepsUncovered /\ HeldInv

\* Recovery reaches what was acknowledged.
RecoveryInv == /\ SealInv /\ WitnessInv /\ PlanInv
               /\ TailInv /\ OverlayContinuesRoot /\ RecoveredInv

\* The inductive invariant of the node log, in the three layers of its proof:
\* issued before used, published before covered, sealed before recovered.
IInv == TypeOK /\ IssuedInv /\ CoveredInv /\ RecoveryInv
=============================================================================
