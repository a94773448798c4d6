--------------------------- MODULE CellAuthority ---------------------------
(***************************************************************************)
(* The authority record of one Cell and the node sessions that compete for *)
(* it.  The record ("control") is one object, replaced only by conditional *)
(* updates against the token a session last observed.  Nothing else says   *)
(* who owns the Cell and which root holds its data.                        *)
(*                                                                         *)
(* A session creates the record, takes it over from a dead or an absent    *)
(* owner, materializes a pinned recovery overlay, activates, publishes     *)
(* roots, renews, migrates and releases.  Every reply of the object store  *)
(* may be lost, a request the client gave up on may still land later, and  *)
(* a session may lose its lease or crash between any two steps.            *)
(*                                                                         *)
(* A root is the sequence of commits it holds; the empty sequence is "no   *)
(* root".  An overlay is the root it materializes to.  The update token is *)
(* the record itself: two equal records have equal tokens in a store whose *)
(* tokens are content hashes, so the model keeps that hazard.  progress is *)
(* left out: every transition adds one to it and to revision alike.        *)
(***************************************************************************)
EXTENDS Integers, SequencesExt, FiniteSetsExt

CONSTANTS
    Sessions,     \* node sessions; a rebooted node is a new session
    Setups,       \* the fleets explored, each fixed for a whole behaviour: the sessions that
                  \*   run under a node lease guard, and bounds on revisions and schemas
    None,         \* no owner
    MaxCommits,   \* bound: SQL commits made
    MaxLost       \* bound: lost replies and failed history writes

ASSUME SessionsAssumption == None \notin Sessions
ASSUME SetupsAssumption ==
    Setups \subseteq [leased : SUBSET Sessions, revisions : Nat \ {0}, schemas : Nat \ {0}]
ASSUME BoundsAssumption == MaxCommits \in Nat /\ MaxLost \in Nat

MaxRevision == Max({u.revisions : u \in Setups})
MaxSchema == Max({u.schemas : u \in Setups})

VARIABLES
    control,      \* the record in the object store
    late,         \* updates whose sender stopped waiting, still on their way
    history,      \* the retained owner observation of every epoch
    acquisition,  \* the retained input and materialized record of every claim
    setup,        \* the fleet
    lease,        \* may the session still prove its lease?
    recovered,    \* ended sessions whose node log is sealed: takeover proofs
    role,         \* what the session is doing with the Cell
    op, wire,     \* its running update, and how far that update got
    obs, nxt,     \* the record it observed, and the successor it proposes
    input, claim, \* the record it replaced, and the claim a rollback compares
    log,          \* the history its SQL executor captured this epoch
    migrations,   \* the commits that raise the schema stored in the database
    acked,        \* commits acknowledged to clients
    made, lost    \* counters: commits made, replies lost

storeVars == <<control, late, history, acquisition>>
nodeVars == <<setup, lease, recovered>>
localVars == <<role, op, wire, obs, nxt, input, claim, log>>
madeVars == <<made, migrations>>
vars == <<storeVars, nodeVars, localVars, acked, madeVars, lost>>

Roots == Seq(1 .. MaxCommits)
Epochs == 1 .. MaxRevision
Controls == [epoch : 0 .. MaxRevision, revision : 0 .. MaxRevision,
             state : {"Absent", "Recovering", "Serving", "Idle"},
             owner : Sessions \cup {None}, root : Roots, recovery : Roots,
             schema : 1 .. MaxSchema]
Absent == [epoch |-> 0, revision |-> 0, state |-> "Absent", owner |-> None,
           root |-> <<>>, recovery |-> <<>>, schema |-> 1]
NoClaim == [input |-> Absent, materialized |-> Absent]

Init ==
    /\ control = Absent
    /\ late = {}
    /\ history = [e \in Epochs |-> Absent]
    /\ acquisition = [e \in Epochs |-> NoClaim]
    /\ setup \in Setups
    /\ lease = [s \in Sessions |-> TRUE]
    /\ recovered = {}
    /\ role = [s \in Sessions |-> "out"]
    /\ op = [s \in Sessions |-> "none"]
    /\ wire = [s \in Sessions |-> "idle"]
    /\ obs = [s \in Sessions |-> Absent]
    /\ nxt = [s \in Sessions |-> Absent]
    /\ input = [s \in Sessions |-> Absent]
    /\ claim = [s \in Sessions |-> Absent]
    /\ log = [s \in Sessions |-> <<>>]
    /\ acked = {}
    /\ made = 0 /\ migrations = {}
    /\ lost = 0

-----------------------------------------------------------------------------
(* Successors of a record, and the transitions validate_transition accepts. *)

Initial(s) == [Absent EXCEPT !.epoch = 1, !.revision = 1, !.state = "Recovering", !.owner = s]
Renewed(c) == [c EXCEPT !.revision = @ + 1]
Activated(c) == [c EXCEPT !.revision = @ + 1, !.state = "Serving"]
\* Mutant: the claim drops the pinned overlay.
TakenOverBare(c, s) == [c EXCEPT !.epoch = @ + 1, !.revision = @ + 1, !.state = "Recovering",
                                 !.owner = s, !.recovery = <<>>]
TakenOver(c, s) == [c EXCEPT !.epoch = @ + 1, !.revision = @ + 1, !.state = "Recovering",
                             !.owner = s]
RecoveryAttached(c, tail) == [c EXCEPT !.revision = @ + 1, !.recovery = tail]
RecoveryPublished(c) == [c EXCEPT !.revision = @ + 1, !.root = c.recovery, !.recovery = <<>>]
Published(c, cut) == [c EXCEPT !.revision = @ + 1, !.state = "Serving", !.root = cut]
Migrated(c, cut) == [Published(c, cut) EXCEPT !.schema = @ + 1]
Released(c) == [c EXCEPT !.revision = @ + 1, !.state = "Idle", !.owner = None]

CanActivate(c) == c.state = "Recovering" /\ c.root # <<>> /\ c.recovery = <<>>
CanPublish(c) == c.state \in {"Recovering", "Serving"} /\ c.recovery = <<>>
CanRelease(c) == c.state \in {"Recovering", "Serving"} /\ c.root # <<>> /\ c.recovery = <<>>

\* c is o, or o after renewals and nothing else.
PureRenewal(c, o) == c.revision >= o.revision /\ [c EXCEPT !.revision = o.revision] = o

-----------------------------------------------------------------------------
(* The conditional update, its lost replies, and the retained history. *)

\* The publisher's node lease check; a session without a guard always passes.
Checked(s) == s \in setup.leased => lease[s]

Set(f, s, v) == [f EXCEPT ![s] = v]

\* Mutant: the departing owner is not retained before the update.
SendUnretained(s, o, c, n) ==
    /\ n.revision <= setup.revisions
    /\ op' = Set(op, s, o) /\ obs' = Set(obs, s, c) /\ nxt' = Set(nxt, s, n)
    /\ wire' = Set(wire, s, "sent")

\* transition(): validate, retain a departing owner first, then update against c.
Send(s, o, c, n) ==
    /\ n.revision <= setup.revisions
    /\ op' = Set(op, s, o) /\ obs' = Set(obs, s, c) /\ nxt' = Set(nxt, s, n)
    /\ wire' = Set(wire, s, IF c.owner # None /\ c.owner # n.owner THEN "retain" ELSE "sent")

\* The session holds no update: its op ended, and it is in role r with record c.
Settle(s, r, c) ==
    /\ role' = Set(role, s, r) /\ obs' = Set(obs, s, c) /\ nxt' = Set(nxt, s, Absent)
    /\ op' = Set(op, s, "none") /\ wire' = Set(wire, s, "idle")

\* The session leaves the Cell; its captured history stays in its node log.
Leave(s) ==
    /\ Settle(s, "out", Absent)
    /\ input' = Set(input, s, Absent) /\ claim' = Set(claim, s, Absent)

\* retain_owner keeps the newest observation of the epoch.
RetainOwner(s) ==
    /\ wire[s] = "retain"
    /\ LET e == obs[s].epoch IN
       history' = IF history[e].revision >= obs[s].revision THEN history
                  ELSE Set(history, e, obs[s])
    /\ wire' = Set(wire, s, "sent")
    /\ UNCHANGED <<control, late, acquisition, nodeVars, role, op, obs, nxt, input, claim, log,
                   acked, madeVars, lost>>

\* The history write failed and its re-read did not confirm it.
RetainFails(s) ==
    /\ wire[s] = "retain" /\ lost < MaxLost
    /\ wire' = Set(wire, s, "lost")
    /\ lost' = lost + 1
    /\ UNCHANGED <<storeVars, nodeVars, role, op, obs, nxt, input, claim, log, acked, madeVars>>

\* The object store handles the update.
StoreUpdate(s) ==
    /\ wire[s] = "sent"
    /\ \/ /\ control = obs[s]
          /\ control' = nxt[s]
          /\ wire' = Set(wire, s, "ok")
       \/ /\ control # obs[s]
          /\ wire' = Set(wire, s, "conflict")
          /\ UNCHANGED control
    /\ UNCHANGED <<late, history, acquisition, nodeVars, role, op, obs, nxt, input, claim, log,
                   acked, madeVars, lost>>

\* The client sees a transport error or a timeout, or its reload fails; the
\* update may have landed, may never land, or may land at any later time.
LoseReply(s) ==
    /\ wire[s] \in {"sent", "ok", "conflict"} /\ lost < MaxLost
    /\ late' = IF wire[s] = "sent" THEN late \cup {[expect |-> obs[s], next |-> nxt[s]]} ELSE late
    /\ wire' = Set(wire, s, "lost")
    /\ lost' = lost + 1
    /\ UNCHANGED <<control, history, acquisition, nodeVars, role, op, obs, nxt, input, claim, log,
                   acked, madeVars>>

LateUpdate(w) ==
    /\ control = w.expect
    /\ control' = w.next
    /\ late' = late \ {w}
    /\ UNCHANGED <<history, acquisition, nodeVars, localVars, acked, madeVars, lost>>

Failed(s) == wire[s] \in {"conflict", "lost"}

-----------------------------------------------------------------------------
(* Acquisition: creation, idle acquisition, takeover, recovery, activation. *)

CreateInitial(s) ==
    /\ role[s] = "out" /\ op[s] = "none" /\ lease[s]
    /\ control \in {Absent, Initial(s)}
    /\ Send(s, "create", Absent, Initial(s))
    /\ UNCHANGED <<storeVars, nodeVars, role, input, claim, log, acked, madeVars, lost>>

\* A created record, or one found equal after an error, may be bootstrapped.
CreateEnds(s) ==
    /\ op[s] = "create"
    /\ \/ /\ wire[s] = "ok" \/ (Failed(s) /\ control = nxt[s])
          /\ Settle(s, "bootstrap", nxt[s])
          /\ log' = Set(log, s, <<>>)
          /\ UNCHANGED <<input, claim>>
       \/ /\ Failed(s) /\ control # nxt[s]
          /\ Leave(s)
          /\ UNCHANGED log
    /\ UNCHANGED <<storeVars, nodeVars, acked, madeVars, lost>>

\* The session of the owner ended, and a takeover proof names it.
Proven(s, c) == c.owner \in recovered /\ c.owner # s

\* The three ways to a record: nobody's, a dead session's before its first
\* root, and a dead session's with a root.
IdleClaimable(c) == c.state = "Idle" /\ c.root # <<>>
UnpublishedClaimable(s, c) == c.state = "Recovering" /\ c.root = <<>> /\ Proven(s, c)
RestoredClaimable(s, c) == c.state \in {"Recovering", "Serving"} /\ c.root # <<>> /\ Proven(s, c)

\* Mutant: takeover needs no proof that the owner's session was sealed.
MayClaimUnproven(s, c) == c.owner # s /\ c # Absent
MayClaim(s, c) == IdleClaimable(c) \/ UnpublishedClaimable(s, c) \/ RestoredClaimable(s, c)

Claim(s) ==
    /\ role[s] = "out" /\ op[s] = "none" /\ lease[s]
    /\ MayClaim(s, control)
    /\ Send(s, "takeover", control, TakenOver(control, s))
    /\ UNCHANGED <<storeVars, nodeVars, role, input, claim, log, acked, madeVars, lost>>

\* An exact successor counts as won even when its reply was lost.
ClaimEnds(s) ==
    /\ op[s] = "takeover"
    /\ \/ /\ wire[s] = "ok" \/ (Failed(s) /\ control = nxt[s])
          /\ Settle(s, "claimed", nxt[s])
          /\ input' = Set(input, s, obs[s])
          /\ claim' = Set(claim, s, nxt[s])
          /\ log' = Set(log, s, <<>>)
       \/ /\ Failed(s) /\ control # nxt[s]
          /\ Leave(s)
          /\ UNCHANGED log
    /\ UNCHANGED <<storeVars, nodeVars, acked, madeVars, lost>>

\* publish_attached_recovery: the overlay becomes the root before anything opens.
Materialize(s) ==
    /\ role[s] = "claimed" /\ op[s] = "none" /\ lease[s]
    /\ obs[s].recovery # <<>>
    /\ Send(s, "materialize", obs[s], RecoveryPublished(obs[s]))
    /\ UNCHANGED <<storeVars, nodeVars, role, input, claim, log, acked, madeVars, lost>>

MaterializeEnds(s) ==
    /\ op[s] = "materialize"
    /\ \/ /\ wire[s] = "ok" \/ (Failed(s) /\ control = nxt[s])
          /\ Settle(s, "claimed", nxt[s])
          /\ claim' = Set(claim, s, nxt[s])
       \/ /\ Failed(s) /\ control # nxt[s]
          /\ Settle(s, "rollback", obs[s])
          /\ UNCHANGED claim
    /\ UNCHANGED <<storeVars, nodeVars, input, log, acked, madeVars, lost>>

\* retain_acquisition: immutable, before any actor is admitted.  A conflicting
\* record is an error and ends the acquisition (AcquisitionFails).
RetainAcquisition(s) ==
    /\ role[s] = "claimed" /\ op[s] = "none" /\ obs[s].recovery = <<>>
    /\ LET e == obs[s].epoch
           record == [input |-> input[s], materialized |-> obs[s]] IN
       /\ acquisition[e] \in {NoClaim, record}
       /\ acquisition' = Set(acquisition, e, record)
    /\ role' = Set(role, s, IF obs[s].root = <<>> THEN "bootstrap" ELSE "restoring")
    /\ UNCHANGED <<control, late, history, nodeVars, op, wire, obs, nxt, input, claim, log,
                   acked, madeVars, lost>>

\* The schema version a restored database has in its metadata.
StoredSchema(root) == 1 + Cardinality(migrations \cap Range(root))

\* The exact root is restored; its metadata must agree with the record, which
\* is read again before admission.
OpenRestored(s) ==
    /\ role[s] = "restoring" /\ op[s] = "none" /\ lease[s]
    /\ LET opens == StoredSchema(obs[s].root) = obs[s].schema IN
       \/ /\ opens /\ PureRenewal(control, obs[s])
          /\ Settle(s, "opened", control)
       \/ /\ ~(opens /\ PureRenewal(control, obs[s]))
          /\ Settle(s, "rollback", obs[s])
    /\ UNCHANGED <<storeVars, nodeVars, input, claim, log, acked, madeVars, lost>>

\* Any other failure of an acquisition: preparation, restore, metadata, shutdown.
AcquisitionFails(s) ==
    /\ role[s] \in {"claimed", "restoring"} /\ op[s] = "none"
    /\ IF obs[s].root = <<>> THEN Leave(s)
       ELSE Settle(s, "rollback", obs[s]) /\ UNCHANGED <<input, claim>>
    /\ UNCHANGED <<storeVars, nodeVars, log, acked, madeVars, lost>>

\* The future of an acquisition is dropped; its claim stays in the record.
AbandonAcquisition(s) ==
    /\ role[s] \in {"claimed", "restoring"}
    /\ late' = IF wire[s] = "sent" THEN late \cup {[expect |-> obs[s], next |-> nxt[s]]} ELSE late
    /\ Leave(s)
    /\ UNCHANGED <<control, history, acquisition, nodeVars, log, acked, madeVars, lost>>

\* resume_takeover_restored_observed: the same boot continues its interrupted
\* takeover of the original o without another ownership update.
Resume(s) ==
    /\ role[s] = "out" /\ op[s] = "none" /\ lease[s]
    /\ control.state = "Recovering" /\ control.owner = s /\ control.epoch > 1
    /\ control.root # <<>>
    /\ LET o == history[control.epoch - 1]
           expected == TakenOver(o, s) IN
       /\ o.owner \in recovered \ {s}
       /\ control = expected \/ (o.recovery # <<>> /\ control = RecoveryPublished(expected))
       /\ input' = Set(input, s, o)
    /\ Settle(s, "claimed", control)
    /\ claim' = Set(claim, s, control)
    /\ UNCHANGED <<storeVars, nodeVars, log, acked, madeVars, lost>>

Activate(s) ==
    /\ role[s] = "opened" /\ op[s] = "none" /\ Checked(s)
    /\ CanActivate(obs[s])
    /\ Send(s, "activate", obs[s], Activated(obs[s]))
    /\ UNCHANGED <<storeVars, nodeVars, role, input, claim, log, acked, madeVars, lost>>

ActivationFails(s) ==
    /\ role[s] \in {"opened", "bootstrap"} /\ op[s] = "none"
    /\ Settle(s, "cleanup", obs[s])
    /\ UNCHANGED <<storeVars, nodeVars, input, claim, log, acked, madeVars, lost>>

\* The same proposal against the renewed record c.
Resend(s, c) == Send(s, op[s], c, [nxt[s] EXCEPT !.revision = c.revision + 1]) /\ UNCHANGED role

\* A retry checks the lease first; role r once it ended.
Retry(s, c, r) == IF Checked(s) THEN Resend(s, c) ELSE Settle(s, r, c)

\* activate(): success, adoption of a landed activation, retry, or failure.
ActivateEnds(s) ==
    /\ op[s] = "activate"
    /\ \/ /\ \/ wire[s] = "ok" /\ Checked(s) /\ Settle(s, "serving", nxt[s])
             \/ Failed(s) /\ PureRenewal(control, nxt[s]) /\ Settle(s, "serving", control)
          /\ log' = Set(log, s, nxt[s].root)
       \/ /\ \/ wire[s] = "ok" /\ ~Checked(s) /\ Settle(s, "cleanup", obs[s])
             \/ Failed(s) /\ PureRenewal(control, obs[s]) /\ Retry(s, control, "cleanup")
             \/ /\ Failed(s) /\ ~PureRenewal(control, nxt[s]) /\ ~PureRenewal(control, obs[s])
                /\ Settle(s, "cleanup", obs[s])
             \/ wire[s] = "lost" /\ Settle(s, "cleanup", obs[s])   \* not retryable
          /\ UNCHANGED log
    /\ UNCHANGED <<storeVars, nodeVars, input, claim, acked, madeVars, lost>>

-----------------------------------------------------------------------------
(* The publisher of a serving Cell. *)

\* The SQL executor makes and captures one commit.  With a node log it runs on
\* while roots are published, though not past a migration; without one every
\* commit waits for the root of the one before.
Commit(s) ==
    /\ role[s] = "serving" /\ made < MaxCommits
    /\ IF s \in setup.leased THEN op[s] = "publish" => nxt[s].schema = obs[s].schema
       ELSE op[s] = "none" /\ log[s] = obs[s].root
    /\ made' = made + 1
    /\ log' = Set(log, s, Append(log[s], made + 1))
    /\ UNCHANGED <<storeVars, nodeVars, role, op, wire, obs, nxt, input, claim, acked, lost,
                   migrations>>

\* The node log proves the captured history on every follower (module NodeLog).
FleetAck(s) ==
    /\ role[s] = "serving" /\ s \in setup.leased /\ lease[s]
    /\ ~ Range(log[s]) \subseteq acked
    /\ acked' = acked \cup Range(log[s])
    /\ UNCHANGED <<storeVars, nodeVars, localVars, madeVars, lost>>

\* The first root of a Cell: initialization is its first commit.
Bootstrap(s) ==
    /\ role[s] = "bootstrap" /\ op[s] = "none" /\ Checked(s) /\ made < MaxCommits
    /\ made' = made + 1
    /\ log' = Set(log, s, <<made + 1>>)
    /\ Send(s, "publish", obs[s], Published(obs[s], <<made + 1>>))
    /\ UNCHANGED <<storeVars, nodeVars, role, input, claim, acked, lost, migrations>>

\* A prepared root holds the first n commits of the captured history.
Publish(s, n) ==
    /\ role[s] = "serving" /\ op[s] = "none" /\ Checked(s)
    /\ CanPublish(obs[s])
    /\ n > Len(obs[s].root)
    /\ Send(s, "publish", obs[s], Published(obs[s], SubSeq(log[s], 1, n)))
    /\ UNCHANGED <<storeVars, nodeVars, role, input, claim, log, acked, madeVars, lost>>

\* A migration starts from a Cell with nothing unpublished.
Migrate(s) ==
    /\ role[s] = "serving" /\ op[s] = "none" /\ Checked(s)
    /\ CanPublish(obs[s]) /\ log[s] = obs[s].root
    /\ made < MaxCommits /\ obs[s].schema < setup.schemas
    /\ made' = made + 1
    /\ log' = Set(log, s, Append(log[s], made + 1))
    /\ migrations' = migrations \cup {made + 1}
    /\ Send(s, "publish", obs[s], Migrated(obs[s], Append(log[s], made + 1)))
    /\ UNCHANGED <<storeVars, nodeVars, role, input, claim, acked, lost>>

\* Where a failed publication leaves the session.
PublishFailsTo(s) == IF role[s] = "bootstrap" THEN "cleanup" ELSE "fenced"

\* publish_proposal: success, adoption of a landed root, retry, or failure.
PublishEnds(s) ==
    /\ op[s] = "publish"
    /\ \/ /\ \/ wire[s] = "ok" /\ Checked(s) /\ Settle(s, "serving", nxt[s])
             \/ Failed(s) /\ PureRenewal(control, nxt[s]) /\ Settle(s, "serving", control)
          /\ acked' = acked \cup Range(nxt[s].root)
       \/ /\ \/ wire[s] = "ok" /\ ~Checked(s) /\ Settle(s, PublishFailsTo(s), obs[s])
             \/ Failed(s) /\ PureRenewal(control, obs[s]) /\ Retry(s, control, PublishFailsTo(s))
             \/ /\ Failed(s) /\ ~PureRenewal(control, nxt[s]) /\ ~PureRenewal(control, obs[s])
                /\ Settle(s, PublishFailsTo(s),
                          IF control.root = nxt[s].root THEN control ELSE obs[s])
             \/ wire[s] = "lost" /\ Settle(s, PublishFailsTo(s), obs[s])   \* not retryable
          /\ UNCHANGED acked
    /\ UNCHANGED <<storeVars, nodeVars, input, claim, log, madeVars, lost>>

\* A session under a node lease renews no record.
Renew(s) ==
    /\ role[s] \in {"serving", "bootstrap"} /\ op[s] = "none" /\ s \notin setup.leased /\ lease[s]
    /\ Send(s, "renew", obs[s], Renewed(obs[s]))
    /\ UNCHANGED <<storeVars, nodeVars, role, input, claim, log, acked, madeVars, lost>>

RenewEnds(s) ==
    /\ op[s] = "renew"
    /\ \/ wire[s] = "ok" /\ Settle(s, role[s], nxt[s])
       \/ Failed(s) /\ PureRenewal(control, nxt[s]) /\ Settle(s, role[s], control)
       \/ /\ Failed(s) /\ ~PureRenewal(control, nxt[s]) /\ PureRenewal(control, obs[s])
          /\ Resend(s, control)
       \/ /\ Failed(s) /\ ~PureRenewal(control, nxt[s]) /\ ~PureRenewal(control, obs[s])
          /\ Settle(s, PublishFailsTo(s), obs[s])
       \/ wire[s] = "lost" /\ Settle(s, PublishFailsTo(s), obs[s])
    /\ UNCHANGED <<storeVars, nodeVars, input, claim, log, acked, madeVars, lost>>

-----------------------------------------------------------------------------
(* Leaving: drain, fence, cleanup of a failed activation, rollback. *)

\* Where a session stands once its release ended, one way or the other.
AfterRelease(s) == IF role[s] = "cleanup" /\ claim[s].root # <<>> THEN "rollback" ELSE "out"

\* release() of the record c; without a lease or a legal successor it fails.
StartRelease(s, c) ==
    /\ Checked(s) /\ CanRelease(c)
    /\ Send(s, "release", c, Released(c))

\* A drained Cell has published everything its executor captured.
Drain(s) ==
    /\ role[s] = "serving" /\ op[s] = "none" /\ log[s] = obs[s].root
    /\ \/ StartRelease(s, obs[s]) /\ role' = Set(role, s, "closing") /\ UNCHANGED <<input, claim>>
       \/ ~Checked(s) /\ Leave(s)
    /\ UNCHANGED <<storeVars, nodeVars, log, acked, madeVars, lost>>

ReleaseEnds(s) ==
    /\ op[s] = "release"
    /\ \/ /\ \/ wire[s] = "ok"
             \/ Failed(s) /\ ~PureRenewal(control, obs[s])
             \/ wire[s] = "lost"
          /\ IF AfterRelease(s) = "rollback"
             THEN Settle(s, "rollback", obs[s]) /\ UNCHANGED <<input, claim>>
             ELSE Leave(s)
       \/ /\ Failed(s) /\ PureRenewal(control, obs[s])
          /\ IF Checked(s) THEN Resend(s, control) /\ UNCHANGED <<input, claim>>
             ELSE Leave(s)
    /\ UNCHANGED <<storeVars, nodeVars, log, acked, madeVars, lost>>

\* The actor fences the Cell: an executor error, a failed proof, an ended lease.
Fence(s) ==
    /\ role[s] = "serving" /\ op[s] = "none"
    /\ Settle(s, "fenced", obs[s])
    /\ UNCHANGED <<storeVars, nodeVars, input, claim, log, acked, madeVars, lost>>

\* Acknowledged by the node log, and not in a root this session published.  The actor
\* keeps the record for any counted cut, acknowledged or not; it may fail to count one
\* that was not acknowledged.
Unpublished(s) == (acked \cap Range(log[s])) \ Range(obs[s].root)

\* Mutant: a fenced Cell is released with an unpublished node log.
MayReleaseAnyway(s) == TRUE
MayRelease(s) == Unpublished(s) = {}

\* start_fenced_deactivate keeps the owner record while the node log holds an
\* unpublished cut; otherwise it releases the newest record it still owns.
FencedDeactivate(s) ==
    /\ role[s] = "fenced" /\ op[s] = "none"
    /\ \/ /\ MayRelease(s)
          /\ control.epoch = obs[s].epoch /\ control.owner = obs[s].owner
          /\ control.schema = obs[s].schema
          /\ StartRelease(s, control) /\ role' = Set(role, s, "closing")
          /\ UNCHANGED <<input, claim>>
       \/ Leave(s)
    /\ UNCHANGED <<storeVars, nodeVars, log, acked, madeVars, lost>>

\* cleanup_failed_activation releases a published record.
Cleanup(s) ==
    /\ role[s] = "cleanup" /\ op[s] = "none"
    /\ \/ StartRelease(s, obs[s]) /\ UNCHANGED <<role, input, claim>>
       \/ /\ ~(Checked(s) /\ CanRelease(obs[s]))
          /\ IF AfterRelease(s) = "rollback"
             THEN Settle(s, "rollback", obs[s]) /\ UNCHANGED <<input, claim>>
             ELSE Leave(s)
    /\ UNCHANGED <<storeVars, nodeVars, log, acked, madeVars, lost>>

\* The fields a rollback compares: the claim is still what the session left.
SameClaim(c, o) == /\ c.epoch = o.epoch /\ c.owner = o.owner /\ c.root = o.root
                   /\ c.recovery = o.recovery /\ c.schema = o.schema

\* rollback_failed_acquisition
Rollback(s) ==
    /\ role[s] = "rollback" /\ op[s] = "none"
    /\ \/ /\ SameClaim(control, claim[s])
          /\ StartRelease(s, control)
          /\ UNCHANGED <<role, input, claim>>
       \/ /\ ~(SameClaim(control, claim[s]) /\ Checked(s) /\ CanRelease(control))
          /\ Leave(s)
    /\ UNCHANGED <<storeVars, nodeVars, log, acked, madeVars, lost>>

-----------------------------------------------------------------------------
(* Node sessions end, and their logs are recovered (module NodeLog). *)

EndLease(s) ==
    /\ s \in setup.leased /\ lease[s]
    /\ lease' = Set(lease, s, FALSE)
    /\ UNCHANGED <<storeVars, setup, recovered, localVars, acked, madeVars, lost>>

\* The process stops; a request on its way may still land.
Crash(s) ==
    /\ role[s] # "out" \/ op[s] # "none"
    /\ lease' = Set(lease, s, FALSE)
    /\ late' = IF wire[s] = "sent" THEN late \cup {[expect |-> obs[s], next |-> nxt[s]]} ELSE late
    /\ Leave(s)
    /\ UNCHANGED <<control, history, acquisition, setup, recovered, log, acked, madeVars, lost>>

\* The recovered tail continues the root and holds every acknowledged commit.
AttachRecovery(x, n) ==
    /\ ~lease[x] /\ x \notin recovered
    /\ control.owner = x /\ control.recovery = <<>> /\ control.root # <<>>
    /\ IsPrefix(control.root, log[x]) /\ n > Len(control.root)
    /\ acked \cap Range(log[x]) \subseteq Range(SubSeq(log[x], 1, n))
    /\ control.revision < setup.revisions
    /\ control' = RecoveryAttached(control, SubSeq(log[x], 1, n))
    /\ UNCHANGED <<late, history, acquisition, nodeVars, localVars, acked, madeVars, lost>>

\* The log is sealed once every Cell it still owns is covered or pinned.
SealRecovery(x) ==
    /\ ~lease[x] /\ x \notin recovered
    /\ control.owner = x =>
         acked \cap Range(log[x]) \subseteq Range(control.root) \cup Range(control.recovery)
    /\ recovered' = recovered \cup {x}
    /\ UNCHANGED <<storeVars, setup, lease, localVars, acked, madeVars, lost>>

-----------------------------------------------------------------------------
AcquireNext(s) ==
    \/ CreateInitial(s) \/ CreateEnds(s) \/ Claim(s) \/ ClaimEnds(s)
    \/ Materialize(s) \/ MaterializeEnds(s) \/ RetainAcquisition(s) \/ OpenRestored(s)
    \/ AcquisitionFails(s) \/ AbandonAcquisition(s) \/ Resume(s)
    \/ Activate(s) \/ ActivationFails(s) \/ ActivateEnds(s)

PublishNext(s) ==
    \/ Commit(s) \/ FleetAck(s) \/ Bootstrap(s) \/ Migrate(s) \/ PublishEnds(s)
    \/ \E n \in 1 .. Len(log[s]) : Publish(s, n)
    \/ Renew(s) \/ RenewEnds(s)

LeaveNext(s) ==
    \/ Drain(s) \/ ReleaseEnds(s) \/ Fence(s) \/ FencedDeactivate(s)
    \/ Cleanup(s) \/ Rollback(s) \/ EndLease(s) \/ Crash(s)

StoreNext(s) == RetainOwner(s) \/ RetainFails(s) \/ StoreUpdate(s) \/ LoseReply(s)

Next ==
    \/ \E s \in Sessions : AcquireNext(s) \/ PublishNext(s) \/ LeaveNext(s) \/ StoreNext(s)
    \/ \E w \in late : LateUpdate(w)
    \/ \E x \in Sessions : SealRecovery(x) \/ \E n \in 1 .. Len(log[x]) : AttachRecovery(x, n)

Spec == Init /\ [][Next]_vars

-----------------------------------------------------------------------------
(* Properties. *)

Ops == {"none", "create", "takeover", "materialize", "activate", "publish", "renew", "release"}
Roles == {"out", "claimed", "restoring", "opened", "bootstrap", "serving", "fenced", "closing",
          "cleanup", "rollback"}

\* Control::validate: the state of a record agrees with its owner and its root.
Valid(c) ==
    /\ c.state = "Recovering" => c.owner # None
    /\ c.state = "Serving" => c.owner # None /\ c.root # <<>>
    /\ c.state \in {"Idle", "Absent"} => c.owner = None
    /\ c.recovery # <<>> => IsPrefix(c.root, c.recovery)

\* Every variable keeps its type, and the record is one that decodes.
TypeOK ==
    /\ control \in Controls /\ Valid(control)
    /\ late \subseteq [expect : Controls, next : Controls]
    /\ history \in [Epochs -> Controls]
    /\ acquisition \in [Epochs -> [input : Controls, materialized : Controls]]
    /\ lease \in [Sessions -> BOOLEAN]
    /\ recovered \subseteq Sessions
    /\ role \in [Sessions -> Roles]
    /\ op \in [Sessions -> Ops]
    /\ wire \in [Sessions -> {"idle", "retain", "sent", "ok", "conflict", "lost"}]
    /\ obs \in [Sessions -> Controls] /\ nxt \in [Sessions -> Controls]
    /\ input \in [Sessions -> Controls] /\ claim \in [Sessions -> Controls]
    /\ log \in [Sessions -> Roots]
    /\ acked \subseteq 1 .. MaxCommits
    /\ made \in 0 .. MaxCommits /\ lost \in 0 .. MaxLost
    /\ migrations \subseteq 1 .. MaxCommits

\* The record decodes, and no acknowledged commit is ever without a holder the
\* next owner will use: it is in the published root, in the pinned overlay, or
\* still in the node log of the recorded owner, whose takeover waits for that
\* log's recovery (publication, take_over).
AckedIsHeld ==
    /\ TypeOK
    /\ acked \subseteq Range(control.root) \cup Range(control.recovery)
                       \cup (IF control.owner \in Sessions \ recovered THEN Range(log[control.owner])
                             ELSE {})

\* While its lease lasts, a serving session is the recorded owner, in the epoch
\* it observed, and the record's root is part of what its executor captured: no
\* late reply, retry or rollback of anyone takes the Cell away under it.
LiveServerOwns ==
    \A s \in Sessions : role[s] = "serving" /\ lease[s] =>
        /\ control.owner = s /\ control.epoch = obs[s].epoch
        /\ IsPrefix(control.root, log[s])

\* An update that removes an owner finds that owner's last record retained, and
\* the retained record of an owner that left never changes afterwards, not even
\* by a delayed proposal.
DepartureIsRetained ==
    [][/\ control.owner # None /\ control'.owner # control.owner
            => history[control.epoch] = control
       /\ \A e \in Epochs : e < control.epoch => history'[e] = history[e]]_vars

\* failover-and-followers.md: "Schema-migration cuts use the same follower/object
\* race and recovery coverage".  A migration acknowledged by the node log and
\* recovered from it leaves a root the next owner can open: the schema in the
\* record is the schema in the database.
RecoveredRootOpens == control.root # <<>> => control.schema = StoredSchema(control.root)

\* The durable history of the Cell is its pinned overlay, or else its root.
Ledger == INSTANCE CellLedger
          WITH holder <- control.owner, term <- control.epoch, acked <- acked,
               ledger <- IF control.recovery = <<>> THEN control.root ELSE control.recovery

\* The record implements the ledger: every update that lands is one of its four
\* steps or changes nothing it can see.
ImplementsLedger == Ledger!Spec
=============================================================================
