------------------------------ MODULE Movement ------------------------------
(***************************************************************************)
(* The movement of one Cell from a source node to a receiver, driven by    *)
(* fleet controllers through the fleet journal (fleet/operations, and      *)
(* cellule-host's fleet reconciler and action executor).                   *)
(*                                                                         *)
(* The head of the journal holds the controller lease, one maintenance     *)
(* operation and the attempt; every change of it is a compare-exchange     *)
(* that advances its revision.  A controller commits a dispatch phase,     *)
(* sends the action that the phase allows, and commits what comes back.    *)
(* An action may be delayed, lost or delivered again.  The node that       *)
(* executes it first records its acceptance in the journal: a first        *)
(* acceptance needs the authority of the CURRENT revision, and any later   *)
(* delivery gets the acceptance already there, with its result.            *)
(*                                                                         *)
(* A revision is only ever compared with the current one, so it is         *)
(* modelled by whether it is still current: `fresh' of a controller's      *)
(* snapshot, "fresh" or "stale" of an action on the wire.                  *)
(*                                                                         *)
(* The clocks of controllers and nodes are not synchronised.  A time is    *)
(* compared with the deadline of the attempt, which is also the expiry of  *)
(* the receiver's reservation: `late' holds the clocks that have passed    *)
(* it.  It is also compared with the end of the controller lease; since    *)
(* any clock may show that end first, any controller may claim at any      *)
(* moment, and no step relies on a lease that is still running.            *)
(*                                                                         *)
(* Not modelled: recovery of a source and continuation at another receiver *)
(* after the boot of an endpoint has failed.                               *)
(***************************************************************************)
EXTENDS Naturals, FiniteSets

CONSTANTS Controllers,  \* sessions that reconcile the fleet
          MaxEpoch      \* bound on the ownership epochs of the Cell

ASSUME MovementAssumption == /\ "none" \notin Controllers
                             /\ MaxEpoch \in Nat \ {0}

VARIABLES late,     \* clocks that have passed the attempt's deadline
          holder,   \* claimant of the controller lease, or "none"
          attempt,  \* the attempt in the head: phase, reservation, blocker, cleaned
          upkeep,   \* the maintenance operation: its node and its phase
          passes,   \* per controller, where its pass stands
          wire,     \* per effect, its actions under way
          accepted, \* per effect, the journal's acceptance and result
          cleanup,  \* the accepted Cancel is one of an attempt already released
          jobs,     \* per effect, the job of the executing node
          credit,   \* the receiver's credit for the attempt
          basis,    \* epoch of the control recorded before acquisition, 0 for none
          owner,    \* the Cell's control: its owner and its epoch
          freed     \* the attempt's own release has taken effect

moveVars == <<late, holder, attempt, upkeep, passes, wire, accepted,
              cleanup, jobs, credit, basis, owner, freed>>

(* The head, the journal's acceptances, and the two executors.             *)
headVars == <<holder, attempt, upkeep>>
nodeVars == <<jobs, credit, basis, owner, freed>>
timeVars == <<late>>

SourceRelease == {"Release", "ReleaseMaintenance"}
Effects == {"Prepare", "Activate", "Cancel"} \cup SourceRelease
Outcomes == {"Reserved", "Released", "Activated", "Cleaned", "Rejected", "Blocked"}

Phases == {"Unplanned", "Planned", "Preparing", "Reserved", "Releasing",
           "MaintenanceReleasing", "Released", "Activating", "Activated",
           "CleaningReceiver", "Cancelling", "Cancelled", "Moved", "Dropped"}

(* The attempt has left the head: retired after it moved, or after it was  *)
(* cancelled.                                                              *)
Retired == {"Moved", "Dropped"}

InHead == attempt.phase \notin {"Unplanned"} \cup Retired

(* The effect a phase has dispatched.                                      *)
PhaseEffect(p) ==
  CASE p = "Preparing" -> "Prepare"
    [] p = "Releasing" -> "Release"
    [] p = "MaintenanceReleasing" -> "ReleaseMaintenance"
    [] p = "Activating" -> "Activate"
    [] OTHER -> "Cancel"

Idle == [at |-> "idle", effect |-> "none", fresh |-> FALSE, got |-> "none"]
NoJob == [at |-> "idle", seen |-> 0, out |-> "none"]

MoveInit ==
  /\ late = {}
  /\ holder = "none"
  /\ attempt = [phase |-> "Unplanned", reserved |-> FALSE, blocked |-> FALSE,
                cleaned |-> FALSE]
  /\ upkeep \in [node : {"source", "receiver"}, phase : {"None"}]
  /\ passes = [c \in Controllers |-> Idle]
  /\ wire = [e \in Effects |-> "none"]
  /\ accepted = [e \in Effects |-> "none"]
  /\ cleanup = FALSE
  /\ jobs = [e \in Effects |-> NoJob]
  /\ credit = "None"
  /\ basis = 0
  /\ owner = [at |-> "source", epoch |-> 1]
  /\ freed = FALSE

(***************************************************************************)
(* Time, and ordinary ownership of the Cell outside the attempt.           *)
(***************************************************************************)
(* A clock passes the deadline, which only matters while the controllers,  *)
(* the source or the receiver still have to look at it.                    *)
Looks(clock) ==
  CASE clock = "controllers" ->
         attempt.phase \in {"Planned", "Preparing", "Reserved", "Releasing",
                           "MaintenanceReleasing", "Released"}
    [] clock = "source" ->
         \A e \in SourceRelease : accepted[e] = "none" \/ jobs[e].at = "new"
    [] clock = "receiver" ->
         \/ credit = "Prepared"
         \/ credit = "None" /\ accepted["Prepare"] \in {"none", "open"}

DeadlinePasses(clock) ==
  /\ InHead /\ clock \notin late
  /\ Looks(clock)
  /\ late' = late \cup {clock}
  /\ UNCHANGED <<headVars, passes, wire, accepted, cleanup, nodeVars>>

(* A node gives the Cell up, or one acquires it while idle, for reasons of *)
(* its own.  The owner is "claimed" while the control names the receiver   *)
(* and nothing serves there: during the restore, and for good when it      *)
(* fails and the claim cannot be rolled back.                              *)
CellIsReleased == /\ owner.at \notin {"idle", "claimed"}
                  /\ owner' = [owner EXCEPT !.at = "idle"]
                  /\ UNCHANGED <<timeVars, headVars, passes, wire, accepted,
                                 cleanup, jobs, credit, basis, freed>>

CellIsAcquired(n) == /\ owner.at = "idle" /\ owner.epoch < MaxEpoch
                     /\ owner' = [at |-> n, epoch |-> owner.epoch + 1]
                     /\ UNCHANGED <<timeVars, headVars, passes, wire, accepted,
                                    cleanup, jobs, credit, basis, freed>>

(***************************************************************************)
(* The head: FleetHead::claim and ::transition behind a compare-exchange.  *)
(***************************************************************************)
(* Whatever was authorised by the previous revision no longer is.          *)
Outdated == [e \in Effects |-> IF wire[e] = "fresh" THEN "stale" ELSE wire[e]]

(* A pass whose snapshot is no longer current can only send what it was    *)
(* about to send: its commits and inspections are refused, and it ends.    *)
Published(c, at, e) ==
  [d \in Controllers |->
     IF d = c THEN [at |-> at, effect |-> e, fresh |-> at # "idle", got |-> "none"]
     ELSE IF passes[d].at = "dispatch" THEN [passes[d] EXCEPT !.fresh = FALSE]
     ELSE Idle]

(* compare_exchange: only the claimant, on the exact snapshot.             *)
MayCommit(c) == passes[c].fresh /\ holder = c

Commit(c, new, at, e) ==
  /\ MayCommit(c)
  /\ attempt' = new
  /\ wire' = Outdated
  /\ passes' = Published(c, at, e)

(* The pass goes on with no commit.                                        *)
GoOn(c, at, e, o) ==
  /\ passes' = [passes EXCEPT ![c] = [@ EXCEPT !.at = at, !.effect = e, !.got = o]]
  /\ UNCHANGED <<timeVars, headVars, wire, accepted, cleanup, nodeVars>>

Claim(c) ==
  /\ passes[c].at = "idle"
  /\ holder' = c
  /\ wire' = Outdated
  /\ passes' = Published(c, "advance", "none")
  /\ UNCHANGED <<timeVars, attempt, upkeep, accepted, cleanup, nodeVars>>

(* A timeout, a refused compare-exchange, a crash of the controller: the   *)
(* pass ends wherever it stands, and the next one starts from the journal. *)
PassEnds(c) ==
  /\ passes[c].at # "idle"
  /\ passes' = [passes EXCEPT ![c] = Idle]
  /\ UNCHANGED <<timeVars, headVars, wire, accepted, cleanup, nodeVars>>

(* The plan of a pass: the source serves the Cell, the receiver is not     *)
(* under maintenance, a source under maintenance is evacuating.            *)
Allocatable == /\ attempt.phase = "Unplanned"
               /\ owner = [at |-> "source", epoch |-> 1]
               /\ upkeep.phase = "None" \/ upkeep = [node |-> "source", phase |-> "Evacuating"]

Allocate(c) ==
  /\ passes[c].at = "advance"
  /\ Allocatable
  /\ Commit(c, [attempt EXCEPT !.phase = "Planned"], "idle", "none")
  /\ UNCHANGED <<timeVars, holder, upkeep, accepted, cleanup, nodeVars>>

(* Mutant: only an attempt that leaves the node keeps it from closing.     *)
ReadyUnlessSource == InHead => upkeep.node # "source"

(* No attempt of the head names the node; the one here names both nodes.   *)
ReadyToClose == ~InHead

(* Cells whose control names the node.                                     *)
OwnsCell == \/ owner.at = upkeep.node
            \/ owner.at = "claimed" /\ upkeep.node = "receiver"

UpkeepNext ==
  CASE upkeep.phase = "None" -> "Requested"
    [] upkeep.phase = "Requested" -> "Cordoned"
    [] upkeep.phase = "Cordoned" -> "Evacuating"
    [] OTHER -> "Closing"

(* The node settles its roles, on what the pass has observed: no attempt   *)
(* and no Cell of the node is left.                                        *)
SettleRoles(c) ==
  /\ passes[c].at = "advance" /\ passes[c].fresh
  /\ upkeep.phase = "Evacuating"
  /\ ReadyToClose /\ ~OwnsCell
  /\ GoOn(c, "settled", "none", "none")

(* The maintenance operation advances.  The commit that follows the        *)
(* settlement looks at the attempts of the head again, not at the Cells.   *)
AdvanceMaintenance(c) ==
  /\ upkeep.phase # "Closing"
  /\ passes[c].at = IF upkeep.phase = "Evacuating" THEN "settled" ELSE "advance"
  /\ upkeep.phase = "Evacuating" => ReadyToClose
  /\ Commit(c, attempt, "idle", "none")
  /\ upkeep' = [upkeep EXCEPT !.phase = UpkeepNext]
  /\ UNCHANGED <<timeVars, holder, accepted, cleanup, nodeVars>>

(***************************************************************************)
(* A pass over the attempt: FleetReconciler::advance.                      *)
(***************************************************************************)
(* The deadline has passed by the controllers' clock.                      *)
Overdue == "controllers" \in late

(* The transition that opens the next dispatch phase.                      *)
Begins ==
  CASE attempt.phase = "Planned" -> IF Overdue THEN "Cancelling" ELSE "Preparing"
    [] attempt.phase = "Reserved" ->
         IF attempt.blocked \/ Overdue THEN "Cancelling"
         ELSE IF upkeep = [node |-> "source", phase |-> "Evacuating"]
              THEN "MaintenanceReleasing" ELSE "Releasing"
    [] attempt.phase = "Released" ->
         IF ~attempt.cleaned /\ Overdue THEN "CleaningReceiver" ELSE "Activating"

BeginPhase(c) ==
  /\ passes[c].at = "advance"
  /\ attempt.phase \in {"Planned", "Reserved", "Released"}
  /\ Commit(c, [attempt EXCEPT !.phase = Begins, !.blocked = FALSE],
            "dispatch", PhaseEffect(Begins))
  /\ UNCHANGED <<timeVars, holder, upkeep, accepted, cleanup, nodeVars>>

(* A phase whose next action is Cancel dispatches it as it is.             *)
BeginCleanup(c) ==
  /\ passes[c].at = "advance" /\ passes[c].fresh
  /\ \/ attempt.phase \in {"Cancelling", "CleaningReceiver"}
     \/ attempt.phase = "Activated" /\ ~attempt.cleaned
  /\ GoOn(c, "dispatch", "Cancel", "none")

(* What the receiver, the source or a successor on another node shows an   *)
(* inspection, which the journal authorises only for the current revision. *)
ServedElsewhere == owner.at = "other"

Receiver ==
  CASE credit = "Prepared" -> IF "receiver" \in late THEN "Blocked" ELSE "Reserved"
    [] credit = "Cancelled" -> "Cleaned"
    [] credit \in {"Activating", "Failed"} -> "Unknown"
    [] credit = "Activated" /\ attempt.phase = "Preparing" -> "Unknown"
    [] accepted["Activate"] = "Activated" /\ owner.at = "receiver" -> "Activated"
    [] accepted["Activate"] = "Activated" -> "Unknown"
    [] accepted["Cancel"] = "Cleaned" -> "Cleaned"
    [] OTHER -> "Unknown"

(* Mutant: an accepted release counts as a release.                        *)
SourceAccepted == IF accepted[PhaseEffect(attempt.phase)] # "none" THEN "Released" ELSE "Unknown"

Source == IF accepted[PhaseEffect(attempt.phase)] = "Released" THEN "Released" ELSE "Unknown"

Shown == IF attempt.phase \in {"Releasing", "MaintenanceReleasing"} THEN Source
         ELSE IF attempt.phase \in {"Activating", "Activated"} /\ ServedElsewhere
              THEN "Activated"
              ELSE Receiver

Inspect(c) ==
  /\ \/ /\ passes[c].at = "advance"
        /\ \/ attempt.phase \in {"Preparing", "Releasing", "MaintenanceReleasing", "Activating"}
           \/ attempt.phase = "Activated" /\ attempt.cleaned
     \/ passes[c].at = "confirm"
  /\ MayCommit(c)
  /\ GoOn(c, IF passes[c].at = "confirm" THEN "consume" ELSE "inspected",
          passes[c].effect, Shown)

(* An attempt that stayed served, or was cancelled, leaves the head.       *)
Retire(c) ==
  /\ \/ passes[c].at = "advance" /\ attempt.phase = "Cancelled"
     \/ /\ passes[c].at = "inspected" /\ passes[c].got = "Activated"
        /\ attempt.phase = "Activated"
  /\ Commit(c, [attempt EXCEPT !.phase = IF @ = "Cancelled" THEN "Dropped" ELSE "Moved"],
            "idle", "none")
  /\ UNCHANGED <<timeVars, holder, upkeep, accepted, cleanup, nodeVars>>

(* After an inspection: a late preparation is cancelled; a definite answer *)
(* is consumed; anything else needs the journal's acceptance.              *)
Inspected(c) ==
  /\ passes[c].at = "inspected" /\ attempt.phase # "Activated" /\ passes[c].fresh
  /\ \/ /\ attempt.phase = "Preparing" /\ Overdue
        /\ Commit(c, [attempt EXCEPT !.phase = "Cancelling", !.blocked = FALSE],
                  "dispatch", "Cancel")
        /\ UNCHANGED <<timeVars, holder, upkeep, accepted, cleanup, nodeVars>>
     \/ /\ ~(attempt.phase = "Preparing" /\ Overdue)
        /\ GoOn(c, IF passes[c].got \in {"Unknown", "Blocked"} THEN "lookup" ELSE "consume",
                PhaseEffect(attempt.phase), passes[c].got)

(* The acceptance decides: absent, it must be fenced before anything is    *)
(* sent again; with a result, the result is consumed (except that serving  *)
(* needs a fresh look); open, a receiver effect is replayed or cancelled   *)
(* and a source effect waits.                                              *)
LookupAcceptance(c) ==
  LET e == passes[c].effect
      a == accepted[e]
  IN /\ passes[c].at = "lookup" /\ passes[c].fresh
     /\ \/ a = "none" /\ GoOn(c, "absent", e, "none")
        \/ a \in Outcomes \ {"Activated"} /\ GoOn(c, "consume", e, a)
        \/ /\ a = "open" /\ e \notin SourceRelease
           /\ \/ /\ passes[c].got = "Blocked" /\ ~attempt.cleaned
                 /\ Commit(c, [attempt EXCEPT !.phase = IF @ = "Preparing" THEN "Cancelling"
                                                       ELSE "CleaningReceiver",
                                             !.blocked = FALSE], "dispatch", "Cancel")
                 /\ UNCHANGED <<timeVars, holder, upkeep, accepted, cleanup, nodeVars>>
              \/ passes[c].got # "Blocked" /\ GoOn(c, "dispatch", e, "none")

(* ResolveUnaccepted: in the transaction that changes the head, no         *)
(* acceptance exists; the new revision fences every action still under way.*)
Resolvable(c) == accepted[passes[c].effect] = "none"

ResolvedPhase ==
  CASE attempt.phase = "Preparing" /\ Overdue -> "Cancelling"
    [] attempt.phase \in {"Releasing", "MaintenanceReleasing"} /\ Overdue -> "Reserved"
    [] OTHER -> attempt.phase

ResolveUnaccepted(c) ==
  /\ passes[c].at = "absent"
  /\ Resolvable(c)
  /\ Commit(c, [attempt EXCEPT !.phase = ResolvedPhase, !.blocked = ResolvedPhase = "Reserved"],
            IF ResolvedPhase = "Reserved" THEN "idle" ELSE "dispatch",
            PhaseEffect(ResolvedPhase))
  /\ UNCHANGED <<timeVars, holder, upkeep, accepted, cleanup, nodeVars>>

(* Mutant: a preparation that was accepted is not asked about.             *)
CancelsAnyway == attempt.phase = "Cancelling" /\ ~attempt.reserved

(* dispatch_effect: a cancellation with no preparation accepted is the     *)
(* journal's alone; every other effect is sent with the authority of the   *)
(* controller's snapshot, current or not.  One that has its result in the  *)
(* journal is answered with it, and leaves nothing under way.              *)
CancelsLocally == /\ attempt.phase = "Cancelling" /\ ~attempt.reserved
                  /\ accepted["Prepare"] = "none"

Dispatch(c) ==
  LET e == passes[c].effect
  IN /\ passes[c].at = "dispatch"
     /\ \/ /\ e = "Cancel" /\ CancelsLocally
           /\ Commit(c, [attempt EXCEPT !.phase = "Cancelled", !.cleaned = TRUE], "idle", "none")
           /\ UNCHANGED <<timeVars, holder, upkeep, accepted, cleanup, nodeVars>>
        \/ /\ ~(e = "Cancel" /\ passes[c].fresh /\ CancelsLocally)
           /\ wire' = [wire EXCEPT ![e] = IF accepted[e] \in Outcomes THEN "none"
                                          ELSE IF passes[c].fresh THEN "fresh"
                                          ELSE IF @ = "none" THEN "stale" ELSE @]
           /\ passes' = [passes EXCEPT ![c].at = "wait"]
           /\ UNCHANGED <<timeVars, headVars, accepted, cleanup, nodeVars>>

(* The committed result comes back; serving is looked at again before it   *)
(* is consumed.                                                            *)
Reply(c) ==
  LET e == passes[c].effect
  IN /\ passes[c].at = "wait" /\ passes[c].fresh
     /\ accepted[e] \in Outcomes
     /\ GoOn(c, IF accepted[e] = "Activated" THEN "confirm" ELSE "consume", e, accepted[e])

(* consume: the attempt after an outcome, or the attempt as it is.         *)
Consumed(o) ==
  CASE o = "Reserved" /\ attempt.phase = "Preparing" /\ Overdue ->
         [attempt EXCEPT !.phase = "Cancelling", !.blocked = FALSE]
    [] o = "Reserved" /\ attempt.phase = "Preparing" ->
         [attempt EXCEPT !.phase = "Reserved", !.reserved = TRUE, !.blocked = FALSE]
    [] o = "Released" /\ attempt.phase \in {"Releasing", "MaintenanceReleasing"} ->
         [attempt EXCEPT !.phase = "Released", !.blocked = FALSE]
    [] o = "Activated" /\ attempt.phase \in {"Activating", "CleaningReceiver"} ->
         [attempt EXCEPT !.phase = "Activated", !.blocked = FALSE]
    [] o = "Cleaned" /\ attempt.phase = "Cancelling" ->
         [attempt EXCEPT !.phase = "Cancelled", !.cleaned = TRUE, !.blocked = FALSE]
    [] o = "Cleaned" /\ attempt.phase = "Activated" ->
         [attempt EXCEPT !.cleaned = TRUE, !.blocked = FALSE]
    [] o = "Cleaned" /\ attempt.phase = "CleaningReceiver" ->
         [attempt EXCEPT !.phase = "Released", !.cleaned = TRUE, !.blocked = FALSE]
    [] o = "Rejected" /\ attempt.phase \in {"Releasing", "MaintenanceReleasing"} ->
         [attempt EXCEPT !.phase = "Reserved", !.blocked = TRUE]
    [] o = "Rejected" /\ attempt.phase = "Preparing" ->
         [attempt EXCEPT !.phase = "Cancelling", !.blocked = FALSE]
    [] OTHER -> attempt

(* A refused preparation installed nothing: its cancellation follows in a  *)
(* commit of its own.                                                      *)
Consume(c) ==
  LET o == passes[c].got
  IN /\ passes[c].at = "consume"
     /\ Consumed(o) # attempt
     /\ Commit(c, Consumed(o),
               IF o = "Rejected" /\ attempt.phase = "Preparing" THEN "refused" ELSE "idle", "none")
     /\ UNCHANGED <<timeVars, holder, upkeep, accepted, cleanup, nodeVars>>

Refused(c) ==
  /\ passes[c].at = "refused"
  /\ Commit(c, [attempt EXCEPT !.phase = "Cancelled", !.cleaned = TRUE], "idle", "none")
  /\ UNCHANGED <<timeVars, holder, upkeep, accepted, cleanup, nodeVars>>

(***************************************************************************)
(* The executors: FleetActionExecutor::submit and ::execute.  Each node    *)
(* runs at most one job of an effect; a delivery meanwhile joins it.       *)
(***************************************************************************)
InTime(e) == /\ e = "Prepare" => "receiver" \notin late
             /\ e \in SourceRelease => "source" \notin late

(* Mutant: the source accepts a release of an earlier revision.            *)
AuthorizedStale(e) == InTime(e) /\ (wire[e] = "fresh" \/ e \in SourceRelease)

(* A first acceptance: the current revision, and for a preparation or a    *)
(* release an attempt that is not late.                                    *)
Authorized(e) == wire[e] = "fresh" /\ InTime(e)

(* The journal's answer to a first acceptance may be lost: the job ends,   *)
(* and any later delivery only inspects.                                   *)
Accept(e) ==
  /\ wire[e] # "none" /\ jobs[e].at = "idle"
  /\ \/ /\ accepted[e] = "none" /\ Authorized(e)
        /\ accepted' = [accepted EXCEPT ![e] = "open"]
        /\ cleanup' = IF e = "Cancel" THEN attempt.phase # "Cancelling" ELSE cleanup
        /\ jobs' = jobs \/ jobs' = [jobs EXCEPT ![e].at = "new"]
     \/ /\ accepted[e] = "open"
        /\ jobs' = [jobs EXCEPT ![e].at = "replay"]
        /\ UNCHANGED <<accepted, cleanup>>
  /\ UNCHANGED <<timeVars, headVars, passes, wire, credit, basis, owner, freed>>

Done(e, o) == jobs' = [jobs EXCEPT ![e] = [NoJob EXCEPT !.at = "done", !.out = o]]

Recorded(e) == IF jobs[e].out = "Unknown" THEN accepted[e] ELSE jobs[e].out

(* publish_action_result: an Unknown leaves the acceptance open.  A write  *)
(* that fails keeps the job and its result, and is tried again.            *)
PublishResult(e) ==
  /\ jobs[e].at = "done"
  /\ accepted' = [accepted EXCEPT ![e] = Recorded(e)]
  /\ jobs' = [jobs EXCEPT ![e].at = "published"]
  /\ wire' = IF Recorded(e) \in Outcomes THEN [wire EXCEPT ![e] = "none"] ELSE wire
  /\ UNCHANGED <<timeVars, headVars, passes, cleanup, credit, basis, owner, freed>>

(* settle_job: a settled receipt of the receiver is retired with the job.  *)
Settle(e) ==
  /\ jobs[e].at = "published"
  /\ \/ /\ jobs[e].out \in {"Activated", "Cleaned"} /\ credit # "None"
        /\ credit \notin {"Prepared", "Activating"}
        /\ credit' = "None"
     \/ /\ jobs[e].out \notin {"Activated", "Cleaned"} \/ credit = "None"
        /\ credit' = credit
  /\ jobs' = [jobs EXCEPT ![e] = NoJob]
  /\ UNCHANGED <<timeVars, headVars, passes, wire, accepted, cleanup, basis, owner, freed>>

(* A cordoned receiver admits no acquisition.                              *)
Acquiring == upkeep.node = "receiver" => upkeep.phase \in {"None", "Requested"}

Working(e, at) == /\ jobs[e].at = at
                  /\ UNCHANGED <<timeVars, headVars, passes, wire, accepted, cleanup>>

(* prepare: a refusal installs nothing.  The authority is read first; the  *)
(* credit is installed later, when the owner may have changed.             *)
PrepareNew ==
  /\ Working("Prepare", "new")
  /\ \/ Done("Prepare", "Rejected")
     \/ /\ owner = [at |-> "source", epoch |-> 1]
        /\ jobs' = [jobs EXCEPT !["Prepare"].at = "install"]
  /\ UNCHANGED <<credit, basis, owner, freed>>

PrepareInstalls ==
  /\ Working("Prepare", "install")
  /\ \/ Done("Prepare", "Rejected") /\ credit' = credit
     \/ /\ "receiver" \notin late /\ Acquiring
        /\ credit' = "Prepared" /\ Done("Prepare", "Reserved")
  /\ UNCHANGED <<basis, owner, freed>>

PrepareReplay ==
  /\ Working("Prepare", "replay")
  /\ Done("Prepare", IF credit # "Prepared" THEN "Unknown"
                     ELSE IF "receiver" \in late THEN "Blocked" ELSE "Reserved")
  /\ UNCHANGED <<credit, basis, owner, freed>>

(* Release: the deadline is looked at once, before the authority and the   *)
(* actor are asked.                                                        *)
ReleaseNew(e) ==
  /\ Working(e, "new")
  /\ \/ Done(e, "Rejected")
     \/ "source" \notin late /\ jobs' = [jobs EXCEPT ![e].at = "leaving"]
  /\ UNCHANGED <<credit, basis, owner, freed>>

(* Then, however late: refused before the actor begins to give the Cell    *)
(* up, or done, or an error that leaves it open whether it was done.  A    *)
(* replay repeats nothing.                                                 *)
ReleaseRuns(e) ==
  /\ Working(e, "leaving")
  /\ \/ (Done(e, "Rejected") \/ Done(e, "Unknown")) /\ UNCHANGED <<owner, freed>>
     \/ /\ owner = [at |-> "source", epoch |-> 1]
        /\ owner' = [owner EXCEPT !.at = "idle"]
        /\ freed' = TRUE
        /\ Done(e, "Released") \/ Done(e, "Unknown")
  /\ UNCHANGED <<credit, basis>>

ReleaseReplay(e) == /\ Working(e, "replay")
                    /\ Done(e, "Unknown")
                    /\ UNCHANGED <<credit, basis, owner, freed>>

(* The journal confirms that the credit is settled.                        *)
Settled == accepted["Cancel"] = "Cleaned" \/ accepted["Activate"] = "Activated"

(* With unused credit, or with none left to use, the receiver acquires the *)
(* Cell; with an activation that finished, it only looks.                  *)
Activates(at) == \/ credit = "Prepared"
                 \/ credit = "Cancelled" /\ (at = "new" \/ Settled)
                 \/ credit = "None" /\ Settled

ActivateChecks(at) ==
  /\ Working("Activate", at)
  /\ \/ /\ Activates(at) /\ owner.at = "idle" /\ basis \in {0, owner.epoch}
        /\ basis' = owner.epoch
        /\ jobs' = [jobs EXCEPT !["Activate"] =
                      [at |-> "acquire", seen |-> owner.epoch, out |-> credit]]
     \/ /\ ~(Activates(at) /\ owner.at = "idle" /\ basis \in {0, owner.epoch})
        /\ Done("Activate",
                IF owner.at = "receiver"
                   /\ \/ Activates(at) /\ credit # "Prepared"
                      \/ at = "replay" /\ credit = "Activated" /\ basis # 0
                THEN "Activated" ELSE "Unknown")
        /\ basis' = basis
  /\ UNCHANGED <<credit, owner, freed>>

(* activate_prepared_receiver takes the credit under its lock; without     *)
(* credit the ordinary acquisition is used.                                *)
Takes == jobs["Activate"].out = "Prepared" => credit = "Prepared" /\ "receiver" \notin late

ActivateTakes ==
  /\ Working("Activate", "acquire")
  /\ \/ /\ Takes /\ Acquiring
        /\ credit' = IF jobs["Activate"].out = "Prepared" THEN "Activating" ELSE credit
        /\ jobs' = [jobs EXCEPT !["Activate"].at = "cas"]
     \/ ~(Takes /\ Acquiring) /\ Done("Activate", "Unknown") /\ credit' = credit
  /\ UNCHANGED <<basis, owner, freed>>

(* An activation that fails consumes its credit.                           *)
FailedActivation == /\ credit' = IF credit = "Activating" THEN "Failed" ELSE credit
                    /\ Done("Activate", "Unknown")

(* The ownership compare-exchange.                                         *)
ActivateAcquires ==
  /\ Working("Activate", "cas")
  /\ \/ /\ owner = [at |-> "idle", epoch |-> jobs["Activate"].seen] /\ owner.epoch < MaxEpoch
        /\ owner' = [at |-> "claimed", epoch |-> owner.epoch + 1]
        /\ jobs' = [jobs EXCEPT !["Activate"].at = "restore"]
        /\ credit' = credit
     \/ FailedActivation /\ owner' = owner
  /\ UNCHANGED <<basis, freed>>

(* The restore and the look at serving.  A restore that fails rolls the    *)
(* claim back to an idle control of the new epoch, unless that fails too;  *)
(* a Cell that serves whose disk reservation cannot be settled also fails. *)
ActivateServes ==
  /\ Working("Activate", "restore")
  /\ \/ /\ owner' = [owner EXCEPT !.at = "receiver"]
        /\ credit' = IF credit = "Activating" THEN "Activated" ELSE credit
        /\ Done("Activate", "Activated") \/ Done("Activate", "Unknown")
     \/ /\ FailedActivation
        /\ owner' \in [at : {"claimed", "idle", "receiver"}, epoch : {owner.epoch}]
  /\ UNCHANGED <<basis, freed>>

(* cancel: unused credit is returned; consumed credit is settled by an     *)
(* activation the controller has seen; anything else stays charged.        *)
CancelRuns(at) ==
  /\ Working("Cancel", at)
  /\ credit' = IF credit = "Prepared" THEN "Cancelled" ELSE credit
  /\ Done("Cancel", IF \/ credit \in {"Prepared", "Cancelled"}
                       \/ credit = "None" /\ Settled
                       \/ credit = "Activated" /\ cleanup
                    THEN "Cleaned" ELSE "Unknown")
  /\ UNCHANGED <<basis, owner, freed>>

(* Steps of the controllers in cs, with the events in `events': maintenance *)
(* of an endpoint, and changes of ownership that are not the attempt's.     *)
MoveStep(cs, events) ==
  \/ \E clock \in {"controllers", "source", "receiver"} : DeadlinePasses(clock)
  \/ "owners" \in events /\ CellIsReleased
  \/ "owners" \in events /\ \E n \in {"receiver", "other"} : CellIsAcquired(n)
  \/ \E c \in cs :
       \/ Claim(c) \/ PassEnds(c) \/ Allocate(c) \/ BeginPhase(c)
       \/ "upkeep" \in events /\ (SettleRoles(c) \/ AdvanceMaintenance(c))
       \/ BeginCleanup(c) \/ Inspect(c) \/ Retire(c) \/ Inspected(c) \/ LookupAcceptance(c)
       \/ ResolveUnaccepted(c) \/ Dispatch(c) \/ Reply(c) \/ Consume(c) \/ Refused(c)
  \/ \E e \in Effects : Accept(e) \/ PublishResult(e) \/ Settle(e)
  \/ PrepareNew \/ PrepareInstalls \/ PrepareReplay
  \/ \E e \in SourceRelease : ReleaseNew(e) \/ ReleaseRuns(e) \/ ReleaseReplay(e)
  \/ \E at \in {"new", "replay"} : ActivateChecks(at) \/ CancelRuns(at)
  \/ ActivateTakes \/ ActivateAcquires \/ ActivateServes

MoveNext == MoveStep(Controllers, {"owners", "upkeep"})

MoveSpec == MoveInit /\ [][MoveNext]_moveVars

-----------------------------------------------------------------------------
(***************************************************************************)
(* Properties.                                                             *)
(***************************************************************************)
(* Types; the attempt's phases agree with the evidence it holds, which     *)
(* MoveAttempt::validate checks on every commit: no reservation before one *)
(* was granted, none lost after, and no cleanup noted while the credit may *)
(* still be used.                                                          *)
MoveTypeOK ==
  /\ holder \in Controllers \cup {"none"}
  /\ attempt.phase \in Phases
  /\ attempt.phase \in {"Planned", "Preparing"} => ~attempt.reserved
  /\ attempt.phase \in {"Reserved", "Releasing", "MaintenanceReleasing", "Released",
                        "Activating", "Activated", "CleaningReceiver"} => attempt.reserved
  /\ attempt.cleaned => attempt.phase \in {"Released", "Activating", "Activated",
                                           "Cancelled"} \cup Retired
  /\ \A e \in Effects : /\ accepted[e] \in Outcomes \cup {"none", "open"}
                        /\ wire[e] \in {"none", "fresh", "stale"}
                        /\ jobs[e].at # "idle" => accepted[e] # "none"
  /\ credit \in {"None", "Prepared", "Activating", "Activated", "Failed", "Cancelled"}

(* Once an attempt has left the head, and with it the fleet's movement     *)
(* permit, the receiver holds no resources for it: no delayed preparation, *)
(* no unfinished and no failed activation survives it (Retire).  One       *)
(* that was cancelled never took the Cell from its source: no release of   *)
(* it has happened, and none that was accepted is still to happen.         *)
AttemptEndsWhole ==
  /\ attempt.phase \in Retired => credit \notin {"Prepared", "Activating", "Failed"}
  /\ attempt.phase \in {"Cancelled", "Dropped"} =>
       /\ ~freed
       /\ \A e \in SourceRelease : jobs[e].at \notin {"new", "leaving"}

(* What the journal records did happen: an attempt past its release has    *)
(* ended the source's ownership, and one recorded as activated was served  *)
(* by another owner of a later epoch.  Its phase agrees with its evidence. *)
EvidenceIsTrue ==
  /\ MoveTypeOK
  /\ attempt.phase \in {"Released", "Activating", "Activated", "CleaningReceiver", "Moved"} =>
       freed
  /\ attempt.phase \in {"Activated", "Moved"} => owner.epoch > 1

(* A node that maintenance may close has no part in a movement: no attempt *)
(* in the head, no release under way at it, no credit held by it.          *)
ClosingIsQuiet ==
  upkeep.phase = "Closing" =>
    /\ ~InHead
    /\ credit \notin {"Prepared", "Activating", "Failed"}
    /\ \A e \in SourceRelease : jobs[e].at \notin {"new", "leaving"}

(* The source gives the Cell up only while the receiver holds resources    *)
(* for it: at the step at which the attempt's release takes effect the     *)
(* credit is there and unused.                                             *)
ReleaseHasReceiver == [][~freed /\ freed' => credit = "Prepared"]_moveVars
=============================================================================
