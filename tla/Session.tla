------------------------------- MODULE Session ------------------------------
(***************************************************************************)
(* One boot session of a node: its record in the directory, the heartbeat  *)
(* that renews it, the lease guard that closes local admission, and its    *)
(* withdrawal, against other sessions that fence it once it has expired.   *)
(* Every write is a compare-and-set on the version last read; an answer    *)
(* may be lost and a request may land after its sender gave up.  The time  *)
(* is the node's monotonic clock.  Its wall clock differs from that by a   *)
(* drift that a step of the clock may change at any moment, and another    *)
(* session's wall clock by a constant.                                     *)
(***************************************************************************)
EXTENDS Integers, FiniteSets

CONSTANTS
    Fencers,       \* the other sessions
    Skews,         \* what a fencer's wall clock may be ahead of the time
    Drifts,        \* what the node's wall clock may be ahead of the time
    LeaseMs,       \* lifetime of an advertisement
    MaxLeaseMs,    \* MAX_NODE_LEASE_MS
    StaleMs,       \* STALE_ADVERTISEMENT_RETENTION_MS
    Tries,         \* attempts of a refresh or withdrawal
    SessHorizon,   \* bound: time explored
    ClockSteps,    \* bound: steps of the node's wall clock
    LogChanges     \* bound: enrollments and closures of the node log

ASSUME SessAssumption ==
    /\ Skews \cup Drifts \subseteq Int /\ {LeaseMs, Tries} \subseteq Nat \ {0}
    /\ MaxLeaseMs \in Nat /\ LeaseMs <= MaxLeaseMs
    /\ {StaleMs, SessHorizon, ClockSteps, LogChanges} \subseteq Nat

VARIABLES
    time, drift, skew,
    record,      \* the session's record in the directory
    node,        \* the process: what it does, the record it last saw, and what it publishes
    guard,       \* NodeLeaseGuard, and how late the reading was from which it was set
    inflight,    \* an update whose sender gave up on it
    seen,        \* what a fencer loaded, and its clock then
    logChanges, clockSteps

clocks == <<time, drift, skew, clockSteps>>
sessVars == <<clocks, record, node, guard, inflight, seen, logChanges>>

Absent == [kind |-> "Absent", version |-> 0, issued |-> 0, expires |-> 0, log |-> FALSE,
           by |-> "none", at |-> 0]
Nothing == [record |-> Absent, at |-> 0]

SessInit ==
    /\ time = 0 /\ drift = 0 /\ clockSteps = 0 /\ skew \in [Fencers -> Skews]
    /\ record = Absent
    /\ node = [pc |-> "Boot", base |-> Absent, next |-> Absent, tries |-> 0,
               now |-> 0, read |-> 0]
    /\ guard = [deadline |-> 0, fenced |-> FALSE, lag |-> 0]
    /\ inflight = {} /\ seen = [f \in Fencers |-> Nothing] /\ logChanges = 0

GuardLive == ~guard.fenced /\ time < guard.deadline
\* The runtime was drained before the withdrawal begins.
Running == node.pc \in {"Serving", "Send", "Reload", "Refreshed", "Renew"}
Admits == GuardLive /\ Running

\* now_ms of the process.
Wall == time + drift

SessAdvance ==
    /\ time < SessHorizon /\ time' = time + 1
    /\ UNCHANGED <<drift, skew, clockSteps, record, node, guard, inflight, seen, logChanges>>

\* The node's wall clock is set, forward or back.
StepClock ==
    /\ clockSteps < ClockSteps /\ clockSteps' = clockSteps + 1
    /\ drift' \in Drifts \ {drift} /\ time + drift' >= 0
    /\ UNCHANGED <<time, skew, record, node, guard, inflight, seen, logChanges>>

-----------------------------------------------------------------------------
(* Writing the record. *)

\* Mutant: a write takes a tombstone for the record it is to replace.
MatchesTomb(base) == record.version = base.version \/ record.kind = "Tomb"
MatchesVersion(base) == record.version = base.version

Written(base, next) == [next EXCEPT !.version = base.version + 1]

\* NodeDirectory::refresh: the log of the record it replaces is kept.
Heartbeat(base, next) == [next EXCEPT !.log = base.log]

\* The update lands and is answered; lands unanswered; is lost or refused; or lands later.
Answered(base, next) ==
    MatchesVersion(base) /\ record' = Written(base, next) /\ UNCHANGED inflight
Unanswered(base, next) ==
    \/ MatchesVersion(base) /\ record' = Written(base, next) /\ UNCHANGED inflight
    \/ UNCHANGED <<record, inflight>>
    \/ inflight = {} /\ inflight' = {[base |-> base, next |-> next]} /\ UNCHANGED record

FlightLands ==
    \E f \in inflight :
        /\ inflight' = {}
        /\ record' = IF MatchesVersion(f.base) THEN Written(f.base, f.next) ELSE record
        /\ UNCHANGED <<clocks, node, guard, seen, logChanges>>

-----------------------------------------------------------------------------
(* The process. *)

\* The renewal task ends: the guard is fenced for good.
End(pc) == node' = [node EXCEPT !.pc = pc] /\ guard' = [guard EXCEPT !.fenced = TRUE]

\* NodeDirectory::create; its answer may be lost, and then the record is loaded.
Create ==
    LET ad == [Absent EXCEPT !.kind = "Ad", !.issued = Wall, !.expires = Wall + LeaseMs] IN
    /\ node.pc = "Boot"
    /\ record' = Written(Absent, ad)
    /\ node' = [node EXCEPT !.pc = "Created", !.base = Written(Absent, ad)]
    /\ UNCHANGED <<clocks, guard, inflight, seen, logChanges>>

\* now_ms, before NodeLeaseGuard::new and before renew.
ReadClock ==
    /\ node.pc \in {"Created", "Refreshed"}
    /\ node' = [node EXCEPT !.pc = IF @ = "Created" THEN "Install" ELSE "Renew",
                            !.now = Wall, !.read = time]
    /\ UNCHANGED <<clocks, record, guard, inflight, seen, logChanges>>

Remaining(expires) == expires - node.now
\* lease_remaining.
LeaseBounded(expires) == Remaining(expires) \in 1..MaxLeaseMs

\* Mutant: the guard lasts a whole lease from when it is set.
DeadlineFull(expires) == time + LeaseMs
\* What remained at the reading of the wall clock, added to the monotonic clock as it is now.
Deadline(expires) == time + Remaining(expires)

SetGuard(expires) ==
    guard' = [guard EXCEPT !.deadline = Deadline(expires), !.lag = time - node.now]

\* NodeLeaseGuard::new; a session whose lease is not in bounds is withdrawn, in one attempt.
Install ==
    /\ node.pc = "Install"
    /\ IF LeaseBounded(node.base.expires)
       THEN node' = [node EXCEPT !.pc = "Serving", !.now = 0] /\ SetGuard(node.base.expires)
       ELSE node' = [node EXCEPT !.pc = "Withdraw", !.tries = Tries, !.now = 0] /\ UNCHANGED guard
    /\ UNCHANGED <<clocks, record, inflight, seen, logChanges>>

\* The renewal loop has slept and signs its next heartbeat, which refresh refuses when the wall
\* clock has not passed the issue of the last.
BeginRefresh ==
    /\ node.pc = "Serving" /\ time > node.read
    /\ IF Wall > node.base.issued
       THEN /\ node' = [node EXCEPT !.pc = "Send", !.tries = 1, !.read = 0,
                !.next = [Absent EXCEPT !.kind = "Ad", !.issued = Wall, !.expires = Wall + LeaseMs]]
            /\ UNCHANGED guard
       ELSE End("Failed")
    /\ UNCHANGED <<clocks, record, inflight, seen, logChanges>>

\* NodeDirectory::refresh sends the successor of its base.
SendRefresh ==
    LET next == Heartbeat(node.base, node.next) IN
    /\ node.pc = "Send"
    /\ \/ Answered(node.base, next) /\ node' = [node EXCEPT !.pc = "Refreshed", !.base = Written(node.base, next)]
       \/ Unanswered(node.base, next) /\ node' = [node EXCEPT !.pc = "Reload"]
    /\ UNCHANGED <<clocks, guard, seen, logChanges>>

\* After a failed update the record is loaded: the candidate itself, another state of the same
\* boot to start again from, or a record that ends the loop.
ReloadRefresh ==
    LET current == record
        alive == current.kind = "Ad" /\ current.expires > node.next.issued
        landed == current = Written(node.base, Heartbeat(node.base, node.next))
        again == alive /\ ~landed /\ node.tries < Tries
    IN  /\ node.pc = "Reload"
        /\ \/ /\ (alive /\ landed) \/ (again /\ current.issued >= node.next.issued)
              /\ node' = [node EXCEPT !.pc = "Refreshed", !.base = current] /\ UNCHANGED guard
           \/ /\ again /\ current.issued < node.next.issued
              /\ node' = [node EXCEPT !.pc = "Send", !.base = current, !.tries = @ + 1] /\ UNCHANGED guard
           \/ (~alive \/ (~landed /\ node.tries = Tries)) /\ End("Failed")
        /\ UNCHANGED <<clocks, record, inflight, seen, logChanges>>

\* NodeLeaseGuard::renew: an ended lease is terminal, and the deadline has to advance.
Renewable(expires) == LeaseBounded(expires) /\ GuardLive /\ Deadline(expires) > guard.deadline

RenewGuard ==
    /\ node.pc = "Renew"
    /\ IF Renewable(node.base.expires)
       THEN /\ node' = [node EXCEPT !.pc = "Serving", !.next = Absent, !.now = 0]
            /\ SetGuard(node.base.expires)
       ELSE End("Failed")
    /\ UNCHANGED <<clocks, record, inflight, seen, logChanges>>

\* The refresh is given up when the lease has no time left; its update may still be under way.
RefreshTimesOut ==
    /\ node.pc \in {"Send", "Reload"} /\ time >= guard.deadline
    /\ IF node.pc = "Send" THEN Unanswered(node.base, Heartbeat(node.base, node.next)) ELSE UNCHANGED <<record, inflight>>
    /\ End("Failed")
    /\ UNCHANGED <<clocks, seen, logChanges>>

\* The node log is enrolled in the record, or closed, through the record as it is.
ChangeLog ==
    /\ Running /\ record.kind = "Ad" /\ GuardLive
    /\ logChanges < LogChanges /\ logChanges' = logChanges + 1
    /\ record' = Written(record, [record EXCEPT !.log = ~@])
    /\ UNCHANGED <<clocks, node, guard, inflight, seen>>

-----------------------------------------------------------------------------
(* withdraw_after_drain. *)

\* Shutdown ends the renewal loop; the guard is fenced once the withdrawal has ended.
Drain ==
    /\ node.pc = "Serving"
    /\ node' = [node EXCEPT !.pc = "Withdraw", !.tries = 1, !.read = 0]
    /\ UNCHANGED <<clocks, record, guard, inflight, seen, logChanges>>

Tombstone(r, by) == [r EXCEPT !.kind = "Tomb", !.by = by]

\* withdraw: the log has to be sealed first.
Withdrawable(base) == ~base.log

SendWithdraw ==
    /\ node.pc = "Withdraw"
    /\ IF Withdrawable(node.base)
       THEN \/ /\ Answered(node.base, Tombstone(node.base, "self"))
               /\ End("Withdrawn")
            \/ /\ Unanswered(node.base, Tombstone(node.base, "self"))
               /\ node' = [node EXCEPT !.pc = "ReloadWithdraw"] /\ UNCHANGED guard
       ELSE node' = [node EXCEPT !.pc = "Rebase"] /\ UNCHANGED <<record, guard, inflight>>
    /\ UNCHANGED <<clocks, seen, logChanges>>

\* A tombstone without claim or log is this withdrawal, or as good.
ReloadWithdraw ==
    /\ node.pc = "ReloadWithdraw"
    /\ IF record.kind = "Tomb" /\ record.by \in {"self", "stale"} /\ ~record.log
       THEN End("Withdrawn")
       ELSE node' = [node EXCEPT !.pc = "Rebase"] /\ UNCHANGED guard
    /\ UNCHANGED <<clocks, record, inflight, seen, logChanges>>

\* A heartbeat that was not observed is the base of the next attempt.
Rebase ==
    /\ node.pc = "Rebase"
    /\ IF record.kind = "Ad" /\ record.version > node.base.version /\ node.tries < Tries
       THEN node' = [node EXCEPT !.pc = "Withdraw", !.base = record, !.tries = @ + 1] /\ UNCHANGED guard
       ELSE End("Failed")
    /\ UNCHANGED <<clocks, record, inflight, seen, logChanges>>

-----------------------------------------------------------------------------
(* Fencing an expired session. *)

Clock(f) == time + skew[f]

\* claim_expired_inner and collect_stale load the record.
Look(f) ==
    /\ record.kind # "Absent" /\ record.by \notin Fencers /\ seen[f] = Nothing
    /\ seen' = [seen EXCEPT ![f] = [record |-> record, at |-> Clock(f)]]
    /\ UNCHANGED <<clocks, record, node, guard, inflight, logChanges>>

Expired(r, at) == r.expires <= at

\* The compare-and-set of a claim, or of a collected advertisement, or neither.  (NodeLog models
\* the claim that takes over from a claim.)
Fence(f) ==
    LET r == seen[f].record
        at == seen[f].at
    IN  /\ seen[f] # Nothing /\ seen' = [seen EXCEPT ![f] = Nothing]
        /\ \/ /\ IF r.kind = "Tomb" THEN r.by \notin Fencers ELSE Expired(r, at)
              /\ record' = IF MatchesVersion(r) THEN Written(r, [Tombstone(r, f) EXCEPT !.at = at]) ELSE record
           \/ /\ r.kind = "Ad" /\ r.expires + StaleMs <= at
              /\ record' = IF MatchesVersion(r) THEN Written(r, Tombstone(r, "stale")) ELSE record
           \/ UNCHANGED record
        /\ UNCHANGED <<clocks, node, guard, inflight, logChanges>>

SessNext ==
    \/ SessAdvance \/ StepClock \/ FlightLands
    \/ Create \/ ReadClock \/ Install \/ BeginRefresh \/ SendRefresh \/ ReloadRefresh \/ RenewGuard
    \/ RefreshTimesOut \/ ChangeLog \/ Drain \/ SendWithdraw \/ ReloadWithdraw \/ Rebase
    \/ \E f \in Fencers : Look(f) \/ Fence(f)

SessSpec == SessInit /\ [][SessNext]_sessVars

-----------------------------------------------------------------------------
(* Properties. *)

\* When another session has fenced this one, local admission has ended, or ends within what
\* the fencer's clock is ahead and the guard's own reading of the clock was late; with clocks that
\* agree, and no pause between reading the clock and setting the guard, it has ended by the moment
\* the fencer looked.  However late heartbeats land and answers arrive, nothing else adds to that
\* (NodeLeaseGuard::new and renew, claim_expired_inner).
GuardEndsFirst ==
    (record.kind = "Tomb" /\ record.by \in Fencers /\ Admits) =>
        LET ahead == skew[record.by]
            looked == record.at - ahead
        IN  time - looked < ahead + guard.lag

\* A heartbeat under way does no harm however late it lands: it revives no fenced session
\* (claim_expired: "a paused owner cannot revive its old advertisement") and drops no log, which
\* only the log's own steps and its fencing change (refresh clones the log of its base).
LateHeartbeatIsHarmless ==
    [][/\ record.kind = "Tomb" => record'.kind = "Tomb"
       /\ record'.log # record.log => logChanges' # logChanges]_sessVars

=============================================================================
