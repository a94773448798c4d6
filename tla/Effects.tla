------------------------------ MODULE Effects ------------------------------
(***************************************************************************)
(* Cross-Cell effects: the outbox of a source Cell (sys_effects), the      *)
(* inbox of a destination Cell (sys_inbox) and the supervisors that carry  *)
(* effects from one to the other under source leases.                      *)
(*                                                                         *)
(* A transaction of either Cell is one step: the Cell answers only what it *)
(* published.  An answer may be lost, a delivery may land after its sender *)
(* gave up, and a supervisor may stop between any two steps.               *)
(*                                                                         *)
(* Each transaction reads a wall clock that may be up to Skew ahead of     *)
(* true time, because successive owners of a Cell run on different nodes.  *)
(* A Cell's logical time is the latest clock it committed under.  The      *)
(* source works in logical time; the destination accepts deliveries by the *)
(* wall clock and cleans its inbox by logical time.                        *)
(*                                                                         *)
(* The random token of a claim is its attempt, which no claim repeats.     *)
(***************************************************************************)
EXTENDS Integers, FiniteSetsExt

CONSTANTS
    EffectIds,    \* effects the source may emit
    Supervisors,  \* delivery workers
    MaxAttempts,  \* MAX_ATTEMPTS
    LeaseMs,      \* source lease of a claim
    ExtendMs,     \* extension of a lease
    Margin,       \* DELIVERY_MARGIN_MS
    Lifetime,     \* EFFECT_LIFETIME_MS
    Retention,    \* INBOX_RETENTION_MS
    RequestMs,    \* lifetime of one signed peer request
    BaseDelay, MaxDelay,  \* retry_delay_ms
    Skew,         \* how far a clock runs ahead of true time
    LastExpiry,   \* bound: the latest expiry an emitted effect has
    Horizon       \* bound: true time explored

ASSUME LimitsAssumption ==
    /\ MaxAttempts \in Nat \ {0} /\ LeaseMs \in Nat \ {0}
    /\ ExtendMs \in Nat \ {0} /\ Margin \in Nat
    /\ Lifetime \in Nat \ {0} /\ RequestMs \in Nat \ {0} /\ BaseDelay \in Nat \ {0}
    /\ MaxDelay \in Nat \ {0} /\ LastExpiry \in Nat /\ Horizon \in Nat
ASSUME ClockAssumption == Skew \in Nat /\ Retention \in Nat /\ Skew <= Retention

VARIABLES
    now,        \* true time
    sourceTime, \* logical time of the source Cell
    rows,       \* its sys_effects
    destTime,   \* logical time of the destination Cell
    inbox,      \* its sys_inbox
    worker,     \* the cycle each supervisor is in
    requests,   \* deliveries on their way
    handled,    \* the outcomes the destination's handler committed, per effect
    runs        \* how often it committed one

source == <<sourceTime, rows>>
destination == <<destTime, inbox, handled, runs>>
vars == <<now, source, destination, worker, requests>>

Outcomes == {"Success", "Rejected"}
NoRow == [state |-> "None", attempt |-> 0, due |-> 0, expires |-> 0, until |-> 0, result |-> "none"]
NoReceipt == [outcome |-> "none", retain |-> 0]
Idle == [at |-> "idle", effect |-> "none", attempt |-> 0, until |-> 0, expires |-> 0, result |-> "none"]

Init ==
    /\ now = 0 /\ sourceTime = 0 /\ destTime = 0
    /\ rows = [e \in EffectIds |-> NoRow]
    /\ inbox = [e \in EffectIds |-> NoReceipt]
    /\ worker = [s \in Supervisors |-> Idle]
    /\ requests = {}
    /\ handled = [e \in EffectIds |-> {}]
    /\ runs = [e \in EffectIds |-> 0]

-----------------------------------------------------------------------------
(* Time. *)

Clocks == now .. now + Skew
Later(a, b) == IF a > b THEN a ELSE b
Earlier(a, b) == IF a < b THEN a ELSE b
RetryDelay(attempt) == Earlier(BaseDelay * 2 ^ Earlier(attempt, 10), MaxDelay)

Advance ==
    /\ now < Horizon /\ now' = now + 1
    /\ UNCHANGED <<source, destination, worker, requests>>

-----------------------------------------------------------------------------
(* The outbox of the source Cell. *)

Terminal(row) == row.state \in {"Delivered", "Failed", "Removed"}
Exhausted(attempt, due, expires) == attempt >= MaxAttempts \/ due >= expires

\* A source command inserts an intention.
Emit(e) ==
    \E w \in Clocks, ms \in 1 .. Lifetime :
        LET t == Later(sourceTime, w) IN
        /\ rows[e].state = "None" /\ t + ms <= LastExpiry
        /\ rows' = [rows EXCEPT ![e] =
                        [NoRow EXCEPT !.state = "Ready", !.due = t, !.expires = t + ms]]
        /\ sourceTime' = t
        /\ UNCHANGED <<now, destination, worker, requests>>

\* A row leaves its lease for another attempt, or for good.
Returned(row, t) ==
    LET due == t + RetryDelay(row.attempt)
        over == Exhausted(row.attempt, due, row.expires)
    IN  [row EXCEPT !.state = IF over THEN "Failed" ELSE "Ready",
                    !.due = IF over THEN @ ELSE due, !.until = 0]

\* effect_reclaim_expired_bounded, effect_expire_ready_bounded, effect_cleanup_terminal.
Reclaimed(row, t) == IF row.state = "Leased" /\ row.until <= t THEN Returned(row, t) ELSE row
Expired(row, t) ==
    IF row.state = "Ready" /\ (row.expires <= t \/ row.attempt >= MaxAttempts)
    THEN [row EXCEPT !.state = "Failed"] ELSE row
Cleaned(row, t) ==
    IF row.state \in {"Delivered", "Failed"} /\ row.expires <= t
    THEN [NoRow EXCEPT !.state = "Removed"] ELSE row

\* Mutant: the Tick removes what it made terminal.
TickedRowLast(row, t) == Cleaned(Reclaimed(Expired(row, t), t), t)
TickedRow(row, t) == Reclaimed(Expired(Cleaned(row, t), t), t)

\* The maintenance Tick of the source: cleanup comes first, and once.
SourceTick ==
    /\ UNCHANGED <<now, destination, worker, requests>>
    /\ \E w \in Clocks :
        LET t == Later(sourceTime, w) IN
        /\ sourceTime' = t
        /\ rows' = [e \in EffectIds |-> TickedRow(rows[e], t)]

LeaseEnd(t, ms, expires) == Earlier(t + ms, expires)

\* effect_claim of one effect: reclaim, then lease the one due first.  A claim whose
\* answer is lost leaves its lease to expire.
Claim(s) ==
    \E w \in Clocks, heard \in BOOLEAN :
        LET t == Later(sourceTime, w)
            swept == [e \in EffectIds |-> Reclaimed(rows[e], t)]
            ready == {e \in EffectIds : /\ swept[e].state = "Ready" /\ swept[e].due <= t
                                        /\ swept[e].expires > t /\ swept[e].attempt < MaxAttempts}
            first == {e \in ready : \A f \in ready : swept[e].due <= swept[f].due}
        IN  /\ worker[s].at = "idle"
            /\ sourceTime' = t
            /\ \/ ready = {} /\ rows' = swept /\ UNCHANGED worker
               \/ \E e \in first :
                    LET end == LeaseEnd(t, LeaseMs, swept[e].expires)
                        leased == [swept[e] EXCEPT !.state = "Leased", !.attempt = @ + 1, !.until = end]
                    IN  /\ rows' = [swept EXCEPT ![e] = leased]
                        /\ worker' = IF ~heard THEN worker
                                     ELSE [worker EXCEPT ![s] =
                                            [at |-> "claimed", effect |-> e, attempt |-> leased.attempt,
                                             until |-> end, expires |-> leased.expires,
                                             result |-> "none"]]
            /\ UNCHANGED <<now, destination, requests>>

\* Mutant: the settlement does not name its attempt.
HoldsAny(c, t) ==
    LET row == rows[c.effect] IN row.state = "Leased" /\ row.until > t /\ row.expires = c.expires
\* The claim's exact attempt still holds an unexpired lease (apply_lease).
Holds(c, t) ==
    LET row == rows[c.effect] IN
    /\ row.state = "Leased" /\ row.attempt = c.attempt
    /\ row.until > t /\ row.expires = c.expires


\* A lease command at the source's time t leaves row, or nothing when the lease is not held.
Settle(s, t, row) ==
    /\ rows' = IF Holds(worker[s], t) THEN [rows EXCEPT ![worker[s].effect] = row] ELSE rows
    /\ sourceTime' = t
    /\ worker' = [worker EXCEPT ![s] = Idle]
    /\ UNCHANGED <<now, destination, requests>>

\* effect_ack_lease: any outcome of the destination is a delivery.
Ack(s) ==
    /\ worker[s].at = "ack"
    /\ \E w \in Clocks :
           Settle(s, Later(sourceTime, w),
                  [rows[worker[s].effect] EXCEPT !.state = "Delivered", !.until = 0, !.result = worker[s].result])

\* effect_retry_lease.
Retry(s) ==
    /\ worker[s].at = "retry"
    /\ \E w \in Clocks :
           LET t == Later(sourceTime, w) IN Settle(s, t, Returned(rows[worker[s].effect], t))

\* effect_extend moves the end of the lease forward; the claim keeps the old end.
Extend(s) ==
    \E w \in Clocks :
        LET t == Later(sourceTime, w)
            e == worker[s].effect
        IN  /\ worker[s].at # "idle" /\ Holds(worker[s], t)
            /\ rows' = [rows EXCEPT ![e].until = Later(@, LeaseEnd(t, ExtendMs, rows[e].expires))]
            /\ sourceTime' = t
            /\ UNCHANGED <<now, destination, worker, requests>>

-----------------------------------------------------------------------------
(* The inbox of the destination Cell. *)

\* The supervisor that still waits for this request hears its end.
Hear(m, at, result) ==
    LET c == worker[m.by] IN
    worker' = IF c.at = "wait" /\ c.effect = m.effect /\ c.attempt = m.attempt
              THEN [worker EXCEPT ![m.by] = IF at = "idle" THEN Idle
                                            ELSE [c EXCEPT !.at = at, !.result = result]]
              ELSE worker

\* inbox_apply answers a repeated delivery from its receipt.
Answer(e, outcome) == IF inbox[e] = NoReceipt THEN outcome ELSE inbox[e].outcome

\* The destination takes the request before it expires, and inbox_apply runs the handler
\* or replays its receipt.
Deliver(m) ==
    \E w \in Clocks, outcome \in Outcomes, heard \in BOOLEAN :
        LET e == m.effect
            fresh == inbox[e] = NoReceipt
        IN  /\ w < m.until /\ w < m.expires
            /\ IF fresh
               THEN /\ inbox' = [inbox EXCEPT ![e] =
                                    [outcome |-> outcome, retain |-> m.expires + Retention]]
                    /\ handled' = [handled EXCEPT ![e] = @ \cup {outcome}]
                    /\ runs' = [runs EXCEPT ![e] = @ + 1]
                    /\ destTime' = Later(destTime, w)
               ELSE UNCHANGED destination
            /\ requests' = requests \ {m}
            /\ IF heard THEN Hear(m, "ack", Answer(e, outcome)) ELSE UNCHANGED worker
            /\ UNCHANGED <<now, source>>

\* The request is lost, or refused: it expired, the Cell moves, is full or closed.
Refuse(m) ==
    /\ requests' = requests \ {m}
    /\ \/ UNCHANGED worker
       \/ Hear(m, "retry", "none")
       \/ Hear(m, "idle", "none")
    /\ UNCHANGED <<now, source, destination>>

\* Mutant: a receipt is dropped as soon as its effect expires.
KeptToExpiry(receipt, t) == receipt.retain > t + Retention
Kept(receipt, t) == receipt.retain > t

\* The maintenance Tick of the destination: inbox_cleanup_expired in logical time.
DestinationTick ==
    \E w \in Clocks :
        LET t == Later(destTime, w) IN
        /\ inbox' = [e \in EffectIds |-> IF Kept(inbox[e], t) THEN inbox[e] ELSE NoReceipt]
        /\ destTime' = t
        /\ UNCHANGED <<now, source, handled, runs, worker, requests>>

-----------------------------------------------------------------------------
(* The supervisor: run_once. *)

Go(s, at) == worker' = [worker EXCEPT ![s] = IF at = "idle" THEN Idle ELSE [@ EXCEPT !.at = at]]

\* effect_validate_claim: the published lease is the claim's, with its margin left.
Validate(s) ==
    \E w \in Clocks :
        LET t == Later(sourceTime, w)
            c == worker[s]
            row == rows[c.effect]
            live == /\ row.state = "Leased" /\ row.attempt = c.attempt /\ row.expires = c.expires
                    /\ row.until = c.until /\ c.until >= t + Margin
        IN  /\ c.at = "claimed"
            /\ Go(s, IF live THEN "valid" ELSE "idle")
            /\ UNCHANGED <<now, source, destination, requests>>

\* EffectPeerClient::deliver: too late to send, or sent with its own expiry.
Send(s) ==
    \E w \in Clocks :
        LET c == worker[s]
            request == [by |-> s, effect |-> c.effect, attempt |-> c.attempt, expires |-> c.expires,
                        until |-> Earlier(w + RequestMs, c.expires)]
        IN  /\ c.at = "valid"
            /\ IF c.until < w + Margin
               THEN Go(s, "idle") /\ UNCHANGED requests
               ELSE Go(s, "wait") /\ requests' = requests \cup {request}
            /\ UNCHANGED <<now, source, destination>>

\* The destination cannot be described: a transport failure is retried, others end the cycle.
SendFails(s) ==
    /\ worker[s].at = "valid"
    /\ \E at \in {"retry", "idle"} : Go(s, at)
    /\ UNCHANGED <<now, source, destination, requests>>

\* The answer is lost: the outcome is unknown.
LoseAnswer(s) ==
    /\ worker[s].at = "wait" /\ Go(s, "resolve")
    /\ UNCHANGED <<now, source, destination, requests>>

\* inbox_resolve: a receipt is acknowledged; absent, expired and unknown are retried.
Resolve(s) ==
    \E w \in Clocks :
        LET c == worker[s]
            receipt == inbox[c.effect]
            committed == c.expires > w /\ receipt # NoReceipt
        IN  /\ c.at = "resolve"
            /\ \/ committed /\ worker' = [worker EXCEPT ![s].at = "ack", ![s].result = receipt.outcome]
               \/ ~committed /\ Go(s, "retry")
               \/ \E at \in {"retry", "idle"} : Go(s, at)
            /\ UNCHANGED <<now, source, destination, requests>>

\* A supervisor stops, or a source command of its fails: its cycle is forgotten.
Stop(s) ==
    /\ worker[s].at # "idle" /\ Go(s, "idle")
    /\ UNCHANGED <<now, source, destination, requests>>

Next ==
    \/ Advance \/ SourceTick \/ DestinationTick
    \/ \E e \in EffectIds : Emit(e)
    \/ \E s \in Supervisors :
        \/ Claim(s) \/ Validate(s) \/ Send(s) \/ SendFails(s) \/ LoseAnswer(s)
        \/ Resolve(s) \/ Ack(s) \/ Retry(s) \/ Extend(s) \/ Stop(s)
    \/ \E m \in requests : Deliver(m) \/ Refuse(m)

Spec == Init /\ [][Next]_vars

\* Time passes and the scheduler wakes the source Cell; nothing is asked of the
\* supervisors, the network or the destination.
FairSpec == Spec /\ WF_vars(Advance) /\ WF_vars(SourceTick)

-----------------------------------------------------------------------------
(* Properties. *)

States == {"None", "Ready", "Leased", "Delivered", "Failed", "Removed"}
Results == Outcomes \cup {"none"}

\* Rows, receipts, cycles and requests have their shapes, and a lease never outlives its
\* effect (effect_claim, effect_extend).
TypeOK ==
    /\ now \in 0 .. Horizon /\ sourceTime \in Nat /\ destTime \in Nat
    /\ \A e \in EffectIds :
        /\ rows[e].state \in States /\ rows[e].attempt \in 0 .. MaxAttempts
        /\ rows[e].result \in Results
        /\ {rows[e].due, rows[e].expires, rows[e].until} \subseteq Nat
        /\ rows[e].until <= rows[e].expires
        /\ inbox[e].outcome \in Results /\ inbox[e].retain \in Nat
        /\ handled[e] \subseteq Outcomes /\ runs[e] \in Nat
    /\ \A s \in Supervisors :
        /\ worker[s].at \in {"idle", "claimed", "valid", "wait", "resolve", "ack", "retry"}
        /\ worker[s].at # "idle" => worker[s].effect \in EffectIds
    /\ \A m \in requests : m.by \in Supervisors /\ m.effect \in EffectIds

\* However often an effect is delivered, late or again, its handler commits at most one
\* outcome (inbox_apply, inbox_cleanup_expired): the receipt outlives every delivery the
\* destination would still accept.  The result the source row keeps is that outcome (ack,
\* resolve).
HandledOnce ==
    /\ TypeOK
    /\ \A e \in EffectIds :
        /\ runs[e] <= 1
        /\ rows[e].state = "Delivered" => rows[e].result \in handled[e]

\* While a lease is unexpired only the supervisor of its very attempt ends it (apply_lease).
LeaseEndsByHolder ==
    \A e \in EffectIds :
        (/\ rows[e].state = "Leased" /\ rows[e].until > sourceTime'
         /\ rows'[e].state # "Leased")
        => \E s \in Supervisors : /\ worker[s].at \in {"ack", "retry"} /\ worker[s].effect = e
                                  /\ worker[s].attempt = rows[e].attempt

\* The refinement mapping to EffectContract.
EffectPhase ==
    [e \in EffectIds |-> IF rows[e].state \in {"Ready", "Leased"} THEN "Pending" ELSE rows[e].state]
EffectVerdict ==
    [e \in EffectIds |-> IF handled[e] = {} THEN "none" ELSE CHOOSE o \in handled[e] : TRUE]
Promised == INSTANCE EffectContract WITH Ids <- EffectIds, Verdicts <- Outcomes,
                                         phase <- EffectPhase, verdict <- EffectVerdict
\* Effects keep the contract the primitives rely on (EffectContract): an open effect is
\* delivered only after its handler committed, is settled once, and its settlement is observable
\* between two transactions at least, before the row is removed for good (effect_ack_lease,
\* inbox_apply, scheduler_tick_at).
ImplementsContract == Promised!Contract

\* Every emitted effect reaches a terminal state, whatever supervisors, network and
\* destination do (effect_expire_ready, effect_reclaim_expired).
EffectSettles == \A e \in EffectIds : rows[e].state = "Ready" ~> Terminal(rows[e])

=============================================================================
