------------------------------ MODULE Workflow ------------------------------
(***************************************************************************)
(* One workflow and the activity supervisors that serve it.                *)
(*                                                                         *)
(* Every action that touches the Cell is one transaction at its logical    *)
(* time flowAt.  A run is named by the request that started it, and the    *)
(* requests are numbered in the order in which they are made.  The         *)
(* compiled definition is deterministic for its caller and arbitrary here: *)
(* each event may lead to any decision in Decisions.  An action is named   *)
(* by the sequence of the decision that scheduled it (action_id); the      *)
(* random token of a claim is its attempt, which an activity never         *)
(* repeats.  Of a task that came to its end nothing else is read again,    *)
(* and a late completion of it changes nothing, whether it is answered     *)
(* Duplicate, IdentityConflict or LeaseLost.                               *)
(***************************************************************************)
EXTENDS Integers, FiniteSets

CONSTANTS
    MaxRuns,         \* bound: runs started
    Signals,         \* signal identities
    Workers,         \* activity supervisors
    FlowAttempts,    \* MAX_ATTEMPTS
    FlowLease,       \* heartbeat lease of each supervisor
    FlowMaxLease,    \* MAX_LEASE_MS, reserved before a completion
    FlowRetry,       \* retry_delay_ms
    FlowMargin,      \* DELIVERY_MARGIN_MS
    ActivityLife,    \* expires_at_ms of an activity, from its decision
    TimerDelay,      \* due_at_ms of a timer, from its decision
    FlowRetention,   \* TERMINAL_RETENTION_MS
    MaxTasks,        \* MAX_ACTIONS outstanding
    MaxEvents,       \* MAX_EVENTS_PER_CELL
    FlowHorizon      \* bound: logical time explored

ASSUME FlowAssumption ==
    /\ {FlowAttempts, FlowMaxLease, ActivityLife, TimerDelay, MaxTasks, MaxEvents,
        MaxRuns}
       \subseteq Nat \ {0}
    /\ {FlowRetry, FlowMargin, FlowRetention, FlowHorizon} \subseteq Nat
    /\ \A w \in Workers : FlowLease[w] \in 1 .. FlowMaxLease

VARIABLES
    flowAt,     \* logical time of the Cell
    flow,       \* its workflow tables
    started,    \* runs started
    supervisor  \* what each supervisor is doing

flowVars == <<flowAt, flow, started, supervisor>>

Sequences == 1 .. MaxEvents
Ended == {"Completed", "Failed", "Cancelled"}
NoRun == [id |-> 0, status |-> "None", sequence |-> 0, ended |-> 0]
NoActivity == [state |-> "None", attempt |-> 0, due |-> 0, expires |-> 0, until |-> 0]
NoTimer == [state |-> "None", due |-> 0]
NoFlow == [run |-> NoRun, activity |-> [i \in Sequences |-> NoActivity],
           timer |-> [i \in Sequences |-> NoTimer], events |-> {}]
NoClaim == [at |-> "idle", run |-> 0, activity |-> 0, attempt |-> 0, until |-> 0]

FlowInit ==
    /\ flowAt = 0 /\ flow = NoFlow /\ started = 0
    /\ supervisor = [w \in Workers |-> NoClaim]

FlowAdvance == flowAt < FlowHorizon /\ flowAt' = flowAt + 1 /\ UNCHANGED <<flow, started, supervisor>>

-----------------------------------------------------------------------------
(* Transitions.  An operator takes a state of the tables to the states one  *)
(* statement of the transaction may leave; none is left when it fails and   *)
(* the transaction with it.                                                 *)

\* What a definition may decide: go on, with an activity, a timer or both, or end the run.
Decisions == [ends : {FALSE}, activity : BOOLEAN, timer : BOOLEAN]
             \cup [ends : {TRUE}, activity : {FALSE}, timer : {FALSE}]

Outstanding(f) ==
    {<<"activity", i>> : i \in {j \in Sequences : f.activity[j].state \in {"Ready", "Leased"}}}
    \cup {<<"timer", i>> : i \in {j \in Sequences : f.timer[j].state = "Pending"}}

\* A task in its last state.
Past(state) == [NoActivity EXCEPT !.state = state]
PastTimer(state) == [NoTimer EXCEPT !.state = state]

\* cancel_outstanding.
CancelOutstanding(f) ==
    [f EXCEPT !.activity = [i \in Sequences |-> IF @[i].state \in {"Ready", "Leased"}
                                                THEN Past("Cancelled") ELSE @[i]],
              !.timer = [i \in Sequences |-> IF @[i].state = "Pending" THEN PastTimer("Cancelled") ELSE @[i]]]

\* next_sequence and insert_event: the event moves the run on by one.
Logged(f, event) == [f EXCEPT !.run.sequence = @ + 1, !.events = @ \cup {event}]
RoomForEvent(f) == Cardinality(f.events) < MaxEvents

\* apply_decision.
ApplyDecision(f, d) ==
    LET i == f.run.sequence
        activity == [NoActivity EXCEPT !.state = "Ready", !.due = flowAt, !.expires = flowAt + ActivityLife]
        timer == [NoTimer EXCEPT !.state = "Pending", !.due = flowAt + TimerDelay]
    IN  IF d.ends
        THEN CancelOutstanding([f EXCEPT !.run.status = "Completed", !.run.ended = flowAt])
        ELSE [f EXCEPT !.activity[i] = IF d.activity THEN activity ELSE @,
                       !.timer[i] = IF d.timer THEN timer ELSE @]

Scheduled(d) == {k \in {"activity", "timer"} : d[k]}

\* Bound: the deadlines of a decision's tasks are explored.
InHorizon(d) ==
    /\ d.activity => flowAt + ActivityLife <= FlowHorizon
    /\ d.timer => flowAt + TimerDelay <= FlowHorizon

\* prepare_transition and commit_transition.
Transition(f, event) ==
    {ApplyDecision(Logged(f, event), d) :
        d \in {c \in Decisions :
                /\ RoomForEvent(f) /\ InHorizon(c)
                /\ Cardinality(Outstanding(f)) + Cardinality(Scheduled(c)) <= MaxTasks}}

-----------------------------------------------------------------------------
(* Clients and operators. *)

Client(tables) == flow' = tables /\ UNCHANGED <<flowAt, started, supervisor>>

\* workflow_start with no run of the workflow in the tables.
Start(r) ==
    LET fresh == [NoFlow EXCEPT !.run.id = r, !.run.status = "Running"] IN
    /\ started' = r
    /\ flow' \in Transition(fresh, <<"request", r>>)
    /\ UNCHANGED <<flowAt, supervisor>>

FlowStart == flow.run = NoRun /\ Start(started + 1)

\* workflow_control: Restart deletes the ended run and starts another.
FlowRestart == flow.run.status \in Ended /\ Start(started + 1)

\* Mutant: a signal that is delivered again is applied again.
SignalNewAlways(f, id) == TRUE
\* stored_event_digest finds no event of this identity.
SignalNew(f, id) == id \notin f.events

\* workflow_signal names its run; it is refused unless the run is the current one and runs.
FlowSignal ==
    \E s \in Signals :
        LET id == <<"signal", s>> IN
        /\ flow.run.status = "Running" /\ SignalNew(flow, id)
        /\ flow' \in Transition(flow, id)
        /\ UNCHANGED <<flowAt, started, supervisor>>

\* workflow_cancel.
FlowCancel ==
    /\ flow.run.status \in {"Running", "Paused"} /\ RoomForEvent(flow)
    /\ Client(CancelOutstanding([Logged(flow, <<"cancel">>) EXCEPT !.run.status = "Cancelled",
                                                                   !.run.ended = flowAt]))

Pausable(f) == f.run.status = "Running" /\ \A i \in Sequences : f.activity[i].state # "Leased"

FlowPause == Pausable(flow) /\ Client([flow EXCEPT !.run.status = "Paused"])
FlowResume == flow.run.status = "Paused" /\ Client([flow EXCEPT !.run.status = "Running"])

-----------------------------------------------------------------------------
(* Activities. *)

Least(S) == {x \in S : \A y \in S : x[1] <= y[1]}
EarliestOf(f, S) == {p[2] : p \in Least({<<f.activity[i].due, i>> : i \in S})}

LeaseOut(a) == a.state = "Leased" /\ a.until <= flowAt
Hopeless(a) == a.expires <= flowAt \/ a.attempt >= FlowAttempts

\* workflow_reclaim_expired_bounded.
FlowReclaimed(f) ==
    [f EXCEPT !.activity = [i \in Sequences |->
        IF ~LeaseOut(@[i]) THEN @[i]
        ELSE [@[i] EXCEPT !.state = "Ready", !.until = 0, !.due = IF Hopeless(f.activity[i]) THEN @ ELSE flowAt]]]

Nearer(a, b) == IF a < b THEN a ELSE b
Farther(a, b) == IF a > b THEN a ELSE b

ActivityLease(a, ms) == Nearer(flowAt + ms, a.expires)

\* workflow_claim_activities for one activity.
FlowClaim(w) ==
    LET f == FlowReclaimed(flow)
        ready == {i \in Sequences : /\ f.activity[i].state = "Ready" /\ f.activity[i].due <= flowAt
                                    /\ ~Hopeless(f.activity[i]) /\ f.run.status = "Running"}
        end(i) == ActivityLease(f.activity[i], FlowLease[w])
    IN  /\ supervisor[w] = NoClaim
        /\ UNCHANGED <<flowAt, started>>
        /\ \/ ready = {} /\ flow' = f /\ UNCHANGED supervisor
           \/ \E i \in EarliestOf(f, ready) :
                /\ flow' = [f EXCEPT !.activity[i] = [@ EXCEPT !.state = "Leased", !.attempt = @ + 1,
                                                              !.until = end(i)]]
                /\ supervisor' = [supervisor EXCEPT ![w] = [NoClaim EXCEPT
                                !.at = "claimed", !.run = f.run.id, !.activity = i,
                                !.attempt = f.activity[i].attempt + 1, !.until = end(i)]]

\* The activity a claim names, when its run is still in the tables.
Claimed(c) == IF c.run = flow.run.id /\ c.activity # 0 THEN flow.activity[c.activity] ELSE NoActivity

\* workflow_validate_activity_claim at the claim's receipt; a refused claim is dropped.
FlowValidate(w) ==
    LET c == supervisor[w]
        valid == /\ Claimed(c).state = "Leased" /\ Claimed(c).attempt = c.attempt
                 /\ Claimed(c).until = c.until /\ c.until >= flowAt + FlowMargin
                 /\ flow.run.status = "Running"
    IN  /\ c.at = "claimed"
        /\ supervisor' = [supervisor EXCEPT ![w] = IF valid THEN [c EXCEPT !.at = "running", !.until = 0] ELSE NoClaim]
        /\ UNCHANGED <<flowAt, flow, started>>

LiveClaim(c) ==
    /\ Claimed(c).state = "Leased" /\ Claimed(c).attempt = c.attempt
    /\ Claimed(c).until > flowAt /\ flow.run.status = "Running"

\* workflow_extend_activity, after which the supervisor goes on or gives up.
ExtendLease(w, ms, next) ==
    LET c == supervisor[w]
        end == Farther(Claimed(c).until, ActivityLease(Claimed(c), ms))
    IN  /\ UNCHANGED <<flowAt, started>>
        /\ IF LiveClaim(c)
           THEN /\ flow' = [flow EXCEPT !.activity[c.activity].until = end]
                /\ supervisor' = [supervisor EXCEPT ![w] = next]
           ELSE /\ supervisor' = [supervisor EXCEPT ![w] = NoClaim]
                /\ UNCHANGED flow

\* run_once: the heartbeat while the handler runs.
Heartbeat(w) == supervisor[w].at = "running" /\ ExtendLease(w, FlowLease[w], supervisor[w])

\* run_once: the handler is done, and a lease for the completion is reserved if the
\* supervisor's own is shorter than the longest.
HandlerReturns(w) ==
    LET next == [supervisor[w] EXCEPT !.at = "completing"] IN
    /\ supervisor[w].at = "running"
    /\ IF FlowLease[w] < FlowMaxLease THEN ExtendLease(w, FlowMaxLease, next)
       ELSE supervisor' = [supervisor EXCEPT ![w] = next] /\ UNCHANGED <<flowAt, flow, started>>

\* The completion is neither a duplicate nor late.
Completable(c) ==
    /\ Claimed(c).attempt = c.attempt
    /\ flow.run.status = "Running" /\ Claimed(c).state = "Leased" /\ Claimed(c).until > flowAt

\* workflow_complete_activity with a result, a failure or a retryable failure: the tables
\* it may leave.
Completed(c, retryable) ==
    LET a == Claimed(c)
        due == flowAt + FlowRetry
        again == [a EXCEPT !.state = "Ready", !.due = due, !.until = 0]
    IN  IF ~Completable(c) THEN {flow}
        ELSE IF retryable /\ c.attempt < FlowAttempts /\ due < a.expires
        THEN {[flow EXCEPT !.activity[c.activity] = again]}
        ELSE Transition([flow EXCEPT !.activity[c.activity] = Past("Settled")], <<"completion", c.activity>>)

\* The supervisor completes; it hears the outcome, or submits the completion again, which can
\* only matter if nothing came of it before.
FlowComplete(w) ==
    /\ supervisor[w].at = "completing"
    /\ \E retryable \in BOOLEAN : flow' \in Completed(supervisor[w], retryable)
    /\ \E heard \in BOOLEAN : supervisor' = IF heard THEN [supervisor EXCEPT ![w] = NoClaim] ELSE supervisor
    /\ UNCHANGED <<flowAt, started>>

\* The supervisor's process ends.
WorkerStops(w) ==
    /\ supervisor[w] # NoClaim /\ supervisor' = [supervisor EXCEPT ![w] = NoClaim]
    /\ UNCHANGED <<flowAt, flow, started>>

-----------------------------------------------------------------------------
(* The maintenance Tick, in the order of scheduler_tick_at. *)

\* workflow_cleanup_terminal_bounded.
FlowCleaned(f) == IF f.run.status \in Ended /\ f.run.ended + FlowRetention <= flowAt THEN NoFlow ELSE f

Overdue(f) ==
    {i \in Sequences : /\ f.run.status = "Running" /\ Hopeless(f.activity[i])
                       /\ f.activity[i].state = "Ready" \/ LeaseOut(f.activity[i])}

\* workflow_fail_one_expired_activity.
FailOne(f) ==
    IF Overdue(f) = {} THEN {f}
    ELSE UNION {Transition([f EXCEPT !.activity[i] = Past("Settled")], <<"terminal", i>>) : i \in EarliestOf(f, Overdue(f))}

DueTimers(f) ==
    {i \in Sequences : f.run.status = "Running" /\ f.timer[i].state = "Pending" /\ f.timer[i].due <= flowAt}

\* workflow_fire_one_due_timer.
FireOne(f) ==
    IF DueTimers(f) = {} THEN {f}
    ELSE UNION {Transition([f EXCEPT !.timer[i] = PastTimer("Fired")], <<"timer", i>>) :
                    i \in {p[2] : p \in Least({<<f.timer[j].due, j>> : j \in DueTimers(f)})}}

\* repeat: as often as tasks may be outstanding; a new task is not due at once.
Repeat(task, tables) ==
    LET One(f) == IF task = "activity" THEN FailOne(f) ELSE FireOne(f)
        after[n \in 0 .. MaxTasks] == IF n = 0 THEN tables ELSE UNION {One(f) : f \in after[n - 1]}
    IN  after[MaxTasks]

FlowTicked(f) == Repeat("timer", {FlowReclaimed(g) : g \in Repeat("activity", {FlowCleaned(f)})})

\* What scheduler_next_due_with_schema takes the minimum of.
FlowDeadlines(f) ==
    {f.activity[i].due : i \in {j \in Sequences : f.activity[j].state = "Ready"}}
    \cup {f.activity[i].until : i \in {j \in Sequences : f.activity[j].state = "Leased"}}
    \cup {f.activity[i].expires : i \in {j \in Sequences : f.activity[j].state \in {"Ready", "Leased"}}}
    \cup {f.timer[i].due : i \in {j \in Sequences : f.timer[j].state = "Pending"}}
    \cup (IF f.run.status \in Ended THEN {f.run.ended + FlowRetention} ELSE {})

FlowDue == \E t \in FlowDeadlines(flow) : t <= flowAt

\* The scheduler runs a Tick of a Cell that is due.
FlowTick == UNCHANGED <<flowAt, started, supervisor>> /\ FlowDue /\ flow' \in FlowTicked(flow)

\* A step with the given supervisors, and no more runs than given.
FlowStep(workers, bound) ==
    \/ FlowAdvance \/ FlowSignal \/ FlowCancel \/ FlowPause \/ FlowResume \/ FlowTick
    \/ started < bound /\ (FlowStart \/ FlowRestart)
    \/ \E w \in workers : \/ FlowClaim(w) \/ FlowValidate(w) \/ Heartbeat(w) \/ HandlerReturns(w)
                          \/ FlowComplete(w) \/ WorkerStops(w)

FlowNext == FlowStep(Workers, MaxRuns)

\* Time passes and the scheduler runs the Ticks that are due; supervisors owe nothing.
FlowFairness == WF_flowVars(FlowAdvance) /\ WF_flowVars(FlowTick)
FlowSpec == FlowInit /\ [][FlowNext]_flowVars /\ FlowFairness

-----------------------------------------------------------------------------
(* Properties. *)

\* Rows have the shapes the schema checks: a lease exactly while leased, no more attempts and
\* no longer leases than allowed (migrations/workflow.sql).
FlowTypeOK ==
    /\ flowAt \in 0 .. FlowHorizon /\ started \in 0 .. MaxRuns
    /\ flow.run.id \in 0 .. started
    /\ flow.run.status \in {"None", "Running", "Paused"} \cup Ended
    /\ \A i \in Sequences :
        LET a == flow.activity[i] IN
        /\ a.state \in {"None", "Ready", "Leased", "Settled", "Cancelled"}
        /\ a.attempt \in 0 .. FlowAttempts /\ a.until <= a.expires
        /\ a.state # "Leased" => a.until = 0
        /\ flow.timer[i].state \in {"None", "Pending", "Fired", "Cancelled"}

\* The history explains the tables: the sequence counts the events, a task that came to its
\* end did so by exactly one event, and a task that did not by none; whatever supervisors,
\* Ticks, duplicates and restarts do to it (workflow_events, workflow_complete_activity).  A
\* run that ended has nothing outstanding, and a paused one no lease, so no supervisor does
\* work for it that its completion could not report (cancel_outstanding, Pause).
HistoryExplainsWork ==
    /\ FlowTypeOK
    /\ flow.run.sequence = Cardinality(flow.events)
    /\ \A i \in Sequences :
        /\ Cardinality({e \in flow.events : e[1] \in {"completion", "terminal"} /\ e[2] = i})
           = IF flow.activity[i].state = "Settled" THEN 1 ELSE 0
        /\ (<<"timer", i>> \in flow.events) <=> (flow.timer[i].state = "Fired")
    /\ flow.run.status \in Ended => Outstanding(flow) = {}
    /\ flow.run.status = "Paused" => \A i \in Sequences : flow.activity[i].state # "Leased"

\* An activity under a live lease is settled only by the supervisor that holds this very
\* attempt, or with its run by a decision that ends the run (workflow_complete_activity).
LeaseSettledByHolder ==
    \A i \in Sequences :
        LET a == flow.activity[i] IN
        (/\ a.state = "Leased" /\ a.until > flowAt
         /\ flow'.run.id = flow.run.id /\ flow'.activity[i].state \notin {"Leased", "Cancelled"})
        => \E w \in Workers : /\ supervisor[w].at = "completing" /\ supervisor[w].run = flow.run.id
                              /\ supervisor[w].activity = i /\ supervisor[w].attempt = a.attempt

\* The Cell's next due time never hides work: whenever a Tick would change something, the
\* scheduler finds the Cell due (scheduler_next_due_with_schema).
FlowWorkIsDue == (FlowCleaned(flow) # flow \/ Overdue(flow) # {} \/ FlowReclaimed(flow) # flow
                  \/ DueTimers(flow) # {}) => FlowDue

\* The work of a run comes to rest with every supervisor stopped: in the end no task is
\* outstanding, unless the run stays paused or the Cell's history is full, when a task's last
\* event has no room and nothing moves (workflow_fail_one_expired_activity,
\* workflow_fire_one_due_timer, next_sequence).
TasksSettle ==
    Outstanding(flow) # {}
    ~> Outstanding(flow) = {} \/ flow.run.status = "Paused" \/ ~RoomForEvent(flow)

=============================================================================
