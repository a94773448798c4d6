---------------------------- MODULE MCPrimitives ----------------------------
(***************************************************************************)
(* The primitives on small instances.  A behaviour is of one of them,      *)
(* which `scope' names: effects, a queue, cron schedules, a workflow       *)
(* (one run served by two supervisors, or two runs served by one) or the   *)
(* maintenance Tick.                                                       *)
(***************************************************************************)
EXTENDS Effects, Queue, Cron, Workflow, Maintenance

CONSTANTS q1, q2, w1, w2

VARIABLE scope

primitiveVars == <<scope, vars, queueVars, cronVars, flowVars, tickVars>>

MCConsumers == {q1, q2}
MCWorkers == {w1, w2}
MCLease == [w \in MCWorkers |-> IF w = w1 THEN 1 ELSE 2]
MCClasses == <<"cleanup", "expire", "timers">>
MCCleanupOf == [c \in {"cleanup", "expire", "timers"} |-> IF c = "expire" THEN "cleanup" ELSE "none"]

FlowScopes == {"supervisors", "runs"}

PrimitivesInit ==
    /\ scope \in {"effects", "queue", "cron", "tick"} \cup FlowScopes
    /\ Init /\ CronInit /\ FlowInit /\ TickInit
    /\ QueueInit /\ (scope # "queue" => ~target)

EffectsOnly == scope = "effects" /\ Next /\ UNCHANGED <<queueVars, cronVars, flowVars, tickVars>>

\* A queue with a dead-letter queue has one consumer, one without has two.
QueueOnly ==
    /\ scope = "queue" /\ QueueStep(IF target THEN {q1} ELSE MCConsumers)
    /\ UNCHANGED <<vars, cronVars, flowVars, tickVars>>

CronOnly == scope = "cron" /\ CronNext /\ UNCHANGED <<vars, queueVars, flowVars, tickVars>>

WorkersOf == IF scope = "runs" THEN {w1} ELSE MCWorkers
RunsOf == IF scope = "runs" THEN MaxRuns ELSE 1
FlowOnly ==
    /\ scope \in FlowScopes /\ FlowStep(WorkersOf, RunsOf)
    /\ UNCHANGED <<vars, queueVars, cronVars, tickVars>>

TickOnly == scope = "tick" /\ TickNext /\ UNCHANGED <<vars, queueVars, cronVars, flowVars>>

PrimitivesNext == UNCHANGED scope /\ (EffectsOnly \/ QueueOnly \/ CronOnly \/ FlowOnly \/ TickOnly)

PrimitivesSpec == PrimitivesInit /\ [][PrimitivesNext]_primitiveVars

\* The fairness of each module, in its own behaviours.
PrimitivesFairness ==
    /\ WF_vars(scope = "effects" /\ Advance) /\ WF_vars(scope = "effects" /\ SourceTick)
    /\ WF_queueVars(scope = "queue" /\ QueueAdvance) /\ WF_queueVars(scope = "queue" /\ QueueDueTick)
    /\ WF_cronVars(scope = "cron" /\ CronAdvance) /\ WF_cronVars(scope = "cron" /\ CronDueTick)
    /\ WF_flowVars(scope \in FlowScopes /\ FlowAdvance) /\ WF_flowVars(scope \in FlowScopes /\ FlowTick)
    /\ WF_tickVars(scope = "tick" /\ (Observe \/ TickStale \/ TickRuns))

PrimitivesFairSpec == PrimitivesSpec /\ PrimitivesFairness

\* The same lease protocol thrice: an effect, a message or an activity under a live lease is ended
\* only by the worker that holds this very attempt (apply_lease, queue_apply_lease,
\* workflow_complete_activity).
LeasesEndByHolder ==
    [][LeaseEndsByHolder /\ QueueLeaseEndsByHolder /\ LeaseSettledByHolder]_primitiveVars

\* The Cell's next due time never hides work of a queue or a workflow: whenever a Tick would change
\* something, the scheduler finds the Cell due (scheduler_next_due_with_schema).
WorkIsDue == QueueWorkIsDue /\ FlowWorkIsDue

\* What a Cell owes comes to rest by its Ticks alone, with every supervisor and consumer stopped:
\* effects and messages reach their end, schedules catch up, no task stays outstanding and the
\* maintenance backlogs drain (scheduler_tick_at).
WorkSettles == EffectSettles /\ MessageSettles /\ CronCatchesUp /\ TasksSettle /\ MaintenanceDrains
=============================================================================
