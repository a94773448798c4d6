-------------------------------- MODULE Cron --------------------------------
(***************************************************************************)
(* The schedules of one cron Cell.  A mutation and a maintenance Tick are  *)
(* transactions at the Cell's logical time cronAt; a mutation may have     *)
(* been issued earlier, and its first due time may have passed by then.    *)
(* Each firing emits one effect; fired is the history of the invocations,  *)
(* told apart by the row they came from (a schedule deleted and created    *)
(* again is another row).                                                  *)
(***************************************************************************)
EXTENDS Integers, FiniteSetsExt

CONSTANTS
    Schedules,
    Intervals,       \* intervals a schedule may have
    CronTickLimit,   \* firings one Tick has room for
    CronMutations,   \* bound: mutations
    CronHorizon      \* bound: logical time explored

ASSUME CronAssumption ==
    /\ Intervals \subseteq Nat \ {0} /\ CronTickLimit \in Nat \ {0}
    /\ CronMutations \in Nat /\ CronHorizon \in Nat

VARIABLES
    cronAt,
    schedule,     \* cron_schedules
    fired,        \* invocations emitted
    anchor,       \* the due time each generation of a row began with, and its occurrence
    mutations

cronVars == <<cronAt, schedule, fired, anchor, mutations>>

NoSchedule == [row |-> 0, enabled |-> FALSE, interval |-> 0, due |-> 0, occurrence |-> 0, generation |-> 0]

CronInit ==
    /\ cronAt = 0
    /\ schedule = [s \in Schedules |-> NoSchedule]
    /\ fired = {}
    /\ anchor = [s \in Schedules |-> [due |-> 0, occurrence |-> 0]]
    /\ mutations = 0

CronAdvance ==
    /\ cronAt < CronHorizon /\ cronAt' = cronAt + 1
    /\ UNCHANGED <<schedule, fired, anchor, mutations>>

\* A mutation commits: the rows it leaves, and where the generation it began stands.
Mutate(s, row, fresh) ==
    /\ mutations < CronMutations /\ mutations' = mutations + 1
    /\ schedule' = [schedule EXCEPT ![s] = row]
    /\ anchor' = IF fresh THEN [anchor EXCEPT ![s] = [due |-> row.due, occurrence |-> row.occurrence]]
                 ELSE anchor
    /\ UNCHANGED <<cronAt, fired>>

Replaced(old, interval, due) ==
    [old EXCEPT !.enabled = TRUE, !.interval = interval, !.due = due, !.occurrence = 0,
                !.generation = @ + 1]

\* cron_mutate: Upsert.
CronUpsert(s) ==
    \E interval \in Intervals, due \in 0 .. CronHorizon :
        Mutate(s, IF schedule[s].row # 0 THEN Replaced(schedule[s], interval, due)
                  ELSE [row |-> mutations + 1, enabled |-> TRUE, interval |-> interval, due |-> due,
                        occurrence |-> 0, generation |-> 1],
               TRUE)

\* set_enabled, for a pause (no due time) and a resume.
CronPause(s) ==
    LET row == schedule[s] IN
    /\ row.row # 0
    /\ Mutate(s, [row EXCEPT !.enabled = FALSE, !.generation = IF row.enabled THEN @ + 1 ELSE @],
              row.enabled)

CronResume(s) ==
    \E due \in 0 .. CronHorizon :
        LET row == schedule[s]
            same == row.enabled /\ row.due = due
        IN  /\ row.row # 0
            /\ Mutate(s, [row EXCEPT !.enabled = TRUE, !.due = due,
                                     !.generation = IF same THEN @ ELSE @ + 1], ~same)

CronDelete(s) == schedule[s].row # 0 /\ Mutate(s, NoSchedule, FALSE)

-----------------------------------------------------------------------------
(* cron_fire_due_bounded. *)

\* The due time of a row after n firings.
\* Mutant: the next due time is counted from the Tick.
DueAfterDrifts(row, n) == IF n = 0 THEN row.due ELSE cronAt + n * row.interval
DueAfter(row, n) == row.due + n * row.interval

Firings(n) == MapThenSumSet(LAMBDA s : n[s], Schedules)

\* The firings one Tick makes: the oldest first, until none is due or its room is used up.
FiredInOrder(n) ==
    LET open == {s \in Schedules : schedule[s].enabled /\ DueAfter(schedule[s], n[s]) <= cronAt} IN
    /\ \A s \in Schedules : n[s] > 0 =>
        LET last == DueAfter(schedule[s], n[s] - 1) IN
        /\ schedule[s].enabled /\ last <= cronAt
        /\ \A r \in open : last <= DueAfter(schedule[r], n[r])
    /\ Firings(n) = CronTickLimit \/ (Firings(n) < CronTickLimit /\ open = {})

CronTick ==
    \E n \in [Schedules -> 0 .. CronTickLimit] :
        /\ FiredInOrder(n)
        /\ schedule' = [s \in Schedules |-> [schedule[s] EXCEPT !.due = DueAfter(schedule[s], n[s]),
                                                               !.occurrence = @ + n[s]]]
        /\ fired' = fired \cup
            UNION {{[schedule |-> s, row |-> schedule[s].row, generation |-> schedule[s].generation,
                     occurrence |-> schedule[s].occurrence + k, at |-> DueAfter(schedule[s], k - 1)]
                    : k \in 1 .. n[s]} : s \in Schedules}
        /\ UNCHANGED <<cronAt, anchor, mutations>>

\* The cron part of scheduler_next_due_with_schema.
CronDue == \E s \in Schedules : schedule[s].enabled /\ schedule[s].due <= cronAt
CronDueTick == CronDue /\ CronTick

CronNext ==
    \/ CronAdvance \/ CronDueTick
    \/ \E s \in Schedules : CronUpsert(s) \/ CronPause(s) \/ CronResume(s) \/ CronDelete(s)

\* Time passes and the scheduler runs the Ticks that are due.
CronFairness == WF_cronVars(CronAdvance) /\ WF_cronVars(CronDueTick)
CronSpec == CronInit /\ [][CronNext]_cronVars /\ CronFairness

-----------------------------------------------------------------------------
(* Properties. *)

\* However late and in however many Ticks they fire, the occurrences of a generation are
\* numbered without a gap and lie exactly one interval apart from the due time it began with
\* (cron_fire_due_bounded: no drift, none skipped, none repeated, none early).  A replacement,
\* a pause or a resume begins a generation that no earlier invocation of the row has.
OccurrencesAreExact ==
    /\ \A i \in fired : i.at <= cronAt
    /\ \A s \in Schedules :
        LET row == schedule[s]
            mine == {i \in fired : i.schedule = s /\ i.row = row.row /\ i.generation = row.generation}
            n == row.occurrence - anchor[s].occurrence
        IN  row.row # 0 =>
            /\ row.due = anchor[s].due + n * row.interval
            /\ {<<i.occurrence, i.at>> : i \in mine}
               = {<<anchor[s].occurrence + k, anchor[s].due + (k - 1) * row.interval>> : k \in 1 .. n}

\* Schedules whose time has come all catch up, however few firings one Tick makes
\* (scheduler_next_due_with_schema, cron_fire_due_bounded).
CronCatchesUp ==
    LET behind == \E s \in Schedules : schedule[s].enabled /\ schedule[s].due <= cronAt
    IN  behind ~> ~behind

=============================================================================
