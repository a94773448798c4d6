---------------------------- MODULE Maintenance -----------------------------
(***************************************************************************)
(* The maintenance Tick of one Cell: how it divides its budget among the   *)
(* classes of work, and how it is fenced by the commit sequence the        *)
(* scheduler saw.  A class is a number of due rows; the rows an expiry     *)
(* class ends become work of a cleanup class.  Of the sequence, only       *)
(* whether it has moved since it was observed is kept.                     *)
(***************************************************************************)
EXTENDS Integers, SequencesExt

CONSTANTS
    Classes,       \* maintenance classes, in the order a Tick runs them
    CleanupOf,     \* the cleanup class that removes the rows a class ends, or "none"
    TickItems,     \* MAX_TICK_ITEMS
    MaxTries,      \* Ticks the scheduler sends for one observation
    MaxBacklog,    \* bound: due rows of a class
    MaxCommits     \* bound: commands of applications

Names == Range(Classes)
CleanupClasses == Range(CleanupOf) \cap Names
Working == Names \ CleanupClasses

ASSUME MaintenanceAssumption ==
    /\ IsInjective(Classes) /\ DOMAIN CleanupOf = Names
    /\ TickItems \in Nat \ {0} /\ MaxTries \in Nat \ {0} /\ MaxBacklog \in Nat /\ MaxCommits \in Nat

VARIABLES
    backlog,     \* due rows of each class
    failing,     \* classes whose next row makes the transaction fail
    observed,    \* "none", or the observed sequence is still the Cell's ("fresh") or not ("moved")
    tries,       \* Ticks sent since the Cell was found due
    commits

tickVars == <<backlog, failing, observed, tries, commits>>

TickInit ==
    /\ backlog = [c \in Names |-> 0]
    /\ failing = {} /\ observed = "none" /\ tries = 0 /\ commits = 0

-----------------------------------------------------------------------------
(* scheduler_tick_at and MaintenanceBudget. *)

Indexes == 1 .. Len(Classes)

\* Mutant: no share is kept for the classes that follow.
FairShareNone == 0
FairShare == TickItems \div Len(Classes)

Less(m, n) == IF m < n THEN m ELSE n

\* Both passes of a Tick are described by what its first i classes have used of the budget.
Used(u, i) == u[i] - u[i - 1]

\* MaintenanceBudget::run: every later class keeps one share.
RunPass[i \in 0 .. Len(Classes)] ==
    IF i = 0 THEN 0
    ELSE RunPass[i - 1] + Less(backlog[Classes[i]],
                               TickItems - RunPass[i - 1] - FairShare * (Len(Classes) - i))

\* The classes a Tick also runs a second time.
Filled(c) == c \notin CleanupClasses

\* The rows a class has once class i handled n[i] of its rows, ending them.
Left(n, c) ==
    backlog[c] + MapThenSumSet(LAMBDA i : IF Classes[i] = c THEN -n[i]
                                          ELSE IF CleanupOf[Classes[i]] = c THEN n[i] ELSE 0, Indexes)

\* MaintenanceBudget::fill: the rows that are left, as long as the budget lasts.
FillPass(left) ==
    LET v[i \in 0 .. Len(Classes)] ==
            IF i = 0 THEN RunPass[Len(Classes)]
            ELSE v[i - 1] + IF Filled(Classes[i]) THEN Less(left[Classes[i]], TickItems - v[i - 1]) ELSE 0
    IN v

\* Some class meets a row it fails on.
Fails(n) == \E i \in Indexes : Classes[i] \in failing /\ n[i] > 0

-----------------------------------------------------------------------------
(* Commands of applications, and the scheduler. *)

\* A commit moves the sequence.
Moved == IF observed = "none" THEN observed ELSE "moved"

\* A command leaves rows that are due, or only commits.
Commit ==
    /\ commits < MaxCommits /\ commits' = commits + 1
    /\ \/ UNCHANGED backlog
       \/ \E c \in Names, n \in 1 .. MaxBacklog :
            /\ backlog[c] + n <= MaxBacklog
            /\ backlog' = [backlog EXCEPT ![c] = @ + n]
    /\ observed' = Moved
    /\ UNCHANGED <<failing, tries>>

\* A class starts to fail (its code is unavailable), or is repaired.
Break == \E c \in Working : failing' = failing \cup {c} /\ UNCHANGED <<backlog, observed, tries, commits>>
Repair == failing' = {} /\ UNCHANGED <<backlog, observed, tries, commits>>

\* scheduler_next_due_with_schema: some row is due.
Due == \E c \in Names : backlog[c] > 0

\* due_resident: the Cell is found due, with the sequence of its control.
Observe ==
    /\ observed = "none" /\ Due
    /\ observed' = "fresh" /\ tries' = 0
    /\ UNCHANGED <<backlog, failing, commits>>

IsStale == observed = "moved"

\* MaintenanceTickCommand::execute, stale: nothing is done, and the scheduler tries again with
\* the sequence of the Tick's own receipt, a few times.
TickStale ==
    /\ observed # "none" /\ IsStale
    /\ tries' = (tries + 1) % MaxTries
    /\ observed' = IF tries + 1 < MaxTries THEN "fresh" ELSE "none"
    /\ UNCHANGED <<backlog, failing, commits>>

\* The Tick runs; when a class fails, its transaction is rolled back.
TickRuns ==
    /\ observed # "none" /\ ~IsStale
    /\ observed' = "none" /\ tries' = 0
    /\ UNCHANGED <<failing, commits>>
    /\ \E left \in {[c \in Names |-> Left([i \in Indexes |-> Used(RunPass, i)], c)]} :
       \E n \in {[i \in Indexes |-> Used(RunPass, i) + Used(FillPass(left), i)]} :
        backlog' = IF Fails(n) THEN backlog ELSE [c \in Names |-> Left(n, c)]

TickNext == Commit \/ Break \/ Repair \/ Observe \/ TickStale \/ TickRuns

\* The scheduler goes on observing the Cell and sending its Ticks.
TickFairness == WF_tickVars(Observe \/ TickStale \/ TickRuns)
TickSpec == TickInit /\ [][TickNext]_tickVars /\ TickFairness

-----------------------------------------------------------------------------
(* Properties. *)

\* A Tick was applied.
Applied == observed = "fresh" /\ observed' = "none" /\ backlog' # backlog
Handled(c) == backlog[c] - backlog'[c]

\* However large the other backlogs are, an applied Tick handles a protected share of every
\* class (MaintenanceBudget::run: "every later class retains one share"), leaves work behind in a
\* class that may be filled only when it has used up its budget (fill), and leaves the rows it
\* ended there when it commits ("rows terminalized above remain observable until the next Tick").
BudgetIsFair ==
    [][Applied =>
        /\ \A c \in Working : Handled(c) >= Less(backlog[c], TickItems \div Len(Classes))
        /\ (\E c \in Working : backlog'[c] > 0) =>
            MapThenSumSet(Handled, Names) + MapThenSumSet(Handled, {c \in Names : CleanupOf[c] # "none"})
            = TickItems
        /\ \A c \in CleanupClasses :
            backlog'[c] >= MapThenSumSet(Handled, {d \in Names : CleanupOf[d] = c})]_tickVars

\* Once commands pause and no class fails any more, every backlog drains, with what its rows
\* leave to be cleaned up (scheduler_next_due_with_schema, scheduler_tick_at).
MaintenanceDrains == <>[](failing = {}) => <>[](\A c \in Names : backlog[c] = 0)

=============================================================================
