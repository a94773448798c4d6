----------------------------- MODULE CellLedger -----------------------------
(***************************************************************************)
(* What the authority of a Cell promises, whatever the object store, the   *)
(* network and the node sessions do: one holder at a time, a durable       *)
(* ledger of commits that only grows, and a Cell that changes hands only   *)
(* when the ledger has every commit acknowledged so far.                   *)
(***************************************************************************)
EXTENDS Integers, SequencesExt

CONSTANTS Sessions, None

VARIABLES holder, term, ledger, acked

ledgerVars == <<holder, term, ledger, acked>>

Init == holder = None /\ term = 0 /\ ledger = <<>> /\ acked = {}

Complete == acked \subseteq Range(ledger)

\* A session takes the Cell from nobody or from another session.
Acquire(s) ==
    /\ s # holder /\ Complete
    /\ holder' = s /\ term' = term + 1
    /\ UNCHANGED <<ledger, acked>>

\* The holder publishes, or its log is recovered for it.
Extend ==
    /\ holder # None
    /\ IsPrefix(ledger, ledger') /\ ledger' # ledger
    /\ UNCHANGED <<holder, term, acked>>

\* The holder acknowledges commits, durable here or in its own log.
Acknowledge ==
    /\ holder # None
    /\ acked \subseteq acked'
    /\ UNCHANGED <<holder, term, ledger>>

Release ==
    /\ holder # None /\ Complete
    /\ holder' = None
    /\ UNCHANGED <<term, ledger, acked>>

Next == (\E s \in Sessions : Acquire(s)) \/ Extend \/ Acknowledge \/ Release

Spec == Init /\ [][Next]_ledgerVars
=============================================================================
