--------------------------- MODULE EffectContract ---------------------------
(***************************************************************************)
(* What durable effects promise to the primitives that emit them: an       *)
(* effect is emitted once, its handler commits at most one outcome, and    *)
(* its source settles it for good, as delivered only after the handler     *)
(* committed.  Delivery may be late: the handler may commit after the      *)
(* source gave the effect up, or removed its row.                          *)
(***************************************************************************)
CONSTANTS
    Ids,       \* effects
    Verdicts   \* what a handler may commit

VARIABLES
    phase,     \* the source's view of each effect
    verdict    \* what its handler committed, or "none"

Settled == {"Delivered", "Failed"}

ContractInit ==
    /\ phase = [e \in Ids |-> "None"]
    /\ verdict = [e \in Ids |-> "none"]

\* A transaction of the source emits, gives up and removes effects.
SourceStep(emitted, failed, removed) ==
    /\ \A e \in emitted : phase[e] = "None"
    /\ \A e \in failed : phase[e] = "Pending"
    /\ \A e \in removed : phase[e] \in Settled
    /\ phase' = [e \in Ids |-> IF e \in emitted THEN "Pending"
                               ELSE IF e \in failed THEN "Failed"
                               ELSE IF e \in removed THEN "Removed" ELSE phase[e]]
    /\ UNCHANGED verdict

\* A transaction of the destination: the first delivery that lands runs the handler.
Handle(e, v) ==
    /\ phase[e] # "None" /\ verdict[e] = "none"
    /\ verdict' = [verdict EXCEPT ![e] = v]
    /\ UNCHANGED phase

\* The source hears of the outcome while the effect is open.
Acknowledge(e) ==
    /\ phase[e] = "Pending" /\ verdict[e] # "none"
    /\ phase' = [phase EXCEPT ![e] = "Delivered"]
    /\ UNCHANGED verdict

ContractNext ==
    \/ \E emitted, failed, removed \in SUBSET Ids : SourceStep(emitted, failed, removed)
    \/ \E e \in Ids, v \in Verdicts : Handle(e, v)
    \/ \E e \in Ids : Acknowledge(e)

Contract == ContractInit /\ [][ContractNext]_<<phase, verdict>>

=============================================================================
